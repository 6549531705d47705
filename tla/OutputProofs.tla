---------------------------- MODULE OutputProofs ----------------------------
(***************************************************************************)
(* Proofs about what a caller reads of a request's output, for every value *)
(* of the constants: the reasoning budget (ReasoningBudget,                *)
(* serving/engine.py) closes the reasoning once and in time, and loses     *)
(* nothing else; and the blocks of an Anthropic stream (OutputStreams,     *)
(* protocol/anthropic/serialization.py) never overlap.                     *)
(*                                                                         *)
(* The session may have asked for a close that it has not seen yet, so the *)
(* budget's invariant speaks of all pieces the backend has made: All,      *)
(* those given to the session and those still ready.  EmissionInv bounds   *)
(* the closes in them; ForcingInv has one part per state of the budget,    *)
(* and says what is published of what was given in it.                     *)
(*                                                                         *)
(* What an Anthropic client is shown need not be where the parser is,      *)
(* since text is held back while a call is open, so the streams' invariant *)
(* relates the two: Phase is where the parser is, and Fits says that the   *)
(* client is shown that, or has the pending call's block open and is owed  *)
(* events that lead there.                                                 *)
(***************************************************************************)
EXTENDS ReasoningBudget, OutputStreams, FiniteSetTheorems, SequenceFolds

-----------------------------------------------------------------------------
(* The reasoning budget: what is no close marker, one piece at a time.     *)

(* One piece of some output.                                               *)
Puts(v, x) == IF Closes(x) THEN v ELSE Append(v, x)

(* The same as a function.                                                 *)
Putting == [v \in Seq(Pieces) |-> [x \in Pieces |-> Puts(v, x)]]

(* Output stays output.                                                    *)
LEMMA PutsType ==
  \A v \in Seq(Pieces), x \in Pieces : Puts(v, x) \in Seq(Pieces)
<1> QED
  BY DEF Puts

(* The pieces of some output.                                              *)
LEMMA UnmarkedRuns ==
  ASSUME NEW q \in Seq(Pieces)
  PROVE  FoldsTo(Seq(Pieces), <<>>, Putting, q, Unmarked(q))
<1> DEFINE V == Seq(Pieces)
           E == Pieces
           a == <<>>
           g == Putting
           Eq(F) == F = [p \in SUBSET DOMAIN q |->
                          IF p = {} THEN a
                          ELSE Puts(F[p \ {Max(p)}], q[Max(p)])]
           C == CHOOSE F : Eq(F)
<1>1. a \in V
  OBVIOUS
<1>2. /\ g \in [V -> [E -> V]]
      /\ \A v \in V, x \in E : g[v][x] = Puts(v, x)
  <2>1. \A v \in V, x \in E : (Puts(v, x)) \in V
    BY PutsType
  <2> QED
    BY <2>1 DEF Putting
<1>3. Unmarked(q) = C[DOMAIN q]
  BY Zenon DEF Unmarked, Puts, FoldLeft, MapThenFoldSet, Max
<1>4. q \in Seq(E)
  OBVIOUS
<1> HIDE DEF V, E, a, g, C
<1>5. PICK F : FoldOver(F, V, E, a, g, q)
  BY <1>1, <1>2, <1>4, FoldOverExists
<1>6. Eq(F)
  <2>1. \A p \in SUBSET DOMAIN q :
           F[p] = IF p = {} THEN a
                  ELSE Puts(F[p \ {Max(p)}], q[Max(p)])
    <3> SUFFICES ASSUME NEW p \in SUBSET DOMAIN q, p # {}
                 PROVE  F[p] = Puts(F[p \ {Max(p)}], q[Max(p)])
      BY <1>5, Zenon DEF FoldOver
    <3>1. /\ F[p \ {Max(p)}] \in V /\ q[Max(p)] \in E
          /\ F[p] = g[F[p \ {Max(p)}]][q[Max(p)]]
      BY <1>5, Zenon DEF FoldOver
    <3> QED
      BY <1>2, <3>1, Zenon
  <2>2. F = [p \in SUBSET DOMAIN q |-> F[p]]
    BY <1>5 DEF FoldOver
  <2> QED
    BY <2>1, <2>2, Zenon
<1>7. \A p \in SUBSET DOMAIN q :
        C[p] = IF p = {} THEN a
               ELSE Puts(C[p \ {Max(p)}], q[Max(p)])
  <2>1. Eq(C)
    BY <1>6, Zenon DEF C
  <2> QED
    BY <2>1, Zenon
<1>8. Folds(C, V, a, g, q)
  <2>1. C[{}] = a
    BY <1>7, Zenon
  <2>2. ASSUME NEW p \in SUBSET DOMAIN q, p # {}, C[p \ {Max(p)}] \in V
        PROVE  C[p] = g[C[p \ {Max(p)}]][q[Max(p)]]
    <3>1. q[Max(p)] \in E
      BY <1>5, <2>2, Zenon DEF FoldOver
    <3> QED
      BY <1>2, <1>7, <2>2, <3>1, Zenon
  <2> QED
    BY <2>1, <2>2, Zenon DEF Folds
<1>9. FoldsTo(V, a, g, q, Unmarked(q))
  <2>1. PICK K, result : K = C /\ result = Unmarked(q)
    OBVIOUS
  <2>2. Folds(K, V, a, g, q) /\ result = K[DOMAIN q]
    BY <1>3, <1>8, <2>1
  <2>3. FoldsTo(V, a, g, q, result)
    BY <1>1, <1>2, <1>4, <2>2, FoldRuns
  <2> QED
    BY <2>1, <2>3
<1> QED
  BY <1>9 DEF V, E, a, g

(* The output with one more piece.                                         *)
LEMMA UnmarkedAppend ==
  ASSUME NEW q \in Seq(Pieces), NEW x \in Pieces
  PROVE  /\ Unmarked(<<>>) = <<>>
         /\ Unmarked(q) \in Seq(Pieces)
         /\ Unmarked(Append(q, x)) = Puts(Unmarked(q), x)
<1> DEFINE V == Seq(Pieces)
           E == Pieces
           a == <<>>
           g == Putting
<1>1. a \in V /\ q \in Seq(E) /\ x \in E /\ Append(q, x) \in Seq(E) /\ <<>> \in Seq(E)
  OBVIOUS
<1>2. /\ g \in [V -> [E -> V]]
      /\ \A v \in V, y \in E : g[v][y] = Puts(v, y)
  <2>1. \A v \in V, y \in E : (Puts(v, y)) \in V
    BY PutsType
  <2> QED
    BY <2>1 DEF Putting
<1>3. PICK r, result, more, none : /\ r = Unmarked(q) /\ more = Append(q, x)
                              /\ result = Unmarked(Append(q, x)) /\ none = Unmarked(<<>>)
  OBVIOUS
<1>4. FoldsTo(V, a, g, q, r) /\ FoldsTo(V, a, g, more, result) /\ FoldsTo(V, a, g, <<>>, none)
  BY <1>1, <1>3, UnmarkedRuns
<1> HIDE DEF V, E, a, g
<1>5. Continues(V, E, a, g, q, x, more)
  BY <1>1, <1>2, <1>3, Zenon DEF Continues, Longer
<1>6. r \in V /\ result = g[r][x]
  BY <1>4, <1>5, FoldAppend
<1>7. result = Puts(r, x)
  BY <1>1, <1>2, <1>6, Zenon
<1>8. none = a
  BY <1>4, FoldEmpty
<1> QED
  BY <1>3, <1>6, <1>7, <1>8, Zenon DEF V, a

(* The close markers of some output.                                       *)
CloseMarks(q) == ClosesIn(q)
(* Their number.                                                           *)
Closings(q) == Cardinality(CloseMarks(q))

(* Everything that can be sampled, delivered or published.                 *)
PieceSeqs == Seq(Pieces)

(* The close markers are finitely many positions.                          *)
LEMMA ClosingType ==
  ASSUME NEW X, NEW q \in Seq(X)
  PROVE  /\ IsFiniteSet(CloseMarks(q)) /\ Closings(q) \in Nat
         /\ CloseMarks(q) \in SUBSET (1..Len(q))
         /\ \A i : i \in CloseMarks(q) <=> i \in 1..Len(q) /\ Closes(q[i])
         /\ Closings(q) = 0 <=> CloseMarks(q) = {}
<1>1. PICK n \in Nat : n = Len(q)
  OBVIOUS
<1>2. DOMAIN q = 1..n
  BY <1>1
<1>3. CloseMarks(q) \in SUBSET (1..n)
  BY <1>2 DEF CloseMarks, ClosesIn
<1>4. IsFiniteSet(CloseMarks(q))
  <2>1. IsFiniteSet(1..n)
    BY FS_Interval
  <2> QED
    BY <1>3, <2>1, FS_Subset
<1> QED
  BY <1>1, <1>2, <1>3, <1>4, FS_CardinalityType, FS_EmptySet DEF CloseMarks, Closings, ClosesIn

(* No output has no close marker.                                          *)
LEMMA ClosingsEmpty == Closings(<<>>) = 0
<1>1. DOMAIN <<>> = {}
  OBVIOUS
<1>2. CloseMarks(<<>>) = {}
  BY <1>1 DEF CloseMarks, ClosesIn
<1> QED
  BY <1>2, FS_EmptySet DEF Closings

(* One more piece.                                                         *)
LEMMA ClosingsAppend ==
  ASSUME NEW X, NEW q \in Seq(X), NEW x \in X, NEW more, Longer(more, q, x)
  PROVE  /\ more \in Seq(X)
         /\ Closings(more) = Closings(q) + (IF Closes(x) THEN 1 ELSE 0)
<1>1. PICK n \in Nat : n = Len(q)
  OBVIOUS
<1>2. /\ more \in Seq(X) /\ Len(more) = n + 1 /\ more[n + 1] = x
      /\ \A i \in 1..n : more[i] = q[i]
  BY <1>1 DEF Longer
<1>3. /\ \A i : i \in CloseMarks(q) <=> i \in 1..n /\ Closes(q[i])
      /\ \A i : i \in CloseMarks(more) <=> i \in 1..(n + 1) /\ Closes(more[i])
      /\ IsFiniteSet(CloseMarks(q)) /\ Closings(q) \in Nat
  BY <1>1, <1>2, ClosingType
<1>4. /\ n + 1 \notin 1..n /\ n + 1 \in 1..(n + 1)
      /\ \A i : i \in 1..(n + 1) <=> i \in 1..n \/ i = n + 1
  OBVIOUS
<1>5. CASE Closes(x)
  <2>1. \A i : i \in CloseMarks(more) <=> i \in CloseMarks(q) \cup {n + 1}
    BY <1>2, <1>3, <1>4, <1>5
  <2>2. CloseMarks(more) = CloseMarks(q) \cup {n + 1}
    BY <2>1
  <2>3. n + 1 \notin CloseMarks(q)
    BY <1>3, <1>4
  <2>4. Cardinality(CloseMarks(q) \cup {n + 1}) = Cardinality(CloseMarks(q)) + 1
    BY <1>3, <2>3, FS_AddElement
  <2> QED
    BY <1>2, <1>5, <2>2, <2>4 DEF Closings
<1>6. CASE ~Closes(x)
  <2>1. \A i : i \in CloseMarks(more) <=> i \in CloseMarks(q)
    BY <1>2, <1>3, <1>4, <1>6
  <2>2. CloseMarks(more) = CloseMarks(q)
    BY <2>1
  <2> QED
    BY <1>2, <1>3, <1>6, <2>2 DEF Closings
<1> QED
  BY <1>5, <1>6

(* One output after another.                                               *)
LEMMA ClosingsConcat ==
  ASSUME NEW X, NEW p \in Seq(X), NEW q \in Seq(X)
  PROVE  Closings(p \o q) = Closings(p) + Closings(q)
<1> DEFINE T == {s \in Seq(X) : Closings(p \o s) = Closings(p) + Closings(s)}
<1>1. <<>> \in T
  <2>1. p \o <<>> = p /\ <<>> \in Seq(X)
    BY ConcatEmptySeq
  <2>2. Closings(p) \in Nat
    BY ClosingType
  <2> QED
    BY <2>1, <2>2, ClosingsEmpty
<1>2. \A s \in Seq(X), x \in X : s \in T => Append(s, x) \in T
  <2> SUFFICES ASSUME NEW s \in Seq(X), NEW x \in X, Closings(p \o s) = Closings(p) + Closings(s)
               PROVE  Append(s, x) \in T
    OBVIOUS
  <2>1. PICK more, both, longer : more = Append(s, x) /\ both = p \o s /\ longer = p \o Append(s, x)
    OBVIOUS
  <2>2. both \in Seq(X) /\ longer = Append(both, x) /\ more \in Seq(X)
    BY <2>1
  <2>3. Longer(more, s, x) /\ Longer(longer, both, x)
    BY <2>1, <2>2 DEF Longer
  <2>4. Closings(more) = Closings(s) + (IF Closes(x) THEN 1 ELSE 0)
    BY <2>3, ClosingsAppend
  <2>5. Closings(longer) = Closings(both) + (IF Closes(x) THEN 1 ELSE 0)
    BY <2>2, <2>3, ClosingsAppend
  <2>6. Closings(p) \in Nat /\ Closings(s) \in Nat /\ Closings(both) = Closings(p) + Closings(s)
    BY <2>1, ClosingType
  <2>7. Closings(longer) = Closings(p) + Closings(more)
    BY <2>4, <2>5, <2>6
  <2> QED
    BY <2>1, <2>2, <2>7
<1> HIDE DEF T
<1>3. q \in T
  BY <1>1, <1>2, SeqInduction
<1> QED
  BY <1>3 DEF T

(* One more piece behind two parts.                                        *)
LEMMA PutsConcat ==
  ASSUME NEW a \in PieceSeqs, NEW b \in PieceSeqs, NEW x \in Pieces
  PROVE  Puts(a \o b, x) = a \o Puts(b, x)
<1>1. a \in Seq(Pieces) /\ b \in Seq(Pieces)
  BY DEF PieceSeqs
<1>2. Append(a \o b, x) = a \o Append(b, x)
  <2>1. PICK P : P = Pieces
    OBVIOUS
  <2>2. a \in Seq(P) /\ b \in Seq(P) /\ x \in P
    BY <1>1, <2>1
  <2> QED
    BY <2>2
<1> QED
  BY <1>2 DEF Puts

(* What is no close marker of one output after another.                    *)
LEMMA UnmarkedConcat ==
  ASSUME NEW p \in PieceSeqs, NEW q \in PieceSeqs
  PROVE  Unmarked(p \o q) = Unmarked(p) \o Unmarked(q) /\ Unmarked(p) \in PieceSeqs
<1> DEFINE T == {s \in PieceSeqs : Unmarked(p \o s) = Unmarked(p) \o Unmarked(s)}
<1>0. PICK P : P = Pieces
  OBVIOUS
<1>1. \A s \in PieceSeqs, x \in P :
        /\ Unmarked(<<>>) = <<>> /\ Unmarked(s) \in PieceSeqs
        /\ Unmarked(Append(s, x)) = Puts(Unmarked(s), x)
  BY <1>0, UnmarkedAppend DEF PieceSeqs
<1>2. "r" \in P
  BY <1>0 DEF Pieces
<1>3. <<>> \in T /\ Unmarked(p) \in PieceSeqs
  <2>1. p \o <<>> = p /\ <<>> \in PieceSeqs
    BY ConcatEmptySeq DEF PieceSeqs
  <2>3. Unmarked(p) \in PieceSeqs /\ Unmarked(<<>>) = <<>>
    BY <1>1, <1>2
  <2>2. Unmarked(p) \o <<>> = Unmarked(p)
    BY <2>3, ConcatEmptySeq DEF PieceSeqs
  <2> QED
    BY <2>1, <2>2, <2>3
<1>4. \A s \in Seq(P), x \in P : s \in T => Append(s, x) \in T
  <2> SUFFICES ASSUME NEW s \in Seq(P), NEW x \in P, Unmarked(p \o s) = Unmarked(p) \o Unmarked(s)
               PROVE  Append(s, x) \in T
    OBVIOUS
  <2>1. p \in Seq(P) /\ s \in PieceSeqs
    BY <1>0 DEF PieceSeqs
  <2>2. p \o s \in Seq(P) /\ p \o Append(s, x) = Append(p \o s, x) /\ Append(s, x) \in Seq(P)
    BY <2>1
  <2>3. Unmarked(Append(s, x)) = Puts(Unmarked(s), x)
    BY <1>1, <2>1
  <2>4. Unmarked(Append(p \o s, x)) = Puts(Unmarked(p \o s), x)
    BY <1>0, <1>1, <2>2 DEF PieceSeqs
  <2>5. Unmarked(p) \in Seq(P) /\ Unmarked(s) \in Seq(P)
    BY <1>0, <1>1, <1>3, <2>1 DEF PieceSeqs
  <2>6. Puts(Unmarked(p) \o Unmarked(s), x) = Unmarked(p) \o Puts(Unmarked(s), x)
    <3>1. Unmarked(p) \in PieceSeqs /\ Unmarked(s) \in PieceSeqs /\ x \in Pieces
      BY <1>0, <2>5 DEF PieceSeqs
    <3> QED
      BY <3>1, PutsConcat
  <2>7. Unmarked(p \o Append(s, x)) = Unmarked(p) \o Unmarked(Append(s, x))
    BY <2>2, <2>3, <2>4, <2>6
  <2> QED
    BY <1>0, <2>2, <2>7 DEF PieceSeqs
<1> HIDE DEF T
<1>5. q \in T
  <2>1. q \in Seq(P)
    BY <1>0 DEF PieceSeqs
  <2> QED
    BY <1>3, <1>4, <2>1, SeqInduction
<1> QED
  BY <1>3, <1>5 DEF T

(* The beginning of some output, up to a piece.                            *)
Upto(d, i) == SubSeq(d, 1, i)

(* The beginning of some output, and its close markers.                    *)
LEMMA UptoType ==
  ASSUME NEW X, NEW d \in Seq(X), NEW i \in 0..Len(d)
  PROVE  /\ Upto(d, i) \in Seq(X) /\ Len(Upto(d, i)) = i
         /\ \A j \in 1..i : Upto(d, i)[j] = d[j] /\ j \in 1..Len(d)
         /\ Closings(Upto(d, i)) \in Nat
         /\ Closings(Upto(d, i)) = Cardinality({j \in CloseMarks(d) : j <= i})
<1>1. PICK n \in Nat : n = Len(d)
  OBVIOUS
<1>2. PICK u : u = Upto(d, i)
  OBVIOUS
<1>3. u \in Seq(X) /\ Len(u) = i /\ \A j \in 1..i : u[j] = d[j] /\ j \in 1..n
  BY <1>1, <1>2 DEF Upto
<1>4. /\ \A j : j \in CloseMarks(d) <=> j \in 1..n /\ Closes(d[j])
      /\ \A j : j \in CloseMarks(u) <=> j \in 1..i /\ Closes(u[j])
      /\ Closings(u) \in Nat
  BY <1>1, <1>3, ClosingType
<1>5. \A j \in 1..n : j <= i <=> j \in 1..i
  BY <1>1
<1>6. CloseMarks(u) = {j \in CloseMarks(d) : j <= i}
  <2>1. \A j : j \in CloseMarks(u) <=> j \in CloseMarks(d) /\ j <= i
    BY <1>3, <1>4, <1>5
  <2> QED
    BY <2>1
<1> QED
  BY <1>1, <1>2, <1>3, <1>4, <1>6 DEF Closings

(* One piece further.                                                      *)
LEMMA UptoNext ==
  ASSUME NEW X, NEW d \in Seq(X), NEW i \in 1..Len(d)
  PROVE  Closings(Upto(d, i)) =
           Closings(Upto(d, i - 1)) + (IF Closes(d[i]) THEN 1 ELSE 0)
<1>1. Upto(d, i) = Append(Upto(d, i - 1), d[i]) /\ Upto(d, i - 1) \in Seq(X) /\ d[i] \in X
  BY DEF Upto
<1>2. Longer(Upto(d, i), Upto(d, i - 1), d[i])
  BY <1>1 DEF Longer
<1>3. PICK u, v, x : u = Upto(d, i) /\ v = Upto(d, i - 1) /\ x = d[i]
  OBVIOUS
<1>4. v \in Seq(X) /\ x \in X /\ Longer(u, v, x)
  BY <1>1, <1>2, <1>3
<1>5. Closings(u) = Closings(v) + (IF Closes(x) THEN 1 ELSE 0)
  BY <1>4, ClosingsAppend
<1> QED
  BY <1>3, <1>5

(* The k-th close marker.                                                  *)
LEMMA NthFound ==
  ASSUME NEW X, NEW d \in Seq(X), NEW k \in Nat, 1 <= k, k <= Closings(d),
         NEW i, i = Nth(d, k)
  PROVE  i \in 1..Len(d) /\ Closes(d[i]) /\ Closings(Upto(d, i)) = k
<1>1. PICK n \in Nat : n = Len(d)
  OBVIOUS
<1> DEFINE T == {m \in 0..n : \A c \in 1..Closings(Upto(d, m)) :
                   \E j \in CloseMarks(d) : Closings(Upto(d, j)) = c}
<1>2. 0 \in T
  <2>1. Upto(d, 0) = <<>>
    BY DEF Upto
  <2>2. Closings(Upto(d, 0)) = 0
    BY <2>1, ClosingsEmpty
  <2> QED
    BY <1>1, <2>2
<1>3. \A m \in 0..(n - 1) : m \in T => m + 1 \in T
  <2> SUFFICES ASSUME NEW m \in 0..(n - 1), m \in T,
                      NEW c \in 1..Closings(Upto(d, m + 1))
               PROVE  \E j \in CloseMarks(d) : Closings(Upto(d, j)) = c
    BY <1>1
  <2>1. PICK h : h = m + 1
    OBVIOUS
  <2>2. h \in 1..n /\ h - 1 = m /\ h \in 0..n /\ m \in 0..n
    BY <1>1, <2>1
  <2>3. Closings(Upto(d, h)) = Closings(Upto(d, m)) + (IF Closes(d[h]) THEN 1 ELSE 0)
    <3>1. Closings(Upto(d, h)) = Closings(Upto(d, h - 1)) + (IF Closes(d[h]) THEN 1 ELSE 0)
      BY <1>1, <2>2, UptoNext
    <3> QED
      BY <2>2, <3>1
  <2>4. Closings(Upto(d, m)) \in Nat
    BY <1>1, <2>2, UptoType
  <2>5. CASE c \in 1..Closings(Upto(d, m))
    BY <2>5
  <2>6. CASE c \notin 1..Closings(Upto(d, m))
    <3>1. Closes(d[h]) /\ c = Closings(Upto(d, h))
      BY <2>1, <2>3, <2>4, <2>6
    <3>2. h \in CloseMarks(d)
      BY <1>1, <2>2, <3>1, ClosingType
    <3> QED
      BY <3>1, <3>2
  <2> QED
    BY <2>5, <2>6
<1> HIDE DEF T
<1>4. n \in T
  <2>1. \A m \in 0..n : m \in T
    BY <1>1, <1>2, <1>3, SetInduction
  <2> QED
    BY <1>1, <2>1
<1>5. Upto(d, n) = d /\ Closings(d) \in Nat
  BY <1>1, ClosingType DEF Upto
<1>6. PICK j \in CloseMarks(d) : Closings(Upto(d, j)) = k
  BY <1>4, <1>5 DEF T
<1>7. \A m : m \in CloseMarks(d) <=> m \in 1..n /\ Closes(d[m])
  BY <1>1, ClosingType
<1>8. \A m \in CloseMarks(d) : Closings(Upto(d, m)) = Cardinality({h \in CloseMarks(d) : h <= m})
  <2> SUFFICES ASSUME NEW m \in CloseMarks(d)
               PROVE  Closings(Upto(d, m)) = Cardinality({h \in CloseMarks(d) : h <= m})
    OBVIOUS
  <2>1. m \in 0..Len(d)
    BY <1>1, <1>7
  <2> QED
    BY <2>1, UptoType
<1>9. i = CHOOSE m \in CloseMarks(d) : Cardinality({h \in CloseMarks(d) : h <= m}) = k
  BY Zenon DEF Nth, CloseMarks
<1>10. i \in CloseMarks(d) /\ Cardinality({h \in CloseMarks(d) : h <= i}) = k
  BY <1>6, <1>8, <1>9
<1> QED
  BY <1>1, <1>7, <1>8, <1>10

(* The first close marker of d is at i.                                    *)
First(d, i) ==
  /\ i \in DOMAIN d /\ Closes(d[i])
  /\ \A j \in DOMAIN d : j < i => ~Closes(d[j])

(* There is one first close marker.                                        *)
LEMMA FirstUnique ==
  ASSUME NEW X, NEW d \in Seq(X), NEW i, NEW j, First(d, i), First(d, j)
  PROVE  i = j
<1>1. PICK n \in Nat : DOMAIN d = 1..n
  OBVIOUS
<1>2. i \in 1..n /\ j \in 1..n /\ ~(i < j) /\ ~(j < i)
  BY <1>1 DEF First
<1> QED
  BY <1>2

(* The first close marker.                                                 *)
LEMMA FirstFound ==
  ASSUME NEW X, NEW d \in Seq(X), CloseMarks(d) # {}, NEW i, i = Nth(d, 1)
  PROVE  First(d, i)
<1>1. PICK n \in Nat : n = Len(d)
  OBVIOUS
<1>2. Closings(d) \in Nat /\ Closings(d) # 0
  BY ClosingType
<1>3. i \in 1..n /\ Closes(d[i]) /\ Closings(Upto(d, i)) = 1
  BY <1>1, <1>2, NthFound
<1>4. Closings(Upto(d, i - 1)) = 0
  <2>1. Closings(Upto(d, i)) = Closings(Upto(d, i - 1)) + 1
    BY <1>1, <1>3, UptoNext
  <2>2. i - 1 \in 0..n
    BY <1>1, <1>3
  <2>3. Closings(Upto(d, i - 1)) \in Nat
    BY <1>1, <2>2, UptoType
  <2> QED
    BY <1>3, <2>1, <2>3
<1>5. ASSUME NEW j \in 1..n, j < i PROVE ~Closes(d[j])
  <2>1. PICK h, u : h = i - 1 /\ u = Upto(d, h)
    OBVIOUS
  <2>2. h \in 0..n /\ j \in 1..h
    BY <1>3, <1>5, <2>1
  <2>3. u \in Seq(X) /\ Len(u) = h /\ u[j] = d[j]
    BY <1>1, <2>1, <2>2, UptoType
  <2>4. CloseMarks(u) = {}
    BY <1>4, <2>1, <2>3, ClosingType
  <2>5. j \notin CloseMarks(u)
    BY <2>4
  <2> QED
    BY <2>2, <2>3, <2>5, ClosingType
<1> QED
  BY <1>1, <1>3, <1>5 DEF First

(* Two sequences, one after the other.                                     *)
LEMMA ConcatParts ==
  ASSUME NEW X, NEW p \in Seq(X), NEW q \in Seq(X), NEW s, s = p \o q,
         NEW m \in Nat, m = Len(p), NEW n \in Nat, n = Len(q)
  PROVE  /\ s \in Seq(X) /\ Len(s) = m + n /\ DOMAIN s = 1..(m + n)
         /\ \A i \in 1..m : s[i] = p[i] /\ i \in 1..(m + n)
         /\ \A i \in 1..n : s[m + i] = q[i] /\ m + i \in 1..(m + n)
         /\ \A i \in 1..(m + n) : i \in 1..m \/ (i - m \in 1..n /\ m + (i - m) = i)
<1> QED
  OBVIOUS

(* d is a, its piece at i and b.                                           *)
Apart(X, d, i, a, b) ==
  /\ a \in Seq(X) /\ b \in Seq(X) /\ d[i] \in X
  /\ d = Append(a, d[i]) \o b
  /\ Len(a \o b) = Len(d) - 1
  /\ \A j \in 1..(i - 1) : j \in 1..Len(a \o b) /\ (a \o b)[j] = d[j]

(* Output cut at one of its pieces.                                        *)
LEMMA CutApart ==
  ASSUME NEW X, NEW d \in Seq(X), NEW i \in 1..Len(d), NEW a, NEW b,
         a = SubSeq(d, 1, i - 1), b = SubSeq(d, i + 1, Len(d))
  PROVE  Apart(X, d, i, a, b)
<1>1. PICK n \in Nat : n = Len(d)
  OBVIOUS
<1>2. PICK h \in 0..n : h = i - 1 /\ i = h + 1
  BY <1>1
<1>3. PICK g \in Nat : g = n - i
  <2>1. i \in 1..n
    BY <1>1
  <2>2. n - i \in Nat
    BY <2>1
  <2> QED
    BY <2>2
<1>4. a \in Seq(X) /\ Len(a) = h /\ \A j \in 1..h : a[j] = d[j]
  <2>1. a = SubSeq(d, 1, h)
    BY <1>2
  <2> QED
    BY <1>1, <2>1
<1>5. b \in Seq(X) /\ Len(b) = g
  BY <1>1, <1>3
<1>6. d = Append(a, d[i]) \o b
  <2>1. Append(a, d[i]) = SubSeq(d, 1, i)
    OBVIOUS
  <2>2. 1 \in 1..(Len(d) + 1) /\ i \in 0..Len(d) /\ Len(d) \in i..Len(d)
    BY <1>1
  <2>3. SubSeq(d, 1, i) \o SubSeq(d, i + 1, Len(d)) = SubSeq(d, 1, Len(d))
    BY <2>2, ConcatAdjacentSubSeq
  <2>4. SubSeq(d, 1, Len(d)) = d
    OBVIOUS
  <2> QED
    BY <2>1, <2>3, <2>4
<1>7. PICK e : e = a \o b
  OBVIOUS
<1>8. Len(e) = h + g /\ \A j \in 1..h : e[j] = a[j] /\ j \in 1..(h + g)
  <2>1. h \in Nat /\ h = Len(a) /\ g = Len(b) /\ a \in Seq(X) /\ b \in Seq(X)
    BY <1>2, <1>4, <1>5
  <2>2. Len(e) = h + g
    BY <1>7, <2>1
  <2>3. ASSUME NEW j \in 1..h PROVE e[j] = a[j]
    BY <1>7, <2>1
  <2>4. \A j \in 1..h : j \in 1..(h + g)
    <3>1. \A k, m \in Nat : \A j \in 1..k : j \in 1..(k + m)
      OBVIOUS
    <3>2. h \in Nat /\ g \in Nat
      BY <2>1
    <3> QED
      BY <3>1, <3>2, Zenon
  <2> QED
    BY <2>2, <2>3, <2>4
<1>9. h + g = n - 1
  BY <1>1, <1>2, <1>3
<1>10. d[i] \in X
  OBVIOUS
<1>11. Len(e) = n - 1 /\ \A j \in 1..h : j \in 1..(n - 1) /\ e[j] = d[j]
  BY <1>4, <1>8, <1>9
<1>12. Len(e) = Len(d) - 1 /\ \A j \in 1..(i - 1) : j \in 1..Len(e) /\ e[j] = d[j]
  BY <1>1, <1>2, <1>11
<1> QED
  BY <1>4, <1>5, <1>6, <1>7, <1>10, <1>12, Zenon DEF Apart

(* Output without one of its close markers.                                *)
LEMMA CloseRemoved ==
  ASSUME NEW d \in PieceSeqs, NEW i \in 1..Len(d), Closes(d[i]),
         NEW e, e = Without(d, i)
  PROVE  /\ e \in PieceSeqs /\ Closings(d) = Closings(e) + 1 /\ Unmarked(e) = Unmarked(d)
         /\ Len(e) = Len(d) - 1 /\ \A j \in 1..(i - 1) : j \in 1..Len(e) /\ e[j] = d[j]
<1>1. PICK P : P = Pieces
  OBVIOUS
<1>2. d \in Seq(P)
  BY <1>1 DEF PieceSeqs
<1>3. PICK a, b, x : a = SubSeq(d, 1, i - 1) /\ b = SubSeq(d, i + 1, Len(d)) /\ x = d[i]
  OBVIOUS
<1>4. e = a \o b
  BY <1>3 DEF Without
<1>5. /\ a \in Seq(P) /\ b \in Seq(P) /\ x \in P /\ d = Append(a, x) \o b
      /\ Len(e) = Len(d) - 1 /\ \A j \in 1..(i - 1) : j \in 1..Len(e) /\ e[j] = d[j]
  <2>2. /\ a \in Seq(P) /\ b \in Seq(P) /\ d[i] \in P /\ d = Append(a, d[i]) \o b
        /\ Len(a \o b) = Len(d) - 1
        /\ \A j \in 1..(i - 1) : j \in 1..Len(a \o b) /\ (a \o b)[j] = d[j]
    <3>1. Apart(P, d, i, a, b)
      BY <1>2, <1>3, CutApart
    <3> QED
      BY <3>1, Zenon DEF Apart
  <2> QED
    BY <1>3, <1>4, <2>2, Zenon
<1>6. PICK one : one = <<x>>
  OBVIOUS
<1>7. d = (a \o one) \o b /\ one \in Seq(P) /\ a \o one \in Seq(P)
  <2>1. a \o one = Append(a, x) /\ one \in Seq(P) /\ a \o one \in Seq(P)
    BY <1>5, <1>6
  <2> QED
    BY <1>5, <2>1
<1>8. Closings(one) = 1 /\ Unmarked(one) = <<>>
  <2>1. one = Append(<<>>, x) /\ <<>> \in Seq(P)
    BY <1>5, <1>6
  <2>2. Closings(one) = Closings(<<>>) + 1
    <3>1. PICK none : none = <<>>
      OBVIOUS
    <3>2. Longer(one, none, x) /\ Closes(x) /\ none \in Seq(P)
      BY <1>3, <2>1, <3>1 DEF Longer
    <3>3. Closings(one) = Closings(none) + (IF Closes(x) THEN 1 ELSE 0)
      BY <1>5, <3>2, ClosingsAppend
    <3> QED
      BY <3>1, <3>2, <3>3
  <2>3. Unmarked(one) = Puts(Unmarked(<<>>), x) /\ Unmarked(<<>>) = <<>>
    BY <1>1, <1>5, <2>1, UnmarkedAppend
  <2>4. Puts(Unmarked(<<>>), x) = Unmarked(<<>>)
    BY <1>3 DEF Puts
  <2> QED
    BY <2>2, <2>3, <2>4, ClosingsEmpty
<1>9. /\ Closings(d) = Closings(a \o one) + Closings(b)
      /\ Closings(a \o one) = Closings(a) + Closings(one)
      /\ Closings(e) = Closings(a) + Closings(b)
      /\ Closings(a) \in Nat /\ Closings(b) \in Nat
  <2>1. PICK c : c = a \o one
    OBVIOUS
  <2>2. c \in Seq(P) /\ d = c \o b
    BY <1>7, <2>1
  <2>3. Closings(d) = Closings(c) + Closings(b)
    BY <1>5, <2>2, ClosingsConcat
  <2>4. Closings(c) = Closings(a) + Closings(one)
    BY <1>5, <1>7, <2>1, ClosingsConcat
  <2>5. Closings(e) = Closings(a) + Closings(b)
    BY <1>4, <1>5, ClosingsConcat
  <2>6. Closings(a) \in Nat /\ Closings(b) \in Nat
    BY <1>5, ClosingType
  <2> QED
    BY <2>1, <2>3, <2>4, <2>5, <2>6
<1>10. Closings(d) = Closings(e) + 1
  BY <1>8, <1>9
<1>11. Unmarked(e) = Unmarked(d)
  <2>1. a \in PieceSeqs /\ b \in PieceSeqs /\ one \in PieceSeqs /\ a \o one \in PieceSeqs
    BY <1>1, <1>5, <1>7 DEF PieceSeqs
  <2>2. /\ Unmarked(d) = Unmarked(a \o one) \o Unmarked(b)
        /\ Unmarked(a \o one) = Unmarked(a) \o Unmarked(one)
        /\ Unmarked(e) = Unmarked(a) \o Unmarked(b)
        /\ Unmarked(a) \in PieceSeqs
    BY <1>4, <1>7, <2>1, UnmarkedConcat
  <2>3. Unmarked(a) \o <<>> = Unmarked(a)
    BY <2>2, ConcatEmptySeq DEF PieceSeqs
  <2> QED
    BY <1>8, <2>2, <2>3
<1>12. e \in Seq(P)
  BY <1>4, <1>5
<1> QED
  BY <1>1, <1>5, <1>10, <1>11, <1>12 DEF PieceSeqs

-----------------------------------------------------------------------------
(* Everything that the backend has sampled so far.                         *)
All == given \o ready

(* The types that the argument uses.                                       *)
BudgetShape ==
    /\ effective \in Budgets
    /\ given \in PieceSeqs /\ ready \in PieceSeqs /\ pub \in PieceSeqs
    /\ forced \in {<<>>, <<"f">>, ForcedText}
    /\ state \in {"DISABLED", "COUNTING", "FORCE_REQUESTED", "DONE"}
    /\ count \in Nat /\ injects \in {0, 1}
    /\ {closed, dup, tail, failed} \subseteq BOOLEAN

(* What is sampled: at most one close by the model and one injected, the   *)
(* injected one last and right behind its message.                         *)
EmissionInv ==
    /\ injects = 0 => forced = <<>> /\ \A j \in DOMAIN All : All[j] # "f"
    /\ ~closed => Closings(All) = 0
    /\ Closings(All) + Closings(forced) <= 1 + injects
    /\ \A j \in DOMAIN All : All[j] = "f" =>
         forced = <<>> /\ \A i \in DOMAIN All : i > j => ~Closes(All[i])
    /\ effective.message =>
         \A j \in DOMAIN All : All[j] = "m" =>
           \/ j = Len(All) /\ forced = <<"f">>
           \/ j < Len(All) /\ All[j + 1] = "f"

(* Nothing is injected: the caller sees what the model does.               *)
Untouched ==
    injects = 0 =>
      ~dup /\ ~tail /\ state # "FORCE_REQUESTED" /\ (~failed => pub = given)

(* Counting: reasoning is not over and below the budget.                   *)
Counting ==
    state = "COUNTING" =>
      /\ injects = 0 /\ ~failed /\ Closings(given) = 0
      /\ count = Len(pub) /\ count < effective.max

(* Injected: reasoning is not over.                                        *)
Requested ==
    state = "FORCE_REQUESTED" =>
      /\ injects = 1 /\ ~failed /\ ~dup /\ pub = given /\ Closings(given) = 0
      /\ tail => given # <<>> /\ given[Len(given)] = "m"

(* Closed with the message: by the injected close, and nothing is to come. *)
ClosedByMessage ==
    state = "DONE" /\ injects = 1 /\ ~failed /\ effective.message =>
      /\ Closings(pub) = 1 /\ Closings(given) = 1 /\ Closings(All) = 1
      /\ forced = <<>> /\ ~dup
      /\ \A i \in DOMAIN pub : Closes(pub[i]) => i > 1 /\ pub[i - 1] = "m"

(* Closed without a message: the second close is removed or is to come.    *)
ClosedSilently ==
    state = "DONE" /\ injects = 1 /\ ~failed /\ ~effective.message =>
      Closings(pub) = 1 /\ Closings(given) = IF dup THEN 1 ELSE 2

(* Failed: reasoning was never closed for the caller.                      *)
Failure == failed => state = "DONE" /\ Closings(pub) = 0

(* Once injected, the budget is done with; nothing but closes is removed.  *)
OnceInjected == injects = 1 => state \in {"FORCE_REQUESTED", "DONE"}
SameOutput == ~failed => Unmarked(pub) = Unmarked(given)

(* What the session knows of the injection.                                *)
ForcingInv ==
    /\ Untouched /\ Counting /\ Requested /\ ClosedByMessage /\ ClosedSilently
    /\ Failure /\ OnceInjected /\ SameOutput

(* The inductive invariant of the budget.                                  *)
BudgetInv == BudgetShape /\ EmissionInv /\ ForcingInv

(* What a budget is.                                                       *)
LEMMA BudgetType ==
  ASSUME effective \in Budgets
  PROVE  effective.max \in Nat /\ effective.message \in BOOLEAN /\ effective.explicit \in BOOLEAN
<1> QED
  BY BudgetAssumption

(* What an injection queues.                                               *)
LEMMA ForcedClosings ==
  /\ <<>> \in PieceSeqs /\ <<"f">> \in PieceSeqs /\ <<"m", "f">> \in PieceSeqs
  /\ ForcedText = IF effective.message THEN <<"m", "f">> ELSE <<"f">>
  /\ Closings(<<>>) = 0 /\ Closings(<<"f">>) = 1 /\ Closings(<<"m", "f">>) = 1
  /\ ForcedText # <<>>
<1>1. PICK P : P = Pieces
  OBVIOUS
<1>2. "f" \in P /\ "m" \in P /\ Closes("f") /\ ~Closes("m")
  BY <1>1 DEF Pieces, Closes
<1>3. PICK none, one, two, message :
        none = <<>> /\ one = <<"f">> /\ two = <<"m", "f">> /\ message = <<"m">>
  OBVIOUS
<1>4. /\ none \in Seq(P) /\ one \in Seq(P) /\ two \in Seq(P) /\ message \in Seq(P)
      /\ one = Append(none, "f") /\ message = Append(none, "m") /\ two = Append(message, "f")
  BY <1>2, <1>3
<1>5. Longer(one, none, "f") /\ Longer(message, none, "m") /\ Longer(two, message, "f")
  BY <1>4 DEF Longer
<1>6. Closings(none) = 0
  BY <1>3, ClosingsEmpty
<1>7. Closings(one) = 1
  <2>1. Closings(one) = Closings(none) + (IF Closes("f") THEN 1 ELSE 0)
    BY <1>2, <1>4, <1>5, ClosingsAppend
  <2> QED
    BY <1>2, <1>6, <2>1
<1>8. Closings(two) = 1
  <2>1. Closings(message) = Closings(none) + (IF Closes("m") THEN 1 ELSE 0)
    BY <1>2, <1>4, <1>5, ClosingsAppend
  <2>2. Closings(two) = Closings(message) + (IF Closes("f") THEN 1 ELSE 0)
    BY <1>2, <1>4, <1>5, ClosingsAppend
  <2> QED
    BY <1>2, <1>6, <2>1, <2>2
<1>9. ForcedText = IF effective.message THEN <<"m", "f">> ELSE <<"f">>
  BY DEF ForcedText
<1>10. one # none /\ two # none
  BY <1>3
<1> QED
  BY <1>1, <1>3, <1>4, <1>6, <1>7, <1>8, <1>9, <1>10 DEF PieceSeqs

(* What is sampled when x is the next piece.                               *)
Grown(x, n) ==
  /\ ready' \in PieceSeqs /\ All \in PieceSeqs /\ All' \in PieceSeqs /\ n \in Nat
  /\ DOMAIN All = 1..n /\ DOMAIN All' = 1..(n + 1) /\ Len(All') = n + 1
  /\ \A j \in 1..n : All'[j] = All[j]
  /\ All'[n + 1] = x

(* The close markers when x is the next piece.                             *)
Marks(x) ==
  /\ Closings(All) \in Nat
  /\ Closes(x) => Closings(All') = Closings(All) + 1
  /\ ~Closes(x) => Closings(All') = Closings(All)

(* One more piece is sampled.                                              *)
LEMMA AllAppend ==
  ASSUME BudgetShape, NEW x \in Pieces, ready' = Append(ready, x), given' = given,
         NEW n, n = Len(All)
  PROVE  Grown(x, n) /\ Marks(x)
<1>1. PICK P : P = Pieces
  OBVIOUS
<1>2. given \in Seq(P) /\ ready \in Seq(P)
  BY <1>1 DEF BudgetShape, PieceSeqs
<1>3. PICK a, b : a = All /\ b = All'
  OBVIOUS
<1>4. a \in Seq(P) /\ ready' \in Seq(P) /\ b = Append(a, x)
  BY <1>1, <1>2, <1>3 DEF All
<1>5. Longer(b, a, x)
  BY <1>4 DEF Longer
<1>6. b \in Seq(P) /\ Closings(b) = Closings(a) + (IF Closes(x) THEN 1 ELSE 0)
  BY <1>1, <1>4, <1>5, ClosingsAppend
<1>7. Closings(a) \in Nat
  BY <1>4, ClosingType
<1>8. /\ n \in Nat /\ DOMAIN a = 1..n /\ DOMAIN b = 1..(n + 1) /\ Len(b) = n + 1
      /\ \A j \in 1..n : b[j] = a[j]
      /\ b[n + 1] = x
  BY <1>1, <1>3, <1>4
<1>9. Grown(x, n)
  BY <1>1, <1>3, <1>4, <1>6, <1>8 DEF PieceSeqs, Grown
<1>10. Marks(x)
  <2>1. CASE Closes(x)
    BY <1>3, <1>6, <1>7, <2>1 DEF Marks
  <2>2. CASE ~Closes(x)
    BY <1>3, <1>6, <1>7, <2>2 DEF Marks
  <2> QED
    BY <2>1, <2>2
<1> QED
  BY <1>9, <1>10

(* The session does nothing and the backend is not done when it had to be. *)
LEMMA SessionKept ==
  ASSUME ForcingInv, UNCHANGED <<effective, state, count, dup, tail, failed, injects, given, pub>>,
         ClosedByMessage'
  PROVE  ForcingInv'
<1>1. effective' = effective /\ state' = state /\ count' = count /\ dup' = dup /\ tail' = tail
      /\ failed' = failed /\ injects' = injects /\ given' = given /\ pub' = pub
  OBVIOUS
<1>2. Untouched' /\ Counting' /\ Requested'
  BY <1>1 DEF ForcingInv, Untouched, Counting, Requested
<1>3. ClosedSilently' /\ Failure' /\ OnceInjected' /\ SameOutput'
  BY <1>1 DEF ForcingInv, ClosedSilently, Failure, OnceInjected, SameOutput
<1> QED
  BY <1>2, <1>3 DEF ForcingInv

(* The model samples a piece.                                              *)
LEMMA SampleKeeps ==
  ASSUME BudgetInv, Sample
  PROVE  BudgetInv'
<1>1. PICK x \in {"r", "c", "t"} :
        /\ ready' = Append(ready, x) /\ given' = given /\ forced' = forced
        /\ forced \in {<<>>, ForcedText}
        /\ x = "c" => ~closed /\ closed' = TRUE
        /\ x # "c" => closed' = closed
        /\ UNCHANGED <<effective, state, count, dup, tail, failed, injects, pub>>
  BY DEF Sample, budget, BudgetInv, BudgetShape
<1>2. /\ x \in Pieces /\ (Closes(x) <=> x = "c")
      /\ Closes("f") /\ x # "f" /\ x # "m"
  BY DEF Pieces, Closes
<1>3. BudgetShape
  BY DEF BudgetInv
<1>4. PICK n : n = Len(All)
  OBVIOUS
<1>g. Grown(x, n) /\ Marks(x)
  BY <1>1, <1>2, <1>3, <1>4, AllAppend
<1>5. /\ ready' \in PieceSeqs /\ All \in PieceSeqs /\ All' \in PieceSeqs /\ n \in Nat
      /\ DOMAIN All = 1..n /\ DOMAIN All' = 1..(n + 1) /\ Len(All') = n + 1
      /\ \A j \in 1..n : All'[j] = All[j]
      /\ All'[n + 1] = x
  BY <1>g DEF Grown
<1>m. /\ Closings(All) \in Nat
      /\ x = "c" => Closings(All') = Closings(All) + 1
      /\ x # "c" => Closings(All') = Closings(All)
  BY <1>2, <1>g DEF Marks
<1>6. BudgetShape'
  <2>1. ForcedText' = ForcedText
    BY <1>1 DEF ForcedText
  <2>2. closed' \in BOOLEAN
    BY <1>1, <1>3 DEF BudgetShape
  <2> QED
    BY <1>1, <1>3, <1>5, <2>1, <2>2 DEF BudgetShape
<1>7. /\ injects = 0 => forced = <<>> /\ \A j \in 1..n : All[j] # "f"
      /\ ~closed => Closings(All) = 0
      /\ Closings(All) + Closings(forced) <= 1 + injects
      /\ \A j \in 1..n : All[j] = "f" =>
           forced = <<>> /\ \A i \in 1..n : i > j => ~Closes(All[i])
      /\ effective.message =>
           \A j \in 1..n : All[j] = "m" =>
             \/ j = n /\ forced = <<"f">>
             \/ j < n /\ All[j + 1] = "f"
  BY <1>4, <1>5 DEF BudgetInv, EmissionInv
<1>8. \A j \in 1..(n + 1) : j \in 1..n \/ j = n + 1
  BY <1>5
<1>9. ~closed => \A j \in 1..n : All[j] # "f"
  <2> SUFFICES ASSUME ~closed, NEW j \in 1..n, All[j] = "f" PROVE FALSE
    OBVIOUS
  <2>1. Closings(All) = 0
    BY <1>7
  <2>2. CloseMarks(All) = {}
    BY <1>5, <2>1, ClosingType DEF PieceSeqs
  <2>3. j \in CloseMarks(All)
    BY <1>2, <1>5 DEF CloseMarks, ClosesIn
  <2> QED
    BY <2>2, <2>3
<1>10. Closings(forced) <= injects /\ Closings(forced) \in Nat /\ injects \in {0, 1}
  <2>1. CASE injects = 0
    BY <1>7, <2>1, ForcedClosings
  <2>2. CASE injects = 1
    <3>1. Closings(forced) \in {0, 1}
      BY <1>3, ForcedClosings DEF BudgetShape
    <3> QED
      BY <2>2, <3>1
  <2> QED
    BY <1>3, <2>1, <2>2 DEF BudgetShape
<1>11. injects' = 0 => forced' = <<>> /\ \A j \in DOMAIN All' : All'[j] # "f"
  BY <1>1, <1>2, <1>5, <1>7, <1>8
<1>12. ~closed' => Closings(All') = 0
  BY <1>1, <1>m, <1>7
<1>13. Closings(All') + Closings(forced') <= 1 + injects'
  <2>1. CASE x = "c"
    <3>1. Closings(All) = 0
      BY <1>1, <1>7, <2>1
    <3> QED
      BY <1>1, <1>m, <1>10, <2>1, <3>1
  <2>2. CASE x # "c"
    BY <1>1, <1>m, <1>7, <2>2
  <2> QED
    BY <2>1, <2>2
<1>14. \A j \in DOMAIN All' : All'[j] = "f" =>
         forced' = <<>> /\ \A i \in DOMAIN All' : i > j => ~Closes(All'[i])
  <2> SUFFICES ASSUME NEW j \in 1..(n + 1), All'[j] = "f"
               PROVE  forced' = <<>> /\ \A i \in 1..(n + 1) : i > j => ~Closes(All'[i])
    BY <1>5
  <2>1. j \in 1..n /\ All[j] = "f"
    BY <1>2, <1>5, <1>8
  <2>2. x # "c"
    BY <1>1, <1>9, <2>1
  <2>3. \A i \in 1..n : i > j => ~Closes(All'[i])
    BY <1>5, <1>7, <2>1
  <2>4. ~Closes(All'[n + 1])
    BY <1>2, <1>5, <2>2
  <2>5. forced' = <<>>
    BY <1>1, <1>7, <2>1
  <2> QED
    BY <1>8, <2>3, <2>4, <2>5
<1>15. effective'.message =>
         \A j \in DOMAIN All' : All'[j] = "m" =>
           \/ j = Len(All') /\ forced' = <<"f">>
           \/ j < Len(All') /\ All'[j + 1] = "f"
  <2> SUFFICES ASSUME effective.message, NEW j \in 1..(n + 1), All'[j] = "m"
               PROVE  j < n + 1 /\ All'[j + 1] = "f"
    BY <1>1, <1>5
  <2>1. j \in 1..n /\ All[j] = "m"
    BY <1>2, <1>5, <1>8
  <2>2. forced # <<"f">>
    BY <1>1, ForcedClosings
  <2>3. j < n /\ All[j + 1] = "f"
    BY <1>7, <2>1, <2>2
  <2>4. j + 1 \in 1..n
    BY <1>5, <2>1, <2>3
  <2> QED
    BY <1>5, <2>3, <2>4
<1>16. EmissionInv'
  BY <1>11, <1>12, <1>13, <1>14, <1>15 DEF EmissionInv
<1>17. ClosedByMessage'
  <2> SUFFICES ASSUME state' = "DONE", injects' = 1, ~failed', effective'.message
               PROVE  /\ Closings(pub') = 1 /\ Closings(given') = 1 /\ Closings(All') = 1
                      /\ forced' = <<>> /\ ~dup'
                      /\ \A i \in DOMAIN pub' : Closes(pub'[i]) => i > 1 /\ pub'[i - 1] = "m"
    BY DEF ClosedByMessage
  <2>1. /\ Closings(pub) = 1 /\ Closings(given) = 1 /\ Closings(All) = 1
        /\ forced = <<>> /\ ~dup
        /\ \A i \in DOMAIN pub : Closes(pub[i]) => i > 1 /\ pub[i - 1] = "m"
    BY <1>1 DEF BudgetInv, ForcingInv, ClosedByMessage
  <2>2. x # "c"
    BY <1>1, <1>7, <2>1
  <2> QED
    BY <1>1, <1>m, <2>1, <2>2
<1>18. ForcingInv'
  BY <1>1, <1>17, SessionKept DEF BudgetInv
<1> QED
  BY <1>6, <1>16, <1>18 DEF BudgetInv

(* The backend emits a piece of what was injected.                         *)
LEMMA EmitKeeps ==
  ASSUME BudgetInv, EmitForced
  PROVE  BudgetInv'
<1>1. PICK x : x = Head(forced)
  OBVIOUS
<1>2. /\ ready' = Append(ready, x) /\ given' = given /\ forced' = Tail(forced) /\ forced # <<>>
      /\ closed' = (closed \/ x = "f")
      /\ UNCHANGED <<effective, state, count, dup, tail, failed, injects, pub>>
  BY <1>1 DEF EmitForced, budget
<1>3. BudgetShape
  BY DEF BudgetInv
<1>4. \/ forced = <<"f">> /\ x = "f" /\ forced' = <<>>
      \/ forced = <<"m", "f">> /\ x = "m" /\ forced' = <<"f">>
  <2>1. forced = <<"f">> \/ forced = <<"m", "f">>
    BY <1>2, <1>3, ForcedClosings DEF BudgetShape
  <2>2. Head(<<"f">>) = "f" /\ Tail(<<"f">>) = <<>>
    OBVIOUS
  <2>3. Head(<<"m", "f">>) = "m" /\ Tail(<<"m", "f">>) = <<"f">>
    OBVIOUS
  <2> QED
    BY <1>1, <1>2, <2>1, <2>2, <2>3
<1>5. /\ x \in Pieces /\ (Closes(x) <=> x = "f")
      /\ x = "m" \/ x = "f"
  BY <1>4 DEF Pieces, Closes
<1>6. PICK n : n = Len(All)
  OBVIOUS
<1>g. Grown(x, n) /\ Marks(x)
  BY <1>2, <1>3, <1>5, <1>6, AllAppend
<1>7. /\ ready' \in PieceSeqs /\ All \in PieceSeqs /\ All' \in PieceSeqs /\ n \in Nat
      /\ DOMAIN All = 1..n /\ DOMAIN All' = 1..(n + 1) /\ Len(All') = n + 1
      /\ \A j \in 1..n : All'[j] = All[j]
      /\ All'[n + 1] = x
  BY <1>g DEF Grown
<1>m. /\ Closings(All) \in Nat
      /\ x = "f" => Closings(All') = Closings(All) + 1
      /\ x # "f" => Closings(All') = Closings(All)
  BY <1>5, <1>g DEF Marks
<1>8. BudgetShape'
  <2>1. ForcedText' = ForcedText
    BY <1>2 DEF ForcedText
  <2>2. closed' \in BOOLEAN
    BY <1>2, <1>3 DEF BudgetShape
  <2>3. forced' \in {<<>>, <<"f">>}
    BY <1>4
  <2> QED
    BY <1>2, <1>3, <1>7, <2>1, <2>2, <2>3 DEF BudgetShape
<1>9. /\ injects = 0 => forced = <<>> /\ \A j \in 1..n : All[j] # "f"
      /\ ~closed => Closings(All) = 0
      /\ Closings(All) + Closings(forced) <= 1 + injects
      /\ \A j \in 1..n : All[j] = "f" =>
           forced = <<>> /\ \A i \in 1..n : i > j => ~Closes(All[i])
      /\ effective.message =>
           \A j \in 1..n : All[j] = "m" =>
             \/ j = n /\ forced = <<"f">>
             \/ j < n /\ All[j + 1] = "f"
  BY <1>6, <1>7 DEF BudgetInv, EmissionInv
<1>10. \A j \in 1..(n + 1) : j \in 1..n \/ j = n + 1
  BY <1>7
<1>11. injects' = 1 /\ injects = 1
  BY <1>2, <1>3, <1>9 DEF BudgetShape
<1>12. ~closed' => Closings(All') = 0
  <2> SUFFICES ASSUME ~closed' PROVE Closings(All') = 0
    OBVIOUS
  <2>1. ~closed /\ x # "f"
    BY <1>2
  <2> QED
    BY <1>m, <1>9, <2>1
<1>13. Closings(All') + Closings(forced') <= 1 + injects'
  <2>1. CASE x = "f"
    <3>1. Closings(forced) = 1 /\ Closings(forced') = 0
      BY <1>4, <2>1, ForcedClosings
    <3> QED
      BY <1>m, <1>9, <1>11, <2>1, <3>1
  <2>2. CASE x = "m"
    <3>1. Closings(forced) = 1 /\ Closings(forced') = 1
      BY <1>4, <2>2, ForcedClosings
    <3> QED
      BY <1>m, <1>9, <1>11, <2>2, <3>1
  <2> QED
    BY <1>5, <2>1, <2>2
<1>14. \A j \in DOMAIN All' : All'[j] = "f" =>
         forced' = <<>> /\ \A i \in DOMAIN All' : i > j => ~Closes(All'[i])
  <2> SUFFICES ASSUME NEW j \in 1..(n + 1), All'[j] = "f"
               PROVE  forced' = <<>> /\ \A i \in 1..(n + 1) : ~(i > j)
    BY <1>7
  <2>1. j = n + 1 /\ x = "f"
    BY <1>2, <1>7, <1>9, <1>10
  <2>2. \A i \in 1..(n + 1) : ~(i > j)
    BY <1>7, <2>1
  <2> QED
    BY <1>4, <2>1, <2>2
<1>15. effective'.message =>
         \A j \in DOMAIN All' : All'[j] = "m" =>
           \/ j = Len(All') /\ forced' = <<"f">>
           \/ j < Len(All') /\ All'[j + 1] = "f"
  <2> SUFFICES ASSUME effective.message, NEW j \in 1..(n + 1), All'[j] = "m"
               PROVE  \/ j = n + 1 /\ forced' = <<"f">>
                      \/ j < n + 1 /\ All'[j + 1] = "f"
    BY <1>2, <1>7
  <2>1. CASE j = n + 1
    BY <1>4, <1>7, <2>1
  <2>2. CASE j \in 1..n
    <3>1. All[j] = "m"
      BY <1>7, <2>2
    <3>2. CASE j = n /\ forced = <<"f">>
      <4>1. x = "f"
        BY <1>4, <3>2
      <4> QED
        BY <1>7, <3>2, <4>1
    <3>3. CASE j < n /\ All[j + 1] = "f"
      <4>1. j + 1 \in 1..n
        BY <1>7, <2>2, <3>3
      <4> QED
        BY <1>7, <3>3, <4>1
    <3> QED
      BY <1>9, <2>2, <3>1, <3>2, <3>3
  <2> QED
    BY <1>10, <2>1, <2>2
<1>16. EmissionInv'
  BY <1>11, <1>12, <1>13, <1>14, <1>15 DEF EmissionInv
<1>17. ClosedByMessage'
  BY <1>2 DEF BudgetInv, ForcingInv, ClosedByMessage
<1>18. ForcingInv'
  BY <1>2, <1>17, SessionKept DEF BudgetInv
<1> QED
  BY <1>8, <1>16, <1>18 DEF BudgetInv

(* The generation ends.                                                    *)
LEMMA FinishKeeps ==
  ASSUME BudgetInv,
         UNCHANGED <<effective, closed, ready, forced, state, count, dup, tail, failed, injects, given, pub>>
  PROVE  BudgetInv'
<1>1. ForcedText' = ForcedText
  BY DEF ForcedText
<1>2. All' = All
  BY DEF All
<1>3. BudgetShape'
  BY <1>1 DEF BudgetInv, BudgetShape
<1>4. EmissionInv'
  BY <1>2 DEF BudgetInv, EmissionInv
<1>5. ClosedByMessage'
  BY <1>2 DEF BudgetInv, ForcingInv, ClosedByMessage
<1>6. ForcingInv'
  BY <1>5, SessionKept DEF BudgetInv
<1> QED
  BY <1>3, <1>4, <1>6 DEF BudgetInv

-----------------------------------------------------------------------------
(* Deliveries.                                                             *)

(* d is read from what is ready.                                           *)
Read(d) ==
  /\ d \in PieceSeqs /\ d # <<>> /\ given' \in PieceSeqs /\ ready' \in PieceSeqs
  /\ given' = given \o d /\ All' = All
  /\ Closings(d) \in Nat /\ Closings(given) \in Nat /\ Closings(ready') \in Nat
  /\ Closings(given') = Closings(given) + Closings(d)
  /\ Closings(All) = Closings(given) + Closings(d) + Closings(ready')
  /\ Unmarked(given') = Unmarked(given) \o Unmarked(d)

(* Output is joined in any grouping.                                       *)
LEMMA JoinedThree ==
  ASSUME NEW a \in PieceSeqs, NEW b \in PieceSeqs, NEW c \in PieceSeqs
  PROVE  a \o b \in PieceSeqs /\ (a \o b) \o c = a \o (b \o c)
<1>1. PICK P : P = Pieces
  OBVIOUS
<1>2. a \in Seq(P) /\ b \in Seq(P) /\ c \in Seq(P)
  BY <1>1 DEF PieceSeqs
<1>3. a \o b \in Seq(P) /\ (a \o b) \o c = a \o (b \o c)
  BY <1>2, ConcatAssociative
<1> QED
  BY <1>1, <1>3 DEF PieceSeqs

(* What is ready is a delta and its rest.                                  *)
LEMMA CutInTwo ==
  ASSUME NEW s \in PieceSeqs, NEW k \in 1..Len(s)
  PROVE  /\ SubSeq(s, 1, k) \in PieceSeqs /\ SubSeq(s, 1, k) # <<>>
         /\ SubSeq(s, k + 1, Len(s)) \in PieceSeqs
         /\ SubSeq(s, 1, k) \o SubSeq(s, k + 1, Len(s)) = s
<1>1. PICK P : P = Pieces
  OBVIOUS
<1>2. s \in Seq(P)
  BY <1>1 DEF PieceSeqs
<1>3. PICK n \in Nat : n = Len(s)
  BY <1>2
<1>4. k \in 1..n
  BY <1>3
<1>5. SubSeq(s, 1, k) \in Seq(P) /\ Len(SubSeq(s, 1, k)) = k
  BY <1>2, <1>3, <1>4
<1>6. SubSeq(s, k + 1, Len(s)) \in Seq(P) /\ SubSeq(s, 1, Len(s)) = s
  BY <1>2, <1>3, <1>4
<1>7. SubSeq(s, 1, k) # <<>>
  <2>1. k # 0
    BY <1>3, <1>4
  <2>2. Len(<<>>) = 0
    OBVIOUS
  <2> QED
    BY <1>5, <2>1, <2>2, Zenon
<1>8. SubSeq(s, 1, k) \o SubSeq(s, k + 1, Len(s)) = SubSeq(s, 1, Len(s))
  <2>1. 1 \in 1..(Len(s) + 1) /\ k \in (1 - 1)..Len(s) /\ Len(s) \in k..Len(s)
    BY <1>3, <1>4
  <2> QED
    BY <1>2, <2>1, ConcatAdjacentSubSeq
<1> QED
  BY <1>1, <1>5, <1>6, <1>7, <1>8 DEF PieceSeqs

(* A delivery reads the beginning of what is ready.                        *)
LEMMA ReadHolds ==
  ASSUME BudgetShape, NEW k \in 1..Len(ready), NEW d, d = SubSeq(ready, 1, k),
         ready' = SubSeq(ready, k + 1, Len(ready)), given' = given \o d
  PROVE  Read(d)
<1>1. PICK P : P = Pieces
  OBVIOUS
<1>2. PICK s, g, r, w : s = ready /\ g = given /\ r = ready' /\ w = given'
  OBVIOUS
<1>3. s \in PieceSeqs /\ g \in PieceSeqs
  BY <1>2 DEF BudgetShape
<1>4. d \in PieceSeqs /\ r \in PieceSeqs /\ d # <<>> /\ d \o r = s
  <2>1. /\ SubSeq(s, 1, k) \in PieceSeqs /\ SubSeq(s, 1, k) # <<>>
        /\ SubSeq(s, k + 1, Len(s)) \in PieceSeqs
        /\ SubSeq(s, 1, k) \o SubSeq(s, k + 1, Len(s)) = s
    BY <1>2, <1>3, CutInTwo
  <2> QED
    BY <1>2, <2>1
<1>5. w = g \o d /\ w \in PieceSeqs /\ w \o r = g \o s
  <2>1. g \o d \in PieceSeqs /\ (g \o d) \o r = g \o (d \o r)
    BY <1>3, <1>4, JoinedThree
  <2> QED
    BY <1>2, <1>4, <2>1
<1>6. /\ g \in Seq(P) /\ s \in Seq(P) /\ d \in Seq(P) /\ r \in Seq(P)
  BY <1>1, <1>3, <1>4 DEF PieceSeqs
<1>7. All = g \o s /\ All' = w \o r
  BY <1>2 DEF All
<1>8. Closings(w) = Closings(g) + Closings(d)
  BY <1>5, <1>6, ClosingsConcat
<1>9. Closings(s) = Closings(d) + Closings(r)
  BY <1>4, <1>6, ClosingsConcat
<1>10. Closings(g \o s) = Closings(g) + Closings(s)
  BY <1>6, ClosingsConcat
<1>11. Closings(d) \in Nat /\ Closings(g) \in Nat /\ Closings(r) \in Nat
  BY <1>6, ClosingType
<1>12. Unmarked(w) = Unmarked(g) \o Unmarked(d)
  BY <1>3, <1>4, <1>5, UnmarkedConcat
<1>13. Closings(All) = Closings(g) + Closings(d) + Closings(r)
  BY <1>7, <1>9, <1>10, <1>11
<1>14. given' = given \o d /\ All' = All
  BY <1>2, <1>5, <1>7
<1> QED
  BY <1>2, <1>4, <1>5, <1>8, <1>11, <1>12, <1>13, <1>14 DEF Read

(* What the stripping leaves of d.                                         *)
LEMMA NothingStripped ==
  ASSUME NEW d, state # "FORCE_REQUESTED" \/ Closings(d) = 0 \/ Closings(d) = 1,
         ~dup \/ CloseMarks(d) = {}
  PROVE  Prepare(d) = [d |-> d, used |-> FALSE, dup |-> dup]
<1>1. Cardinality(ClosesIn(d)) = Closings(d)
  BY DEF Closings, CloseMarks
<1>2. ~(state = "FORCE_REQUESTED" /\ Cardinality(ClosesIn(d)) >= 2)
  BY <1>1
<1>3. ~(dup /\ ClosesIn(d) # {})
  BY DEF CloseMarks
<1> QED
  BY <1>2, <1>3 DEF Prepare

(* A delta with two closes loses the second.                               *)
LEMMA SecondStripped ==
  ASSUME NEW d, state = "FORCE_REQUESTED", Closings(d) \in Nat, Closings(d) >= 2
  PROVE  Prepare(d) =
           [d |-> Without(d, Nth(d, 2)), used |-> TRUE, dup |-> dup]
<1>1. Cardinality(ClosesIn(d)) = Closings(d)
  BY DEF Closings, CloseMarks
<1> QED
  BY <1>1 DEF Prepare

(* A later delta loses its first close.                                    *)
LEMMA LateStripped ==
  ASSUME NEW d, state # "FORCE_REQUESTED", dup, CloseMarks(d) # {}
  PROVE  Prepare(d) =
           [d |-> Without(d, Nth(d, 1)), used |-> FALSE, dup |-> FALSE]
<1>1. ClosesIn(d) # {}
  BY DEF CloseMarks
<1> QED
  BY <1>1 DEF Prepare

(* More output for the caller.                                             *)
LEMMA Published ==
  ASSUME BudgetShape, NEW e \in PieceSeqs, pub' = pub \o e
  PROVE  /\ pub' \in PieceSeqs
         /\ Closings(pub') = Closings(pub) + Closings(e)
         /\ Closings(pub) \in Nat /\ Closings(e) \in Nat
         /\ Unmarked(pub') = Unmarked(pub) \o Unmarked(e)
<1>1. PICK P : P = Pieces
  OBVIOUS
<1>2. PICK g, w : g = pub /\ w = pub'
  OBVIOUS
<1>3. g \in Seq(P) /\ e \in Seq(P) /\ w = g \o e /\ w \in Seq(P)
  BY <1>1, <1>2 DEF BudgetShape, PieceSeqs
<1>4. Closings(w) = Closings(g) + Closings(e)
  BY <1>3, ClosingsConcat
<1>5. Closings(g) \in Nat /\ Closings(e) \in Nat
  BY <1>3, ClosingType
<1>6. Unmarked(w) = Unmarked(g) \o Unmarked(e)
  BY <1>1, <1>3, UnmarkedConcat DEF PieceSeqs
<1> QED
  BY <1>1, <1>2, <1>3, <1>4, <1>5, <1>6 DEF PieceSeqs

(* What is sampled does not change by being read, nor by an injection when *)
(* there was none.                                                         *)
LEMMA EmissionKept ==
  ASSUME EmissionInv, All' = All, UNCHANGED <<effective, closed, forced, injects>>
  PROVE  EmissionInv'
<1>1. effective' = effective /\ closed' = closed /\ forced' = forced /\ injects' = injects
  OBVIOUS
<1> QED
  BY <1>1 DEF EmissionInv

(* The injection itself changes only what is still to be emitted.          *)
LEMMA EmissionInjected ==
  ASSUME BudgetShape, EmissionInv, All' = All, UNCHANGED <<effective, closed>>,
         injects = 0, injects' = 1, forced' = ForcedText
  PROVE  EmissionInv'
<1>1. effective' = effective /\ closed' = closed
  OBVIOUS
<1>2. /\ forced = <<>> /\ \A j \in DOMAIN All : All[j] # "f"
      /\ ~closed => Closings(All) = 0
      /\ Closings(All) + Closings(forced) <= 1 + injects
      /\ effective.message =>
           \A j \in DOMAIN All : All[j] = "m" =>
             \/ j = Len(All) /\ forced = <<"f">>
             \/ j < Len(All) /\ All[j + 1] = "f"
  BY DEF EmissionInv
<1>3. Closings(forced) = 0 /\ Closings(forced') = 1 /\ <<"f">> # <<>>
  BY <1>2, ForcedClosings
<1>4. Closings(All) \in Nat
  <2>1. PICK P, g, r : P = Pieces /\ g = given /\ r = ready
    OBVIOUS
  <2>2. g \in Seq(P) /\ r \in Seq(P)
    BY <2>1 DEF BudgetShape, PieceSeqs
  <2>3. g \o r \in Seq(P)
    BY <2>2
  <2> QED
    BY <2>1, <2>3, ClosingType DEF All
<1>5. Closings(All') + Closings(forced') <= 1 + injects'
  BY <1>2, <1>3, <1>4
<1> QED
  BY <1>1, <1>2, <1>3, <1>5 DEF EmissionInv

(* Nothing was injected, now or before, and counting is over.              *)
LEMMA UntouchedNow ==
  ASSUME injects' = 0, ~dup', ~tail', state' \in {"DONE", "DISABLED"},
         failed' => state' = "DONE" /\ Closings(pub') = 0,
         ~failed' => pub' = given'
  PROVE  ForcingInv'
<1>1. Untouched' /\ Counting' /\ Requested' /\ Failure' /\ OnceInjected'
  BY DEF Untouched, Counting, Requested, Failure, OnceInjected
<1>2. ClosedByMessage' /\ ClosedSilently' /\ SameOutput'
  BY DEF ClosedByMessage, ClosedSilently, SameOutput
<1> QED
  BY <1>1, <1>2 DEF ForcingInv

(* Every close of q stands right behind the message.                       *)
AfterMessage(q) == \A i \in DOMAIN q : Closes(q[i]) => i > 1 /\ q[i - 1] = "m"

(* It still does with more output that has no close.                       *)
LEMMA AfterMessageKept ==
  ASSUME NEW q \in PieceSeqs, NEW e \in PieceSeqs, Closings(e) = 0, AfterMessage(q), NEW w, w = q \o e
  PROVE  AfterMessage(w)
<1>1. PICK P : P = Pieces
  OBVIOUS
<1>2. q \in Seq(P) /\ e \in Seq(P)
  BY <1>1 DEF PieceSeqs
<1>3. PICK m \in Nat : m = Len(q)
  BY <1>2
<1>4. PICK n \in Nat : n = Len(e)
  BY <1>2
<1>5. /\ DOMAIN w = 1..(m + n) /\ DOMAIN q = 1..m
      /\ \A i \in 1..m : w[i] = q[i]
      /\ \A i \in 1..n : w[m + i] = e[i]
      /\ \A i \in 1..(m + n) : i \in 1..m \/ (i - m \in 1..n /\ m + (i - m) = i)
  <2>1. DOMAIN q = 1..m
    BY <1>2, <1>3
  <2> QED
    BY <1>2, <1>3, <1>4, <2>1, ConcatParts
<1>6. \A i \in 1..n : ~Closes(e[i])
  <2>1. CloseMarks(e) = {}
    BY <1>2, ClosingType
  <2> QED
    BY <1>2, <1>4, <2>1, ClosingType
<1> SUFFICES ASSUME NEW i \in 1..(m + n), Closes(w[i]) PROVE i > 1 /\ w[i - 1] = "m"
  BY <1>5 DEF AfterMessage
<1>7. i \in 1..m
  <2> SUFFICES ASSUME i \notin 1..m PROVE FALSE
    OBVIOUS
  <2>1. i - m \in 1..n /\ w[m + (i - m)] = w[i]
    BY <1>5
  <2>2. w[i] = e[i - m]
    BY <1>5, <2>1
  <2> QED
    BY <1>6, <2>1, <2>2
<1>8. i > 1 /\ q[i - 1] = "m"
  BY <1>5, <1>7 DEF AfterMessage
<1>9. i - 1 \in 1..m
  BY <1>3, <1>7, <1>8
<1> QED
  BY <1>5, <1>8, <1>9

(* A delivery when the budget is given up or done with: the close that is  *)
(* still to come is taken away.                                            *)
LEMMA IdleKeeps ==
  ASSUME BudgetInv, ~failed, NEW d, Read(d), state \in {"DISABLED", "DONE"},
         pub' = pub \o Prepare(d).d, dup' = Prepare(d).dup,
         UNCHANGED <<effective, closed, state, count, tail, failed, forced, injects>>
  PROVE  BudgetInv'
<1>1. /\ effective' = effective /\ closed' = closed /\ state' = state /\ count' = count
      /\ tail' = tail /\ failed' = failed /\ forced' = forced /\ injects' = injects
  OBVIOUS
<1>2. BudgetShape /\ EmissionInv /\ ForcingInv
  BY DEF BudgetInv
<1>3. /\ d \in PieceSeqs /\ given' \in PieceSeqs /\ ready' \in PieceSeqs
      /\ given' = given \o d /\ All' = All
      /\ Closings(d) \in Nat /\ Closings(given) \in Nat /\ Closings(ready') \in Nat
      /\ Closings(given') = Closings(given) + Closings(d)
      /\ Closings(All) = Closings(given) + Closings(d) + Closings(ready')
      /\ Unmarked(given') = Unmarked(given) \o Unmarked(d)
  BY DEF Read
<1>4. EmissionInv'
  BY <1>2, <1>3, EmissionKept
<1>5. PICK P : P = Pieces
  OBVIOUS
<1>6. d \in Seq(P) /\ (Closings(d) = 0 <=> CloseMarks(d) = {})
  BY <1>3, <1>5, ClosingType DEF PieceSeqs
<1>7. Closings(All) <= 1 + injects
  <2>1. Closings(forced) \in Nat
    BY <1>2, ForcedClosings DEF BudgetShape
  <2>2. Closings(All) \in Nat
    BY <1>3
  <2> QED
    BY <1>2, <2>1, <2>2 DEF EmissionInv, BudgetShape
<1>8. Unmarked(pub) = Unmarked(given)
  BY <1>2 DEF ForcingInv, SameOutput
<1>9. ForcedText' = ForcedText
  BY <1>1 DEF ForcedText
<1>10. CASE ~dup \/ CloseMarks(d) = {}
  <2>1. pub' = pub \o d /\ dup' = dup
    <3>1. Prepare(d) = [d |-> d, used |-> FALSE, dup |-> dup]
      BY <1>10, NothingStripped
    <3> QED
      BY <3>1
  <2>2. /\ pub' \in PieceSeqs
        /\ Closings(pub') = Closings(pub) + Closings(d)
        /\ Closings(pub) \in Nat /\ Closings(d) \in Nat
        /\ Unmarked(pub') = Unmarked(pub) \o Unmarked(d)
    BY <1>2, <1>3, <2>1, Published
  <2>3. BudgetShape'
    BY <1>1, <1>2, <1>3, <1>9, <2>1, <2>2 DEF BudgetShape
  <2>4. CASE injects = 0
    <3>1. ~dup /\ ~tail /\ pub = given
      BY <1>2, <2>4 DEF ForcingInv, Untouched
    <3>2. ForcingInv'
      BY <1>1, <1>3, <2>1, <2>4, <3>1, UntouchedNow
    <3> QED
      BY <1>4, <2>3, <3>2 DEF BudgetInv
  <2>5. CASE injects = 1
    <3>1. state = "DONE"
      BY <1>2, <2>5 DEF ForcingInv, OnceInjected
    <3>2. Untouched' /\ Counting' /\ Requested' /\ Failure' /\ OnceInjected'
      BY <1>1, <2>5, <3>1 DEF Untouched, Counting, Requested, Failure, OnceInjected
    <3>3. SameOutput'
      BY <1>3, <1>8, <2>2 DEF SameOutput
    <3>4. ClosedByMessage'
      <4> SUFFICES ASSUME effective.message
                   PROVE  /\ Closings(pub') = 1 /\ Closings(given') = 1 /\ Closings(All') = 1
                          /\ forced' = <<>> /\ ~dup' /\ AfterMessage(pub')
        BY <1>1 DEF ClosedByMessage, AfterMessage
      <4>1. /\ Closings(pub) = 1 /\ Closings(given) = 1 /\ Closings(All) = 1
            /\ forced = <<>> /\ ~dup /\ AfterMessage(pub)
        BY <1>2, <2>5, <3>1 DEF ForcingInv, ClosedByMessage, AfterMessage
      <4>2. Closings(d) = 0
        BY <1>3, <4>1
      <4>3. AfterMessage(pub')
        BY <1>2, <1>3, <2>1, <4>1, <4>2, AfterMessageKept DEF BudgetShape
      <4> QED
        BY <1>1, <1>3, <2>1, <2>2, <4>1, <4>2, <4>3
    <3>5. ClosedSilently'
      <4> SUFFICES ASSUME ~effective.message
                   PROVE  Closings(pub') = 1 /\ Closings(given') = IF dup' THEN 1 ELSE 2
        BY <1>1 DEF ClosedSilently
      <4>1. Closings(pub) = 1 /\ Closings(given) = IF dup THEN 1 ELSE 2
        BY <1>2, <2>5, <3>1 DEF ForcingInv, ClosedSilently
      <4>2. Closings(d) = 0
        <5>1. CASE dup
          BY <1>6, <1>10, <5>1
        <5>2. CASE ~dup
          <6>1. Closings(given) = 2
            BY <4>1, <5>2
          <6> QED
            BY <1>3, <1>7, <2>5, <6>1
        <5> QED
          BY <5>1, <5>2
      <4>3. Closings(pub') = 1 /\ Closings(given') = Closings(given)
        BY <1>3, <2>2, <4>1, <4>2
      <4> QED
        BY <2>1, <4>1, <4>3
    <3>6. ForcingInv'
      BY <3>2, <3>3, <3>4, <3>5 DEF ForcingInv
    <3> QED
      BY <1>4, <2>3, <3>6 DEF BudgetInv
  <2> QED
    BY <1>2, <2>4, <2>5 DEF BudgetShape
<1>11. CASE dup /\ CloseMarks(d) # {}
  <2>1. injects = 1
    BY <1>2, <1>11 DEF ForcingInv, Untouched, BudgetShape
  <2>2. state = "DONE"
    BY <1>2, <2>1 DEF ForcingInv, OnceInjected
  <2>3. ~effective.message
    BY <1>2, <1>11, <2>1, <2>2 DEF ForcingInv, ClosedByMessage
  <2>4. Closings(pub) = 1 /\ Closings(given) = 1
    BY <1>2, <1>11, <2>1, <2>2, <2>3 DEF ForcingInv, ClosedSilently
  <2>5. Closings(d) = 1
    BY <1>3, <1>6, <1>7, <1>11, <2>1, <2>4
  <2>6. PICK i : i = Nth(d, 1)
    OBVIOUS
  <2>7. PICK e : e = Without(d, i)
    OBVIOUS
  <2>8. First(d, i)
    BY <1>6, <1>11, <2>6, FirstFound
  <2>9. i \in 1..Len(d) /\ Closes(d[i])
    BY <1>6, <2>8 DEF First
  <2>10. e \in PieceSeqs /\ Closings(d) = Closings(e) + 1 /\ Unmarked(e) = Unmarked(d)
    BY <1>3, <2>7, <2>9, CloseRemoved
  <2>11. pub' = pub \o e /\ dup' = FALSE
    <3>1. Prepare(d) = [d |-> e, used |-> FALSE, dup |-> FALSE]
      BY <1>11, <2>2, <2>6, <2>7, LateStripped
    <3> QED
      BY <3>1
  <2>12. /\ pub' \in PieceSeqs
         /\ Closings(pub') = Closings(pub) + Closings(e)
         /\ Closings(pub) \in Nat /\ Closings(e) \in Nat
         /\ Unmarked(pub') = Unmarked(pub) \o Unmarked(e)
    BY <1>2, <2>10, <2>11, Published
  <2>13. BudgetShape'
    BY <1>1, <1>2, <1>3, <1>9, <2>11, <2>12 DEF BudgetShape
  <2>14. Closings(pub') = 1 /\ Closings(given') = 2
    BY <1>3, <2>4, <2>5, <2>10, <2>12
  <2>15. Untouched' /\ Counting' /\ Requested' /\ Failure' /\ OnceInjected'
    BY <1>1, <2>1, <2>2 DEF Untouched, Counting, Requested, Failure, OnceInjected
  <2>16. SameOutput'
    BY <1>3, <1>8, <2>10, <2>12 DEF SameOutput
  <2>17. ClosedByMessage' /\ ClosedSilently'
    BY <1>1, <2>3, <2>11, <2>14 DEF ClosedByMessage, ClosedSilently
  <2>18. ForcingInv'
    BY <2>15, <2>16, <2>17 DEF ForcingInv
  <2> QED
    BY <1>4, <2>13, <2>18 DEF BudgetInv
<1> QED
  BY <1>10, <1>11

(* A delivery while the budget counts.                                     *)
LEMMA CountingKeeps ==
  ASSUME BudgetInv, ~failed, NEW d, Read(d), state = "COUNTING",
         NEW ids \in BOOLEAN, Apply(Prepare(d), ids),
         UNCHANGED <<effective, closed>>
  PROVE  BudgetInv'
<1>1. BudgetShape /\ EmissionInv /\ ForcingInv /\ effective' = effective /\ closed' = closed
  BY DEF BudgetInv
<1>2. /\ d \in PieceSeqs /\ given' \in PieceSeqs /\ ready' \in PieceSeqs
      /\ given' = given \o d /\ All' = All
      /\ Closings(d) \in Nat /\ Closings(given) \in Nat /\ Closings(ready') \in Nat
      /\ Closings(given') = Closings(given) + Closings(d)
  BY DEF Read
<1>3. /\ injects = 0 /\ Closings(given) = 0 /\ count = Len(pub) /\ count < effective.max
  BY <1>1 DEF ForcingInv, Counting
<1>4. ~dup /\ ~tail /\ pub = given
  BY <1>1, <1>3 DEF ForcingInv, Untouched
<1>5. Prepare(d) = [d |-> d, used |-> FALSE, dup |-> dup]
  BY <1>4, NothingStripped
<1>6. PICK p : p = [d |-> d, used |-> FALSE, dup |-> dup]
  OBVIOUS
<1>7. Apply(p, ids) /\ p.d = d /\ p.used = FALSE /\ p.dup = dup
  BY <1>5, <1>6
<1>8. PICK P : P = Pieces
  OBVIOUS
<1>9. pub \in Seq(P) /\ d \in Seq(P) /\ (Closings(d) = 0 <=> CloseMarks(d) = {})
      /\ CloseMarks(pub) = {}
  <2>1. pub \in Seq(P) /\ d \in Seq(P)
    BY <1>1, <1>2, <1>8 DEF PieceSeqs, BudgetShape
  <2> QED
    BY <1>3, <1>4, <2>1, ClosingType
<1>10. EndsReasoning(d) <=> CloseMarks(d) # {}
  BY <1>9 DEF EndsReasoning, CloseMarks
<1>11. ForcedText' = ForcedText
  BY <1>1 DEF ForcedText
<1>12. (pub' = pub \o d) =>
         /\ pub' \in PieceSeqs /\ pub' = given' /\ Len(pub') = Len(pub) + Len(d)
  <2> SUFFICES ASSUME pub' = pub \o d
               PROVE  pub' \in PieceSeqs /\ Len(pub') = Len(pub) + Len(d)
    BY <1>2, <1>4
  <2>1. PICK w, g : w = pub \o d /\ g = pub
    OBVIOUS
  <2>2. w \in Seq(P) /\ Len(w) = Len(g) + Len(d)
    BY <1>9, <2>1
  <2> QED
    BY <1>8, <2>1, <2>2 DEF PieceSeqs
<1>13. Len(d) \in Nat /\ count \in Nat /\ effective.max \in Nat
  BY <1>1, <1>9, BudgetType DEF BudgetShape
<1>14. CASE CloseMarks(d) # {}
  <2>1. /\ state' = "DONE" /\ pub' = pub \o d /\ dup' = dup /\ tail' = FALSE
        /\ count' = count /\ failed' = failed /\ forced' = forced /\ injects' = injects
    BY <1>7, <1>10, <1>14 DEF Apply, Publish
  <2>2. BudgetShape'
    BY <1>1, <1>2, <1>11, <1>12, <2>1 DEF BudgetShape
  <2>3. EmissionInv'
    BY <1>1, <1>2, <2>1, EmissionKept
  <2>4. ForcingInv'
    BY <1>3, <1>4, <1>12, <2>1, UntouchedNow
  <2> QED
    BY <2>2, <2>3, <2>4 DEF BudgetInv
<1>15. CASE CloseMarks(d) = {}
  <2>1. /\ dup' = dup /\ tail' = tail
        /\ IF ids THEN Counts(d)
           ELSE IF effective.explicit THEN BudgetFails
           ELSE /\ state' = "DISABLED" /\ pub' = pub \o d
                /\ UNCHANGED <<forced, injects, count, failed>>
    BY <1>7, <1>10, <1>15 DEF Apply, Publish
  <2>2. Closings(given') = 0 /\ Closings(pub) = 0
    BY <1>2, <1>3, <1>4, <1>9, <1>15
  <2>3. CASE ids
    <3>1. /\ count' = count + Len(d)
          /\ pub' = IF failed' THEN pub ELSE pub \o d
          /\ IF count' >= effective.max THEN ForceReasoningClose
             ELSE UNCHANGED <<state, forced, injects, failed>>
      BY <2>1, <2>3 DEF Counts
    <3>2. count' \in Nat
      BY <1>13, <3>1
    <3>3. CASE ~(count' >= effective.max)
      <4>1. /\ state' = state /\ forced' = forced /\ injects' = injects /\ failed' = failed
            /\ pub' = pub \o d
        BY <3>1, <3>3
      <4>2. BudgetShape'
        BY <1>1, <1>2, <1>11, <1>12, <2>1, <3>2, <4>1 DEF BudgetShape
      <4>3. EmissionInv'
        BY <1>1, <1>2, <4>1, EmissionKept
      <4>4. count' = Len(pub') /\ count' < effective.max
        BY <1>3, <1>12, <1>13, <3>1, <3>3, <4>1
      <4>5. Counting' /\ Untouched' /\ Requested'
        BY <1>1, <1>3, <1>4, <1>12, <2>1, <2>2, <4>1, <4>4 DEF Counting, Untouched, Requested
      <4>6. ClosedByMessage' /\ ClosedSilently' /\ Failure' /\ OnceInjected' /\ SameOutput'
        <5>1. ~failed' /\ state' = "COUNTING" /\ pub' = given' /\ injects' = 0
          BY <1>3, <1>12, <4>1
        <5>2. ClosedByMessage' /\ ClosedSilently'
          BY <5>1 DEF ClosedByMessage, ClosedSilently
        <5>3. Failure' /\ OnceInjected' /\ SameOutput'
          BY <5>1 DEF Failure, OnceInjected, SameOutput
        <5> QED
          BY <5>2, <5>3
      <4>7. ForcingInv'
        BY <4>5, <4>6 DEF ForcingInv
      <4> QED
        BY <4>2, <4>3, <4>7 DEF BudgetInv
    <3>4. ASSUME Injected PROVE BudgetInv'
      <4>1. /\ forced' = ForcedText /\ injects' = 1 /\ state' = "FORCE_REQUESTED"
            /\ failed' = failed /\ pub' = pub \o d
        BY <1>3, <3>1, <3>4 DEF Injected
      <4>2. BudgetShape'
        BY <1>1, <1>2, <1>11, <1>12, <2>1, <3>2, <4>1 DEF BudgetShape
      <4>3. EmissionInv'
        BY <1>1, <1>2, <1>3, <4>1, EmissionInjected
      <4>4. Counting' /\ Untouched' /\ Requested'
        BY <1>4, <1>12, <2>1, <2>2, <4>1 DEF Counting, Untouched, Requested
      <4>5. ~failed' /\ state' = "FORCE_REQUESTED" /\ pub' = given'
        BY <1>12, <4>1
      <4>6. ClosedByMessage' /\ ClosedSilently'
        BY <4>5 DEF ClosedByMessage, ClosedSilently
      <4>7. Failure' /\ OnceInjected' /\ SameOutput'
        BY <4>5 DEF Failure, OnceInjected, SameOutput
      <4>8. ForcingInv'
        BY <4>4, <4>6, <4>7 DEF ForcingInv
      <4> QED
        BY <4>2, <4>3, <4>8 DEF BudgetInv
    <3>5. ASSUME InjectionTerminating \/ InjectionFails PROVE BudgetInv'
      <4>1. /\ forced' = forced /\ injects' = injects
            /\ \/ state' = "DONE" /\ failed' = failed
               \/ state' = "DONE" /\ failed' = TRUE
               \/ state' = "DISABLED" /\ failed' = failed
        BY <3>5 DEF InjectionTerminating, InjectionFails
      <4>2. /\ failed' \in BOOLEAN
            /\ failed' => state' = "DONE" /\ pub' = pub
            /\ ~failed' => pub' = pub \o d
        <5>1. CASE failed' = TRUE
          BY <3>1, <4>1, <5>1
        <5>2. CASE failed' = FALSE
          BY <3>1, <5>2
        <5>3. failed \in BOOLEAN
          BY <1>1 DEF BudgetShape
        <5>4. failed' = TRUE \/ failed' = FALSE
          BY <4>1, <5>3
        <5> QED
          BY <5>1, <5>2, <5>4
      <4>3. state' \in {"DONE", "DISABLED"}
        BY <4>1
      <4>4. pub' \in PieceSeqs /\ (failed' => Closings(pub') = 0) /\ (~failed' => pub' = given')
        BY <1>1, <1>12, <2>2, <4>2 DEF BudgetShape
      <4>5. BudgetShape'
        BY <1>1, <1>2, <1>11, <2>1, <3>2, <4>1, <4>2, <4>3, <4>4 DEF BudgetShape
      <4>6. EmissionInv'
        BY <1>1, <1>2, <4>1, EmissionKept
      <4>7. ForcingInv'
        BY <1>3, <1>4, <2>1, <4>1, <4>2, <4>3, <4>4, UntouchedNow
      <4> QED
        BY <4>5, <4>6, <4>7 DEF BudgetInv
    <3>6. CASE count' >= effective.max
      <4>1. ForceReasoningClose
        BY <3>1, <3>6
      <4>2. Injected \/ InjectionTerminating \/ InjectionFails
        BY <4>1, Zenon DEF ForceReasoningClose
      <4> QED
        BY <3>4, <3>5, <4>2
    <3> QED
      BY <3>3, <3>6
  <2>4. CASE ~ids
    <3>1. /\ forced' = forced /\ injects' = injects /\ count' = count
          /\ \/ state' = "DONE" /\ failed' = TRUE /\ pub' = pub
             \/ state' = "DISABLED" /\ failed' = failed /\ pub' = pub \o d
      BY <2>1, <2>4 DEF BudgetFails
    <3>2. /\ failed' \in BOOLEAN /\ state' \in {"DONE", "DISABLED"} /\ pub' \in PieceSeqs
          /\ (failed' => state' = "DONE" /\ Closings(pub') = 0) /\ (~failed' => pub' = given')
      <4>1. CASE state' = "DONE" /\ failed' = TRUE /\ pub' = pub
        BY <1>1, <2>2, <4>1 DEF BudgetShape
      <4>2. CASE state' = "DISABLED" /\ failed' = failed /\ pub' = pub \o d
        <5>1. ~failed' /\ failed' \in BOOLEAN
          BY <1>1, <4>2 DEF BudgetShape
        <5> QED
          BY <1>12, <4>2, <5>1
      <4> QED
        BY <3>1, <4>1, <4>2
    <3>3. BudgetShape'
      BY <1>1, <1>2, <1>11, <2>1, <3>1, <3>2 DEF BudgetShape
    <3>4. EmissionInv'
      BY <1>1, <1>2, <3>1, EmissionKept
    <3>5. ForcingInv'
      BY <1>3, <1>4, <2>1, <3>1, <3>2, UntouchedNow
    <3> QED
      BY <3>3, <3>4, <3>5 DEF BudgetInv
  <2> QED
    BY <2>3, <2>4
<1> QED
  BY <1>14, <1>15

(* Reasoning that ends with the message before the close: the close is the *)
(* injected one, nothing was taken away, and no other close is to come.    *)
LEMMA MessageCloses ==
  ASSUME BudgetInv, NEW d, Read(d), state = "FORCE_REQUESTED", effective.message,
         CloseMarks(d) # {}, NEW e, NEW i2, i2 = Nth(d, 2),
         \/ Closings(d) = 1 /\ e = d
         \/ Closings(d) = 2 /\ e = Without(d, i2),
         TailAfter(e)
  PROVE  e = d /\ Closings(d) = 1 /\ Closings(All) = 1 /\ forced = <<>> /\ AfterMessage(given')
<1>1. BudgetShape /\ EmissionInv
  BY DEF BudgetInv
<1>2. /\ d \in PieceSeqs /\ given' \in PieceSeqs /\ ready' \in PieceSeqs
      /\ given' = given \o d /\ All' = All /\ given \in PieceSeqs
  BY <1>1 DEF Read, BudgetShape
<1>3. /\ pub = given /\ Closings(given) = 0
      /\ tail => given # <<>> /\ given[Len(given)] = "m"
  BY DEF BudgetInv, ForcingInv, Requested
<1>4. PICK P : P = Pieces
  OBVIOUS
<1>5. PICK w, r, g : w = given' /\ r = ready' /\ g = given
  OBVIOUS
<1>6. d \in Seq(P) /\ w \in Seq(P) /\ r \in Seq(P) /\ g \in Seq(P)
  BY <1>2, <1>4, <1>5 DEF PieceSeqs
<1>7. PICK m \in Nat : m = Len(g)
  BY <1>6
<1>8. PICK n \in Nat : n = Len(d)
  BY <1>6
<1>9. PICK o \in Nat : o = Len(r)
  BY <1>6
<1>10. PICK i1 : i1 = Nth(d, 1)
  OBVIOUS
<1>11. First(d, i1) /\ i1 \in 1..n
  <2>1. First(d, i1)
    BY <1>6, <1>10, FirstFound
  <2> QED
    BY <1>6, <1>8, <2>1 DEF First
<1>12. ASSUME Closings(d) = 2
       PROVE  i2 \in 1..n /\ i1 < i2 /\ Closes(d[i2])
  <2>1. i2 \in 1..n /\ Closes(d[i2]) /\ Closings(Upto(d, i2)) = 2
    BY <1>6, <1>8, <1>12, NthFound
  <2>2. PICK h : h = i2 - 1
    OBVIOUS
  <2>3. h \in 0..n
    BY <1>8, <2>1, <2>2
  <2>4. PICK u : u = Upto(d, h)
    OBVIOUS
  <2>5. /\ u \in Seq(P) /\ Len(u) = h /\ Closings(u) \in Nat
        /\ \A j \in 1..h : u[j] = d[j] /\ j \in 1..n
    BY <1>6, <1>8, <2>3, <2>4, UptoType
  <2>6. Closings(u) = 1
    <3>1. Closings(Upto(d, i2)) = Closings(Upto(d, i2 - 1)) + 1
      BY <1>6, <1>8, <2>1, UptoNext
    <3> QED
      BY <2>1, <2>2, <2>4, <2>5, <3>1
  <2>7. CloseMarks(u) # {}
    BY <2>5, <2>6, ClosingType
  <2>8. PICK j : j \in 1..h /\ Closes(u[j])
    BY <2>5, <2>7, ClosingType
  <2>9. Closes(d[j]) /\ j \in 1..n /\ j < i2
    BY <1>8, <2>1, <2>2, <2>5, <2>8
  <2>10. ~(j < i1)
    BY <1>6, <1>8, <1>11, <2>9 DEF First
  <2> QED
    BY <1>8, <1>11, <2>1, <2>9, <2>10
<1>13. e \in Seq(P) /\ First(e, i1) /\ \A j \in 1..i1 : e[j] = d[j]
  <2>1. CASE Closings(d) = 1 /\ e = d
    BY <1>6, <1>11, <2>1
  <2>2. CASE Closings(d) = 2 /\ e = Without(d, i2)
    <3>1. i2 \in 1..Len(d) /\ i1 < i2 /\ Closes(d[i2])
      BY <1>8, <1>12, <2>2
    <3>2. e \in PieceSeqs /\ \A j \in 1..(i2 - 1) : j \in 1..Len(e) /\ e[j] = d[j]
      <4>1. d \in PieceSeqs /\ i2 \in 1..Len(d) /\ Closes(d[i2])
        BY <1>2, <3>1
      <4>2. e = Without(d, i2)
        BY <2>2
      <4> QED
        BY <4>1, <4>2, CloseRemoved
    <3>3. e \in Seq(P)
      BY <1>4, <3>2 DEF PieceSeqs
    <3>4. \A j \in 1..i1 : j \in 1..(i2 - 1)
      BY <1>8, <1>11, <3>1
    <3>5. DOMAIN e = 1..Len(e) /\ Len(e) \in Nat /\ DOMAIN d = 1..n
      BY <1>6, <1>8, <3>3
    <3>6. i1 \in DOMAIN e /\ Closes(e[i1])
      <4>1. i1 \in 1..i1
        BY <1>11
      <4> QED
        BY <1>11, <3>2, <3>4, <3>5, <4>1 DEF First
    <3>7. ASSUME NEW j \in DOMAIN e, j < i1 PROVE ~Closes(e[j])
      <4>1. j \in 1..i1 /\ j \in 1..n
        BY <1>8, <1>11, <3>5, <3>7
      <4> QED
        BY <1>11, <3>2, <3>4, <3>5, <3>7, <4>1 DEF First
    <3> QED
      BY <3>2, <3>3, <3>4, <3>6, <3>7 DEF First
  <2> QED
    BY <2>1, <2>2
<1>14. Nth(e, 1) = i1
  <2>1. CloseMarks(e) # {}
    BY <1>13, ClosingType DEF First, CloseMarks, ClosesIn
  <2>2. PICK i : i = Nth(e, 1)
    OBVIOUS
  <2>3. First(e, i)
    BY <1>13, <2>1, <2>2, FirstFound
  <2> QED
    BY <1>13, <2>2, <2>3, FirstUnique
<1>15. ReasoningPart(e) = SubSeq(e, 1, i1 - 1)
  <2>1. CloseMarks(pub) = {}
    BY <1>3, <1>5, <1>6, ClosingType
  <2>2. CloseMarks(e) # {}
    BY <1>13, ClosingType DEF First, CloseMarks, ClosesIn
  <2> QED
    BY <1>14, <2>1, <2>2 DEF ReasoningPart, CloseMarks
<1>16. PICK q : q = SubSeq(e, 1, i1 - 1)
  OBVIOUS
<1>17. IF q = <<>> THEN tail ELSE Last(q) = "m"
  BY <1>15, <1>16 DEF TailAfter
<1>18. PICK N \in Nat : N = Len(e)
  BY <1>13
<1>19. i1 \in 1..N
  BY <1>13, <1>18 DEF First
<1>20. /\ DOMAIN w = 1..(m + n) /\ w \in Seq(P) /\ Len(w) = m + n
       /\ \A j \in 1..m : w[j] = g[j] /\ j \in 1..(m + n)
       /\ \A j \in 1..n : w[m + j] = d[j] /\ m + j \in 1..(m + n)
       /\ \A j \in 1..(m + n) : j \in 1..m \/ (j - m \in 1..n /\ m + (j - m) = j)
  BY <1>2, <1>5, <1>6, <1>7, <1>8, ConcatParts
<1>21. m + i1 - 1 \in 1..(m + n) /\ w[m + i1 - 1] = "m"
  <2>1. CASE i1 = 1
    <3>1. q = <<>>
      BY <1>13, <1>16, <2>1
    <3>2. given # <<>> /\ given[Len(given)] = "m"
      BY <1>3, <1>17, <3>1
    <3>3. m # 0 /\ g[m] = "m"
      BY <1>5, <1>6, <1>7, <3>2
    <3>4. m \in 1..m /\ m + i1 - 1 = m
      BY <1>7, <2>1, <3>3
    <3> QED
      BY <1>20, <3>3, <3>4
  <2>2. CASE i1 # 1
    <3>1. PICK h \in 1..N : h = i1 - 1
      BY <1>18, <1>19, <2>2
    <3>2. q = SubSeq(e, 1, h) /\ h \in 1..i1 /\ h \in 1..n
      BY <1>8, <1>11, <1>16, <3>1
    <3>3. q \in Seq(P) /\ Len(q) = h /\ q[h] = e[h]
      BY <1>13, <1>18, <3>1, <3>2
    <3>4. q # <<>>
      <4>1. Len(<<>>) = 0 /\ h # 0
        BY <1>18, <3>1
      <4> QED
        BY <3>3, <4>1, Zenon
    <3>5. Last(q) = "m"
      BY <1>17, <3>4
    <3>6. q[h] = "m"
      BY <3>3, <3>5 DEF Last
    <3>7. d[h] = "m"
      BY <1>13, <3>2, <3>3, <3>6
    <3>8. m + h = m + i1 - 1
      BY <1>7, <1>11, <1>8, <3>1
    <3> QED
      BY <1>20, <3>2, <3>7, <3>8
  <2> QED
    BY <2>1, <2>2
<1>22. PICK a : a = All
  OBVIOUS
<1>23. /\ DOMAIN a = 1..(m + n + o) /\ Len(a) = m + n + o /\ a \in Seq(P)
       /\ \A j \in 1..(m + n) : a[j] = w[j] /\ j \in 1..(m + n + o)
  <2>1. a = w \o r
    BY <1>2, <1>5, <1>22 DEF All
  <2>2. PICK l \in Nat : l = m + n
    BY <1>7, <1>8
  <2>3. /\ a \in Seq(P) /\ Len(a) = l + o /\ DOMAIN a = 1..(l + o)
        /\ \A j \in 1..l : a[j] = w[j] /\ j \in 1..(l + o)
    <3>1. w \in Seq(P) /\ r \in Seq(P) /\ l = Len(w) /\ o = Len(r)
      BY <1>6, <1>9, <1>20, <2>2
    <3> QED
      BY <2>1, <3>1, ConcatParts
  <2> QED
    BY <2>2, <2>3
<1>24. /\ \A j \in DOMAIN a : a[j] = "f" =>
            forced = <<>> /\ \A i \in DOMAIN a : i > j => ~Closes(a[i])
       /\ \A j \in DOMAIN a : a[j] = "m" =>
            \/ j = Len(a) /\ forced = <<"f">>
            \/ j < Len(a) /\ a[j + 1] = "f"
  BY <1>1, <1>22 DEF EmissionInv
<1>25. PICK c \in Nat : c = m + i1
  BY <1>7, <1>8, <1>11
<1>26. c \in 1..(m + n) /\ c - 1 \in 1..(m + n) /\ c \in DOMAIN a /\ c - 1 \in DOMAIN a
       /\ c > 1 /\ w[c - 1] = "m" /\ w[c] = d[i1]
  <2>1. c \in 1..(m + n) /\ w[c] = d[i1]
    BY <1>11, <1>20, <1>25
  <2>2. c - 1 \in 1..(m + n) /\ w[c - 1] = "m"
    <3>1. c - 1 = m + i1 - 1
      BY <1>7, <1>8, <1>11, <1>25
    <3> QED
      BY <1>21, <3>1
  <2>3. c > 1
    BY <1>25, <2>2
  <2> QED
    BY <1>23, <2>1, <2>2, <2>3
<1>27. a[c] = "f" /\ forced = <<>> /\ \A j \in DOMAIN a : j > c => ~Closes(a[j])
  <2>1. a[c - 1] = "m"
    BY <1>23, <1>26
  <2>2. c - 1 # Len(a) /\ (c - 1) + 1 = c
    BY <1>23, <1>25, <1>26, <1>7, <1>8, <1>9
  <2>3. a[c] = "f"
    BY <1>24, <1>26, <2>1, <2>2
  <2> QED
    BY <1>24, <1>26, <2>3
<1>28. \A j \in DOMAIN a : j < c => ~Closes(a[j])
  <2> SUFFICES ASSUME NEW j \in DOMAIN a, j < c PROVE ~Closes(a[j])
    OBVIOUS
  <2>1. j \in 1..(m + n) /\ a[j] = w[j]
    BY <1>23, <1>25, <1>26, <1>7, <1>8, <1>9
  <2>2. CASE j \in 1..m
    <3>1. CloseMarks(g) = {}
      BY <1>3, <1>5, <1>6, ClosingType
    <3>2. ~Closes(g[j])
      BY <1>6, <1>7, <2>2, <3>1, ClosingType
    <3> QED
      BY <1>20, <2>1, <2>2, <3>2
  <2>3. CASE j - m \in 1..n /\ m + (j - m) = j
    <3>1. w[j] = d[j - m]
      BY <1>20, <2>3
    <3>2. j - m < i1
      BY <1>7, <1>8, <1>11, <1>25, <2>1
    <3>3. ~Closes(d[j - m])
      <4>1. DOMAIN d = 1..n
        BY <1>6, <1>8
      <4> QED
        BY <1>11, <2>3, <3>2, <4>1 DEF First
    <3> QED
      BY <2>1, <3>1, <3>3
  <2> QED
    BY <1>20, <2>1, <2>2, <2>3
<1>29. Closings(d) # 2
  <2> SUFFICES ASSUME Closings(d) = 2 PROVE FALSE
    OBVIOUS
  <2>1. i2 \in 1..n /\ i1 < i2 /\ Closes(d[i2])
    BY <1>12
  <2>2. PICK l \in Nat : l = m + i2
    BY <1>7, <1>8, <2>1
  <2>3. l \in 1..(m + n) /\ w[l] = d[i2]
    BY <1>20, <2>1, <2>2
  <2>4. l > c
    BY <1>7, <1>8, <1>11, <1>25, <2>1, <2>2
  <2>5. l \in DOMAIN a /\ a[l] = d[i2]
    BY <1>23, <2>3
  <2> QED
    BY <1>27, <2>1, <2>4, <2>5
<1>30. Closings(All) = 1
  <2>1. \A j : j \in CloseMarks(a) <=> j \in {c}
    <3>1. \A j : j \in CloseMarks(a) <=> j \in DOMAIN a /\ Closes(a[j])
      BY DEF CloseMarks, ClosesIn
    <3>2. Closes(a[c])
      BY <1>27 DEF Closes
    <3>3. \A j \in DOMAIN a : j < c \/ j = c \/ j > c
      BY <1>23, <1>25, <1>7, <1>8, <1>9
    <3> QED
      BY <1>26, <1>27, <1>28, <3>1, <3>2, <3>3
  <2>2. CloseMarks(a) = {c}
    BY <2>1
  <2> QED
    BY <1>22, <2>2, FS_Singleton DEF Closings
<1>31. AfterMessage(given')
  <2> SUFFICES ASSUME NEW j \in DOMAIN w, Closes(w[j]) PROVE j > 1 /\ w[j - 1] = "m"
    BY <1>5 DEF AfterMessage
  <2>1. j \in DOMAIN a /\ a[j] = w[j]
    BY <1>20, <1>23
  <2>2. j = c
    <3>1. ~(j < c) /\ ~(j > c)
      BY <1>27, <1>28, <2>1
    <3> QED
      BY <1>20, <1>25, <1>7, <1>8, <3>1
  <2> QED
    BY <1>26, <2>2
<1> QED
  BY <1>27, <1>29, <1>30, <1>31

(* What the stripping leaves of a delta after an injection: at most one    *)
(* close, the first one, and all other output.                             *)
Prepared(p, d, e) ==
  /\ p.d = e /\ p.dup = dup /\ p.used \in BOOLEAN
  /\ e \in PieceSeqs /\ Unmarked(e) = Unmarked(d)
  /\ \/ Closings(d) \in {0, 1} /\ e = d /\ ~p.used
     \/ Closings(d) = 2 /\ e = Without(d, Nth(d, 2)) /\ p.used
  /\ Closings(e) = IF Closings(d) = 0 THEN 0 ELSE 1

(* After an injection every delta is stripped to such output.              *)
LEMMA RequestedPrepared ==
  ASSUME BudgetInv, NEW d, Read(d), state = "FORCE_REQUESTED"
  PROVE  \E e : Prepared(Prepare(d), d, e)
<1>1. BudgetShape /\ EmissionInv
  BY DEF BudgetInv
<1>2. injects = 1 /\ ~dup /\ Closings(given) = 0
  BY DEF BudgetInv, ForcingInv, Requested
<1>3. /\ d \in PieceSeqs /\ Closings(d) \in Nat /\ Closings(ready') \in Nat
      /\ Closings(All) = Closings(given) + Closings(d) + Closings(ready')
  BY DEF Read
<1>4. Closings(d) \in {0, 1, 2}
  <2>1. Closings(forced) \in Nat
    BY <1>1, ForcedClosings DEF BudgetShape
  <2>2. Closings(All) + Closings(forced) <= 2
    BY <1>1, <1>2 DEF EmissionInv
  <2> QED
    BY <1>2, <1>3, <2>1, <2>2
<1>5. CASE Closings(d) \in {0, 1}
  <2>1. Prepare(d) = [d |-> d, used |-> FALSE, dup |-> dup]
    BY <1>2, <1>5, NothingStripped
  <2>2. PICK p : p = [d |-> d, used |-> FALSE, dup |-> dup]
    OBVIOUS
  <2>3. p.d = d /\ p.used = FALSE /\ p.dup = dup
    BY <2>2
  <2>4. Prepared(p, d, d)
    BY <1>3, <1>5, <2>3 DEF Prepared
  <2> QED
    BY <2>1, <2>2, <2>4
<1>6. CASE Closings(d) = 2
  <2>1. PICK i, e : i = Nth(d, 2) /\ e = Without(d, i)
    OBVIOUS
  <2>2. Prepare(d) = [d |-> e, used |-> TRUE, dup |-> dup]
    BY <1>3, <1>6, <2>1, SecondStripped
  <2>3. PICK P : P = Pieces
    OBVIOUS
  <2>4. d \in Seq(P)
    BY <1>3, <2>3 DEF PieceSeqs
  <2>5. i \in 1..Len(d) /\ Closes(d[i])
    BY <1>6, <2>1, <2>4, NthFound
  <2>6. e \in PieceSeqs /\ Closings(d) = Closings(e) + 1 /\ Unmarked(e) = Unmarked(d)
    BY <1>3, <2>1, <2>5, CloseRemoved
  <2>7. Closings(e) = 1
    <3>1. Closings(e) \in Nat
      BY <2>3, <2>6, ClosingType DEF PieceSeqs
    <3> QED
      BY <1>6, <2>6, <3>1
  <2>8. PICK p : p = [d |-> e, used |-> TRUE, dup |-> dup]
    OBVIOUS
  <2>9. p.d = e /\ p.used = TRUE /\ p.dup = dup
    BY <2>8
  <2>10. Prepared(p, d, e)
    <3>1. e = Without(d, Nth(d, 2))
      BY <2>1
    <3>2. p.d = e /\ p.dup = dup /\ p.used \in BOOLEAN /\ p.used
      BY <2>9
    <3>3. Closings(e) = IF Closings(d) = 0 THEN 0 ELSE 1
      BY <1>6, <2>7
    <3> QED
      BY <1>6, <2>6, <3>1, <3>2, <3>3, Zenon DEF Prepared
  <2> QED
    BY <2>2, <2>8, <2>10
<1> QED
  BY <1>4, <1>5, <1>6

(* The last piece tells whether reasoning ends with the message.           *)
LEMMA TailRead ==
  ASSUME NEW P, NEW g \in Seq(P), NEW d \in Seq(P), d # <<>>, NEW w, w = g \o d, d[Len(d)] = "m"
  PROVE  w # <<>> /\ w[Len(w)] = "m"
<1>1. PICK m \in Nat : m = Len(g)
  OBVIOUS
<1>2. PICK n \in Nat : n = Len(d)
  OBVIOUS
<1>3. n # 0
  BY <1>2
<1>4. w \in Seq(P) /\ Len(w) = m + n /\ w[m + n] = d[n]
  BY <1>1, <1>2, <1>3
<1>5. Len(<<>>) = 0
  OBVIOUS
<1>6. m + n # 0
  BY <1>1, <1>2, <1>3
<1>7. w # <<>>
  BY <1>4, <1>5, <1>6, Zenon
<1> QED
  BY <1>2, <1>4, <1>7

(* After an injection, reasoning goes on.                                  *)
LEMMA ReasoningGoesOn ==
  ASSUME BudgetInv, NEW d, Read(d), state = "FORCE_REQUESTED", Closings(d) = 0,
         tail' = TailAfter(d), pub' = pub \o d, dup' = dup,
         UNCHANGED <<effective, closed, state, count, failed, forced, injects>>
  PROVE  BudgetInv'
<1>1. BudgetShape /\ EmissionInv /\ ForcingInv
  BY DEF BudgetInv
<1>2. /\ effective' = effective /\ closed' = closed /\ state' = state /\ count' = count
      /\ failed' = failed /\ forced' = forced /\ injects' = injects
  OBVIOUS
<1>3. /\ d \in PieceSeqs /\ d # <<>> /\ given' \in PieceSeqs /\ ready' \in PieceSeqs
      /\ given' = given \o d /\ All' = All
      /\ Closings(given') = Closings(given) + Closings(d)
  BY DEF Read
<1>4. injects = 1 /\ ~failed /\ ~dup /\ pub = given /\ Closings(given) = 0
  BY <1>1 DEF ForcingInv, Requested
<1>5. PICK P, g, w : P = Pieces /\ g = given /\ w = given'
  OBVIOUS
<1>6. g \in Seq(P) /\ d \in Seq(P) /\ w = g \o d
  BY <1>1, <1>3, <1>5 DEF BudgetShape, PieceSeqs
<1>7. TailAfter(d) = (d[Len(d)] = "m")
  <2>1. CloseMarks(g) = {} /\ CloseMarks(d) = {}
    BY <1>4, <1>5, <1>6, ClosingType
  <2>2. ReasoningPart(d) = d
    BY <1>4, <1>5, <2>1 DEF ReasoningPart, CloseMarks
  <2>3. TailAfter(d) = (Last(d) = "m")
    BY <1>3, <2>2, Zenon DEF TailAfter
  <2> QED
    BY <2>3 DEF Last
<1>8. tail' \in BOOLEAN
  BY <1>7
<1>9. tail' => w # <<>> /\ w[Len(w)] = "m"
  <2> SUFFICES ASSUME d[Len(d)] = "m" PROVE w # <<>> /\ w[Len(w)] = "m"
    BY <1>7
  <2> QED
    BY <1>3, <1>6, TailRead
<1>10. ForcedText' = ForcedText
  BY <1>2 DEF ForcedText
<1>11. pub' = given' /\ pub' \in PieceSeqs
  BY <1>3, <1>4
<1>12. BudgetShape'
  BY <1>1, <1>2, <1>3, <1>8, <1>10, <1>11 DEF BudgetShape
<1>13. EmissionInv'
  BY <1>1, <1>2, <1>3, EmissionKept
<1>14. Closings(given') = 0
  BY <1>3, <1>4
<1>15. Requested'
  BY <1>2, <1>4, <1>5, <1>9, <1>11, <1>14 DEF Requested
<1>16. state' = "FORCE_REQUESTED" /\ ~failed' /\ injects' = 1
  BY <1>2, <1>4
<1>17. Untouched' /\ Counting' /\ OnceInjected' /\ Failure'
  BY <1>16 DEF Untouched, Counting, OnceInjected, Failure
<1>18. ClosedByMessage' /\ ClosedSilently'
  BY <1>16 DEF ClosedByMessage, ClosedSilently
<1>19. SameOutput'
  BY <1>11 DEF SameOutput
<1>20. ForcingInv'
  BY <1>15, <1>17, <1>18, <1>19 DEF ForcingInv
<1> QED
  BY <1>12, <1>13, <1>20 DEF BudgetInv

(* After an injection, reasoning ends: by the injected close or by the     *)
(* close of the model.                                                     *)
LEMMA ReasoningEnds ==
  ASSUME BudgetInv, NEW d, Read(d), state = "FORCE_REQUESTED",
         NEW p, NEW e, Prepared(p, d, e), Closings(d) # 0,
         ForcedClose(p), UNCHANGED <<effective, closed>>
  PROVE  BudgetInv'
<1>1. BudgetShape /\ EmissionInv /\ ForcingInv /\ effective' = effective /\ closed' = closed
  BY DEF BudgetInv
<1>2. /\ d \in PieceSeqs /\ given' \in PieceSeqs /\ ready' \in PieceSeqs
      /\ given' = given \o d /\ All' = All
      /\ Closings(given') = Closings(given) + Closings(d)
      /\ Unmarked(given') = Unmarked(given) \o Unmarked(d)
  BY DEF Read
<1>3. injects = 1 /\ ~failed /\ ~dup /\ pub = given /\ Closings(given) = 0
  BY <1>1 DEF ForcingInv, Requested
<1>4. /\ p.d = e /\ p.dup = dup /\ p.used \in BOOLEAN
      /\ e \in PieceSeqs /\ Unmarked(e) = Unmarked(d)
      /\ \/ Closings(d) = 1 /\ e = d /\ ~p.used
         \/ Closings(d) = 2 /\ e = Without(d, Nth(d, 2)) /\ p.used
      /\ Closings(e) = 1
  BY DEF Prepared
<1>5. effective.message \in BOOLEAN
  BY <1>1, BudgetType DEF BudgetShape
<1>6. ForcedText' = ForcedText
  BY <1>1 DEF ForcedText
<1>7. TailAfter(e) \in BOOLEAN
  BY <1>1, Zenon DEF TailAfter, BudgetShape
<1>8. CASE effective.message /\ ~TailAfter(e)
  <2>1. /\ state' = "DONE" /\ failed' = TRUE /\ forced' = forced /\ injects' = injects
        /\ count' = count /\ pub' = pub /\ dup' = dup /\ tail' = TailAfter(e)
    BY <1>4, <1>8 DEF ForcedClose, BudgetFails
  <2>2. BudgetShape'
    BY <1>1, <1>2, <1>6, <1>7, <2>1 DEF BudgetShape
  <2>3. EmissionInv'
    BY <1>1, <1>2, <2>1, EmissionKept
  <2>4. Closings(pub') = 0
    BY <1>3, <2>1
  <2>5. injects' = 1 /\ state' = "DONE" /\ failed' = TRUE
    BY <1>3, <2>1
  <2>6. Untouched' /\ Counting' /\ Requested'
    BY <2>5 DEF Untouched, Counting, Requested
  <2>7. ClosedByMessage' /\ ClosedSilently' /\ SameOutput'
    BY <2>5 DEF ClosedByMessage, ClosedSilently, SameOutput
  <2>8. Failure' /\ OnceInjected'
    BY <2>4, <2>5 DEF Failure, OnceInjected
  <2>9. ForcingInv'
    BY <2>6, <2>7, <2>8 DEF ForcingInv
  <2> QED
    BY <2>2, <2>3, <2>9 DEF BudgetInv
<1>9. CASE ~(effective.message /\ ~TailAfter(e))
  <2>1. /\ dup' = (~effective.message /\ ~p.used) /\ state' = "DONE" /\ tail' = FALSE
        /\ pub' = pub \o e
        /\ forced' = forced /\ injects' = injects /\ count' = count /\ failed' = failed
    BY <1>4, <1>9 DEF ForcedClose, Publish
  <2>2. /\ pub' \in PieceSeqs
        /\ Closings(pub') = Closings(pub) + Closings(e)
        /\ Unmarked(pub') = Unmarked(pub) \o Unmarked(e)
    BY <1>1, <1>4, <2>1, Published
  <2>3. dup' \in BOOLEAN
    BY <1>4, <1>5, <2>1
  <2>4. BudgetShape'
    BY <1>1, <1>2, <1>6, <2>1, <2>2, <2>3 DEF BudgetShape
  <2>5. EmissionInv'
    BY <1>1, <1>2, <2>1, EmissionKept
  <2>6. Closings(pub') = 1
    BY <1>3, <1>4, <2>2
  <2>7. injects' = 1 /\ state' = "DONE" /\ ~failed'
    BY <1>3, <2>1
  <2>8. Untouched' /\ Counting' /\ Requested' /\ Failure' /\ OnceInjected'
    BY <2>7 DEF Untouched, Counting, Requested, Failure, OnceInjected
  <2>9. SameOutput'
    <3>1. Unmarked(pub) = Unmarked(given) /\ Unmarked(e) = Unmarked(d)
      BY <1>3, <1>4
    <3> QED
      BY <1>2, <2>2, <3>1 DEF SameOutput
  <2>10. ClosedSilently'
    <3> SUFFICES ASSUME ~effective.message
                 PROVE  Closings(given') = IF dup' THEN 1 ELSE 2
      BY <1>1, <2>6 DEF ClosedSilently
    <3>1. CASE Closings(d) = 1 /\ ~p.used
      <4>1. dup'
        BY <2>1, <3>1
      <4>2. Closings(given') = 1
        BY <1>2, <1>3, <3>1
      <4> QED
        BY <4>1, <4>2
    <3>2. CASE Closings(d) = 2 /\ p.used
      <4>1. ~dup'
        BY <2>1, <3>2
      <4>2. Closings(given') = 2
        BY <1>2, <1>3, <3>2
      <4> QED
        BY <4>1, <4>2
    <3> QED
      BY <1>4, <3>1, <3>2
  <2>11. ClosedByMessage'
    <3> SUFFICES ASSUME effective.message
                 PROVE  /\ Closings(given') = 1 /\ Closings(All') = 1
                        /\ forced' = <<>> /\ ~dup' /\ AfterMessage(pub')
      BY <1>1, <2>6 DEF ClosedByMessage, AfterMessage
    <3>1. TailAfter(e)
      BY <1>9
    <3>2. PICK i2 : i2 = Nth(d, 2)
      OBVIOUS
    <3>3. PICK P : P = Pieces
      OBVIOUS
    <3>4. d \in Seq(P)
      BY <1>2, <3>3 DEF PieceSeqs
    <3>5. CloseMarks(d) # {}
      BY <1>4, <3>4, ClosingType
    <3>6. \/ Closings(d) = 1 /\ e = d
          \/ Closings(d) = 2 /\ e = Without(d, i2)
      BY <1>4, <3>2
    <3>7. e = d /\ Closings(d) = 1 /\ Closings(All) = 1 /\ forced = <<>> /\ AfterMessage(given')
      BY <3>1, <3>2, <3>5, <3>6, MessageCloses
    <3>8. pub' = given'
      BY <1>2, <1>3, <2>1, <3>7
    <3>9. AfterMessage(pub')
      BY <3>7, <3>8 DEF AfterMessage
    <3>10. ~dup'
      BY <2>1
    <3> QED
      BY <1>2, <1>3, <2>1, <3>7, <3>9, <3>10
  <2>12. ForcingInv'
    BY <2>8, <2>9, <2>10, <2>11 DEF ForcingInv
  <2> QED
    BY <2>4, <2>5, <2>12 DEF BudgetInv
<1> QED
  BY <1>8, <1>9

(* A delivery after an injection.                                          *)
LEMMA RequestedKeeps ==
  ASSUME BudgetInv, NEW d, Read(d), state = "FORCE_REQUESTED",
         NEW ids \in BOOLEAN, Apply(Prepare(d), ids),
         UNCHANGED <<effective, closed>>
  PROVE  BudgetInv'
<1>1. PICK p : p = Prepare(d)
  OBVIOUS
<1>2. PICK e : Prepared(p, d, e)
  BY <1>1, RequestedPrepared
<1>3. Apply(p, ids)
  BY <1>1
<1>4. BudgetShape /\ pub = given /\ Closings(given) = 0 /\ ~dup
  BY DEF BudgetInv, ForcingInv, Requested
<1>5. PICK P : P = Pieces
  OBVIOUS
<1>6. d \in Seq(P) /\ e \in Seq(P) /\ given \in Seq(P)
  BY <1>2, <1>4, <1>5 DEF Read, Prepared, BudgetShape, PieceSeqs
<1>7. CloseMarks(pub) = {} /\ (Closings(e) = 0 <=> CloseMarks(e) = {})
  BY <1>4, <1>6, ClosingType
<1>8. p.d = e /\ p.dup = dup /\ Closings(e) = IF Closings(d) = 0 THEN 0 ELSE 1
  BY <1>2 DEF Prepared
<1>9. EndsReasoning(e) <=> CloseMarks(e) # {}
  BY <1>7 DEF EndsReasoning, CloseMarks
<1>10. CASE Closings(d) = 0
  <2>1. e = d
    BY <1>2, <1>10 DEF Prepared
  <2>2. /\ dup' = dup /\ tail' = TailAfter(d) /\ pub' = pub \o d
        /\ UNCHANGED <<state, count, failed, forced, injects>>
    BY <1>3, <1>7, <1>8, <1>9, <1>10, <2>1 DEF Apply, Publish
  <2> QED
    BY <1>10, <2>2, ReasoningGoesOn
<1>11. CASE Closings(d) # 0
  <2>1. ForcedClose(p)
    BY <1>3, <1>7, <1>8, <1>9, <1>11 DEF Apply
  <2> QED
    BY <1>2, <1>11, <2>1, ReasoningEnds
<1> QED
  BY <1>10, <1>11

(* A delta reaches the session.                                            *)
LEMMA DeliverKeeps ==
  ASSUME BudgetInv, NEW k, NEW ids \in BOOLEAN, DeliverDelta(k, ids)
  PROVE  BudgetInv'
<1>1. PICK d, p : d = SubSeq(ready, 1, k) /\ p = Prepare(d)
  OBVIOUS
<1>2. /\ ~failed /\ k \in 1..Len(ready)
      /\ ready' = SubSeq(ready, k + 1, Len(ready)) /\ given' = given \o d
      /\ IF p.d = <<>>
         THEN /\ dup' = p.dup
              /\ UNCHANGED <<state, count, tail, failed, forced, injects, pub>>
         ELSE Apply(p, ids)
      /\ UNCHANGED <<effective, closed>>
  BY <1>1 DEF DeliverDelta
<1>3. BudgetShape
  BY DEF BudgetInv
<1>4. Read(d)
  BY <1>1, <1>2, <1>3, ReadHolds
<1>5. state \in {"DISABLED", "COUNTING", "FORCE_REQUESTED", "DONE"}
  BY <1>3 DEF BudgetShape
<1>6. CASE state \in {"DISABLED", "DONE"}
  <2>1. /\ pub' = pub \o p.d /\ dup' = p.dup
        /\ UNCHANGED <<state, count, tail, failed, forced, injects>>
    <3>1. CASE p.d = <<>>
      <4>1. pub \o <<>> = pub
        <5>1. PICK P, g : P = Pieces /\ g = pub
          OBVIOUS
        <5>2. g \in Seq(P)
          BY <1>3, <5>1 DEF BudgetShape, PieceSeqs
        <5>3. g \o <<>> = g
          BY <5>2, ConcatEmptySeq
        <5> QED
          BY <5>1, <5>3
      <4>2. pub' = pub /\ dup' = p.dup /\ UNCHANGED <<state, count, tail, failed, forced, injects>>
        BY <1>2, <3>1
      <4> QED
        BY <3>1, <4>1, <4>2
    <3>2. CASE p.d # <<>>
      BY <1>2, <1>6, <3>2 DEF Apply, Publish
    <3> QED
      BY <3>1, <3>2
  <2> QED
    BY <1>1, <1>2, <1>4, <1>6, <2>1, IdleKeeps
<1>7. CASE state = "COUNTING"
  <2>1. ~dup
    BY <1>7 DEF BudgetInv, ForcingInv, Counting, Untouched
  <2>2. p.d = d
    <3>1. Prepare(d) = [d |-> d, used |-> FALSE, dup |-> dup]
      BY <1>7, <2>1, NothingStripped
    <3> QED
      BY <1>1, <3>1
  <2>3. Apply(Prepare(d), ids)
    BY <1>1, <1>2, <1>4, <2>2 DEF Read
  <2> QED
    BY <1>2, <1>4, <1>7, <2>3, CountingKeeps
<1>8. CASE state = "FORCE_REQUESTED"
  <2>1. PICK e : Prepared(p, d, e)
    BY <1>1, <1>4, <1>8, RequestedPrepared
  <2>2. p.d # <<>>
    <3>1. p.d = e /\ Closings(e) = IF Closings(d) = 0 THEN 0 ELSE 1
      BY <2>1 DEF Prepared
    <3>2. CASE Closings(d) = 0
      BY <1>4, <2>1, <3>2 DEF Prepared, Read
    <3>3. CASE Closings(d) # 0
      BY <3>1, <3>3, ClosingsEmpty
    <3> QED
      BY <3>2, <3>3
  <2>3. Apply(Prepare(d), ids)
    BY <1>1, <1>2, <2>2
  <2> QED
    BY <1>2, <1>4, <1>8, <2>3, RequestedKeeps
<1> QED
  BY <1>5, <1>6, <1>7, <1>8

(* The budget starts right.                                                *)
LEMMA BudgetStarts == BudgetInit => BudgetInv
<1> SUFFICES ASSUME BudgetInit PROVE BudgetInv
  OBVIOUS
<1>1. /\ effective \in Budgets /\ closed = FALSE /\ ready = <<>> /\ count = 0 /\ dup = FALSE
      /\ tail = FALSE /\ given = <<>> /\ pub = <<>>
      /\ \/ /\ effective.max > 0
            /\ state = "COUNTING" /\ forced = <<>> /\ injects = 0 /\ failed = FALSE
         \/ /\ state = "FORCE_REQUESTED" /\ forced = ForcedText /\ injects = 1
            /\ failed = FALSE
         \/ /\ state = (IF effective.explicit THEN "DONE" ELSE "DISABLED")
            /\ forced = <<>> /\ injects = 0 /\ failed = effective.explicit
  BY DEF BudgetInit
<1>2. /\ effective.max \in Nat /\ effective.message \in BOOLEAN /\ effective.explicit \in BOOLEAN
  BY <1>1, BudgetType
<1>3. /\ <<>> \in PieceSeqs /\ Closings(<<>>) = 0
      /\ Closings(forced) \in {0, injects} /\ (injects = 0 => forced = <<>>)
      /\ forced \in {<<>>, ForcedText} /\ injects \in {0, 1}
  BY <1>1, ForcedClosings
<1>4. All = <<>> /\ DOMAIN All = {} /\ Len(pub) = 0
  BY <1>1 DEF All
<1>5. BudgetShape
  <2>1. state \in {"DISABLED", "COUNTING", "FORCE_REQUESTED", "DONE"} /\ failed \in BOOLEAN
    BY <1>1, <1>2
  <2>2. count \in Nat /\ closed \in BOOLEAN /\ dup \in BOOLEAN /\ tail \in BOOLEAN
    BY <1>1
  <2> QED
    BY <1>1, <1>3, <2>1, <2>2 DEF BudgetShape
<1>6. EmissionInv
  <2>1. Closings(All) = 0 /\ Closings(All) + Closings(forced) <= 1 + injects
    BY <1>3, <1>4
  <2> QED
    BY <1>3, <1>4, <2>1 DEF EmissionInv
<1>7. Untouched /\ Counting /\ Requested /\ OnceInjected
  <2>1. Untouched
    BY <1>1 DEF Untouched
  <2>2. Counting
    BY <1>1, <1>2, <1>3, <1>4 DEF Counting
  <2>3. Requested
    BY <1>1, <1>2, <1>3 DEF Requested
  <2>4. OnceInjected
    BY <1>1 DEF OnceInjected
  <2> QED
    BY <2>1, <2>2, <2>3, <2>4
<1>8. ClosedByMessage /\ ClosedSilently
  BY <1>1 DEF ClosedByMessage, ClosedSilently
<1>9. Failure
  <2>1. failed => state = "DONE"
    BY <1>1
  <2>2. Closings(pub) = 0
    BY <1>1, <1>3
  <2> QED
    BY <2>1, <2>2 DEF Failure
<1>10. SameOutput
  BY <1>1 DEF SameOutput
<1> QED
  BY <1>5, <1>6, <1>7, <1>8, <1>9, <1>10 DEF BudgetInv, ForcingInv

(* Every step keeps the invariant.                                         *)
LEMMA BudgetStep ==
  BudgetInv /\ [BudgetNext]_(budgetVars) => BudgetInv'
<1> SUFFICES ASSUME BudgetInv, [BudgetNext]_(budgetVars)
             PROVE  BudgetInv'
  OBVIOUS
<1>1. CASE Sample
  BY <1>1, SampleKeeps
<1>2. CASE EmitForced
  BY <1>2, EmitKeeps
<1>3. CASE GenerationEnds
  <2>1. UNCHANGED <<effective, closed, ready, forced, state, count, dup, tail, failed, injects, given, pub>>
    BY <1>3 DEF GenerationEnds, budget
  <2> QED
    BY <2>1, FinishKeeps
<1>4. CASE \E k \in 1..DrainMax, ids \in BOOLEAN : DeliverDelta(k, ids)
  BY <1>4, DeliverKeeps
<1>5. CASE UNCHANGED budgetVars
  <2>1. UNCHANGED <<effective, closed, ready, forced, state, count, dup, tail, failed, injects, given, pub>>
    BY <1>5 DEF budgetVars, backend, budget
  <2> QED
    BY <2>1, FinishKeeps
<1> QED
  BY <1>1, <1>2, <1>3, <1>4, <1>5 DEF BudgetNext

(* The invariant says that the budget closes once.                         *)
LEMMA BudgetCloses ==
  BudgetInv => BudgetClosesOnce
<1> SUFFICES ASSUME BudgetInv PROVE BudgetClosesOnce
  OBVIOUS
<1>1. BudgetShape /\ EmissionInv /\ ForcingInv
  BY DEF BudgetInv
<1>2. PICK P, g, w : P = Pieces /\ g = given /\ w = pub
  OBVIOUS
<1>3. g \in Seq(P) /\ w \in Seq(P)
  BY <1>1, <1>2 DEF BudgetShape, PieceSeqs
<1>4. /\ Closings(pub) \in Nat /\ (Closings(pub) = 0 <=> CloseMarks(pub) = {})
      /\ Closings(given) \in Nat /\ (Closings(given) = 0 <=> CloseMarks(given) = {})
  BY <1>2, <1>3, ClosingType
<1>5. Closings(given) <= 1 + injects
  <2>1. PICK r : r = ready
    OBVIOUS
  <2>2. r \in Seq(P)
    BY <1>1, <1>2, <2>1 DEF BudgetShape, PieceSeqs
  <2>3. Closings(g \o r) = Closings(g) + Closings(r) /\ Closings(r) \in Nat /\ Closings(g) \in Nat
    BY <1>3, <2>2, ClosingsConcat, ClosingType
  <2>4. Closings(forced) \in Nat
    BY <1>1, ForcedClosings DEF BudgetShape
  <2>5. Closings(All) + Closings(forced) <= 1 + injects
    BY <1>1 DEF EmissionInv
  <2>6. Closings(All) = Closings(g) + Closings(r)
    BY <1>2, <2>1, <2>3 DEF All
  <2> QED
    BY <1>1, <1>2, <2>3, <2>4, <2>5, <2>6 DEF BudgetShape
<1>6. injects \in {0, 1} /\ state \in {"DISABLED", "COUNTING", "FORCE_REQUESTED", "DONE"}
  BY <1>1 DEF BudgetShape
<1>7. Closings(pub) <= 1 /\ (~failed /\ Closings(given) # 0 => Closings(pub) # 0)
  <2>1. CASE failed
    BY <1>1, <2>1 DEF ForcingInv, Failure
  <2>2. CASE ~failed /\ injects = 0
    <3>1. pub = given
      BY <1>1, <2>2 DEF ForcingInv, Untouched
    <3>2. Closings(pub) = Closings(given) /\ Closings(given) <= 1
      BY <1>4, <1>5, <2>2, <3>1
    <3> QED
      BY <1>4, <3>2
  <2>3. CASE ~failed /\ injects = 1
    <3>1. state \in {"FORCE_REQUESTED", "DONE"}
      BY <1>1, <2>3 DEF ForcingInv, OnceInjected
    <3>2. CASE state = "FORCE_REQUESTED"
      BY <1>1, <3>2 DEF ForcingInv, Requested
    <3>3. CASE state = "DONE" /\ effective.message
      BY <1>1, <2>3, <3>3 DEF ForcingInv, ClosedByMessage
    <3>4. CASE state = "DONE" /\ ~effective.message
      BY <1>1, <2>3, <3>4 DEF ForcingInv, ClosedSilently
    <3> QED
      BY <3>1, <3>2, <3>3, <3>4
  <2> QED
    BY <1>6, <2>1, <2>2, <2>3
<1>8. OneClose
  <2>1. Cardinality(ClosesIn(pub)) = Closings(pub)
    BY DEF Closings, CloseMarks
  <2>2. ~failed => Unmarked(pub) = Unmarked(given)
    BY <1>1 DEF ForcingInv, SameOutput
  <2>3. ~failed => (ClosesIn(given) # {} => ClosesIn(pub) # {})
    BY <1>4, <1>7 DEF CloseMarks
  <2> QED
    BY <1>7, <2>1, <2>2, <2>3 DEF OneClose
<1>9. BudgetIsEnforced
  <2>1. ClosesIn(pub) = {} /\ Len(pub) >= effective.max => state # "COUNTING"
    <3> SUFFICES ASSUME Len(pub) >= effective.max, state = "COUNTING" PROVE FALSE
      OBVIOUS
    <3>1. count = Len(pub) /\ count < effective.max
      BY <1>1 DEF ForcingInv, Counting
    <3>2. count \in Nat /\ effective.max \in Nat
      BY <1>1, BudgetType DEF BudgetShape
    <3> QED
      BY <3>1, <3>2
  <2>2. ASSUME effective.message, injects = 1, ~failed
        PROVE  \A i \in ClosesIn(pub) : i > 1 /\ pub[i - 1] = "m"
    <3>1. state \in {"FORCE_REQUESTED", "DONE"}
      BY <1>1, <2>2 DEF ForcingInv, OnceInjected
    <3>2. CASE state = "FORCE_REQUESTED"
      <4>1. Closings(pub) = 0
        BY <1>1, <3>2 DEF ForcingInv, Requested
      <4> QED
        BY <1>4, <4>1 DEF CloseMarks
    <3>3. CASE state = "DONE"
      BY <1>1, <2>2, <3>3 DEF ForcingInv, ClosedByMessage, ClosesIn
    <3> QED
      BY <3>1, <3>2, <3>3
  <2>3. injects <= 1
    BY <1>6
  <2> QED
    BY <2>1, <2>2, <2>3 DEF BudgetIsEnforced
<1> QED
  BY <1>8, <1>9 DEF BudgetClosesOnce

(* The budget closes the reasoning exactly once and in time, whatever the  *)
(* deltas are cut into and whichever close comes first; an injected        *)
(* message stands before the close; no other output is lost.               *)
THEOREM BudgetCorrect ==
  BudgetSpec => []BudgetClosesOnce
<1>1. BudgetInit => BudgetInv
  BY BudgetStarts
<1>2. BudgetInv /\ [BudgetNext]_(budgetVars) => BudgetInv'
  BY BudgetStep
<1>3. BudgetInv => BudgetClosesOnce
  BY BudgetCloses
<1> QED
  BY <1>1, <1>2, <1>3, PTL DEF BudgetSpec

-----------------------------------------------------------------------------
(* The output streams: what parsers emit and clients read.                 *)

(* The events of a generation.                                             *)
Values == Seq(Nat)
ReasoningTypes == {"ReasoningStarted", "ReasoningDelta", "ReasoningCompleted"}
TextTypes == {"TextStarted", "TextDelta", "TextCompleted"}
ToolTypes == {"ToolCallStarted", "ToolCallArgumentsDelta", "ToolCallCompleted"}
FailureTypes == {"GenerationFailed", "GenerationCancelled"}
Events ==
    [type : {"GenerationStarted"} \cup ReasoningTypes \cup TextTypes \cup FailureTypes,
     call : {0}, val : Values]
    \cup [type : ToolTypes, call : Calls, val : Values]
    \cup [type : {"GenerationCompleted"}, call : {0}, val : Successes]

(* What the Anthropic serializer sends, its state and its client's.        *)
Slots == {None} \cup Nat
Blocks == [kind : {"thinking", "text", "tool", "signature", "none"}, call : {0} \cup Calls,
           val : Values]
Wires == [type : {"message_start", "start", "delta", "stop", "message_stop", "error"},
          index : Slots, block : Blocks]
Sers == [next : Nat, reasoning : Slots, text : Slots, tools : [Calls -> Slots],
         pending : {0} \cup Calls, deferred : Seq(Events), terminal : BOOLEAN]
Clients == [blocks : Seq(Blocks), open : Slots, signed : SUBSET Slots,
            done : {"no", "stop", "error"}, ok : BOOLEAN]

(* One element of a sequence is changed.                                   *)
LEMMA ElementChanged ==
  ASSUME NEW S, NEW q \in Seq(S), NEW i, NEW x \in S
  PROVE  /\ [q EXCEPT ![i] = x] \in Seq(S)
         /\ Len([q EXCEPT ![i] = x]) = Len(q)
         /\ \A j \in 1..Len(q) : [q EXCEPT ![i] = x][j] = IF j = i THEN x ELSE q[j]
<1>1. PICK n \in Nat : n = Len(q) /\ q \in [1..n -> S]
  OBVIOUS
<1>2. [q EXCEPT ![i] = x] \in [1..n -> S]
  BY <1>1
<1>3. \A f \in [1..n -> S] : f \in Seq(S) /\ Len(f) = n
  BY <1>1
<1> QED
  BY <1>1, <1>2, <1>3

(* A client stays one.                                                     *)
LEMMA ReceiveType ==
  \A c \in Clients, w \in Wires : Receive(c, w) \in Clients
<1> SUFFICES ASSUME NEW c \in Clients, NEW w \in Wires PROVE Receive(c, w) \in Clients
  OBVIOUS
<1>1. /\ c.blocks \in Seq(Blocks) /\ c.open \in Slots /\ c.signed \in SUBSET Slots
      /\ c.done \in {"no", "stop", "error"} /\ c.ok \in BOOLEAN
      /\ w.index \in Slots /\ w.block \in Blocks
      /\ w.type \in {"message_start", "start", "delta", "stop", "message_stop", "error"}
  BY DEF Clients, Wires
<1>2. CASE w.type = "message_start"
  BY <1>1, <1>2 DEF Receive, Clients
<1>3. CASE w.type = "start"
  <2>1. Append(c.blocks, w.block) \in Seq(Blocks)
    BY <1>1
  <2> QED
    BY <1>1, <1>3, <2>1 DEF Receive, Clients
<1>4. CASE w.type = "delta" /\ w.index # c.open
  BY <1>1, <1>4 DEF Receive, Clients
<1>5. CASE w.type = "delta" /\ w.index = c.open /\ w.block.kind = "signature"
  <2>1. c.signed \cup {c.open} \in SUBSET Slots
    BY <1>1
  <2>2. Receive(c, w) = [c EXCEPT !.signed = @ \cup {c.open}]
    BY <1>5, Zenon DEF Receive
  <2> QED
    BY <1>1, <2>1, <2>2 DEF Clients
<1>6. CASE w.type = "delta" /\ w.index = c.open /\ w.block.kind # "signature"
  <2>1. Receive(c, w) = [c EXCEPT !.blocks[c.open + 1].val = @ \o w.block.val]
    BY <1>6, Zenon DEF Receive
  <2>2. PICK B : B = [c.blocks EXCEPT ![c.open + 1].val = @ \o w.block.val]
    OBVIOUS
  <2>3. B \in Seq(Blocks)
    <3>1. CASE c.open + 1 \in DOMAIN c.blocks
      <4>1. c.blocks[c.open + 1] \in Blocks
        BY <1>1, <3>1
      <4>2. [c.blocks[c.open + 1] EXCEPT !.val = @ \o w.block.val] \in Blocks
        <5>1. c.blocks[c.open + 1].val \o w.block.val \in Values
          BY <1>1, <4>1 DEF Blocks, Values
        <5> QED
          BY <4>1, <5>1 DEF Blocks
      <4>3. B = [c.blocks EXCEPT ![c.open + 1] =
                   [c.blocks[c.open + 1] EXCEPT !.val = @ \o w.block.val]]
        BY <2>2
      <4> QED
        BY <1>1, <4>2, <4>3, ElementChanged
    <3>2. CASE c.open + 1 \notin DOMAIN c.blocks
      <4>1. B = c.blocks
        BY <1>1, <2>2, <3>2
      <4> QED
        BY <1>1, <4>1
    <3> QED
      BY <3>1, <3>2
  <2>4. Receive(c, w) = [c EXCEPT !.blocks = B]
    BY <1>1, <2>1, <2>2
  <2> QED
    BY <1>1, <2>3, <2>4 DEF Clients
<1>7. CASE w.type = "stop"
  BY <1>1, <1>7 DEF Receive, Clients, Slots
<1>8. CASE w.type = "message_stop"
  BY <1>1, <1>8 DEF Receive, Clients
<1>9. CASE w.type = "error"
  BY <1>1, <1>9 DEF Receive, Clients
<1> QED
  BY <1>1, <1>2, <1>3, <1>4, <1>5, <1>6, <1>7, <1>8, <1>9

(* A client reads what was sent, one piece after the other.                *)
Received(c, out) == FoldLeft(Receive, c, out)
Receiving == [v \in Clients |-> [w \in Wires |-> Receive(v, w)]]

(* Reading is a fold.                                                       *)
LEMMA ReceivedRuns ==
  ASSUME NEW c \in Clients, NEW out \in Seq(Wires)
  PROVE  FoldsTo(Clients, c, Receiving, out, Received(c, out))
<1> DEFINE V == Clients
           E == Wires
           a == c
           g == Receiving
           Eq(F) == F = [p \in SUBSET DOMAIN out |->
                          IF p = {} THEN a
                          ELSE Receive(F[p \ {Max(p)}], out[Max(p)])]
           C == CHOOSE F : Eq(F)
<1>1. a \in V
  OBVIOUS
<1>2. /\ g \in [V -> [E -> V]]
      /\ \A v \in V, x \in E : g[v][x] = Receive(v, x)
  <2>1. \A v \in V, x \in E : (Receive(v, x)) \in V
    BY ReceiveType
  <2> QED
    BY <2>1 DEF Receiving
<1>3. Received(c, out) = C[DOMAIN out]
  BY Zenon DEF Received, FoldLeft, MapThenFoldSet, Max
<1>4. out \in Seq(E)
  OBVIOUS
<1> HIDE DEF V, E, a, g, C
<1>5. PICK F : FoldOver(F, V, E, a, g, out)
  BY <1>1, <1>2, <1>4, FoldOverExists
<1>6. Eq(F)
  <2>1. \A p \in SUBSET DOMAIN out :
           F[p] = IF p = {} THEN a ELSE Receive(F[p \ {Max(p)}], out[Max(p)])
    <3> SUFFICES ASSUME NEW p \in SUBSET DOMAIN out, p # {}
                 PROVE  F[p] = Receive(F[p \ {Max(p)}], out[Max(p)])
      BY <1>5, Zenon DEF FoldOver
    <3>1. /\ F[p \ {Max(p)}] \in V /\ out[Max(p)] \in E
          /\ F[p] = g[F[p \ {Max(p)}]][out[Max(p)]]
      BY <1>5, Zenon DEF FoldOver
    <3> QED
      BY <1>2, <3>1, Zenon
  <2>2. F = [p \in SUBSET DOMAIN out |-> F[p]]
    BY <1>5 DEF FoldOver
  <2> QED
    BY <2>1, <2>2, Zenon
<1>7. \A p \in SUBSET DOMAIN out :
        C[p] = IF p = {} THEN a ELSE Receive(C[p \ {Max(p)}], out[Max(p)])
  <2>1. Eq(C)
    BY <1>6, Zenon DEF C
  <2> QED
    BY <2>1, Zenon
<1>8. Folds(C, V, a, g, out)
  <2>1. C[{}] = a
    BY <1>7, Zenon
  <2>2. ASSUME NEW p \in SUBSET DOMAIN out, p # {}, C[p \ {Max(p)}] \in V
        PROVE  C[p] = g[C[p \ {Max(p)}]][out[Max(p)]]
    <3>1. out[Max(p)] \in E
      BY <1>5, <2>2, Zenon DEF FoldOver
    <3> QED
      BY <1>2, <1>7, <2>2, <3>1, Zenon
  <2> QED
    BY <2>1, <2>2, Zenon DEF Folds
<1>9. FoldsTo(V, a, g, out, Received(c, out))
  <2>1. PICK K, result : K = C /\ result = Received(c, out)
    OBVIOUS
  <2>2. Folds(K, V, a, g, out) /\ result = K[DOMAIN out]
    BY <1>3, <1>8, <2>1
  <2>3. FoldsTo(V, a, g, out, result)
    BY <1>1, <1>2, <1>4, <2>2, FoldRuns
  <2> QED
    BY <2>1, <2>3
<1> QED
  BY <1>9 DEF V, E, a, g

(* Reading one piece more.                                                  *)
LEMMA ReceivedAppend ==
  ASSUME NEW c \in Clients, NEW out \in Seq(Wires), NEW x \in Wires
  PROVE  /\ Received(c, <<>>) = c
         /\ Received(c, out) \in Clients
         /\ Received(c, Append(out, x)) = Receive(Received(c, out), x)
<1> DEFINE V == Clients
           E == Wires
           a == c
           g == Receiving
<1>1. a \in V /\ out \in Seq(E) /\ x \in E /\ Append(out, x) \in Seq(E) /\ <<>> \in Seq(E)
  OBVIOUS
<1>2. /\ g \in [V -> [E -> V]]
      /\ \A v \in V, y \in E : g[v][y] = Receive(v, y)
  <2>1. \A v \in V, y \in E : (Receive(v, y)) \in V
    BY ReceiveType
  <2> QED
    BY <2>1 DEF Receiving
<1>3. PICK r, result, more, none :
        /\ r = Received(c, out) /\ more = Append(out, x)
        /\ result = Received(c, Append(out, x)) /\ none = Received(c, <<>>)
  OBVIOUS
<1>4. FoldsTo(V, a, g, out, r) /\ FoldsTo(V, a, g, more, result) /\ FoldsTo(V, a, g, <<>>, none)
  BY <1>1, <1>3, ReceivedRuns
<1> HIDE DEF V, E, a, g
<1>5. Continues(V, E, a, g, out, x, more)
  BY <1>1, <1>2, <1>3, Zenon DEF Continues, Longer
<1>6. r \in V /\ result = g[r][x]
  BY <1>4, <1>5, FoldAppend
<1>7. result = Receive(r, x)
  BY <1>1, <1>2, <1>6, Zenon
<1>8. none = a
  BY <1>4, FoldEmpty
<1> QED
  BY <1>3, <1>6, <1>7, <1>8, Zenon DEF V, a

(* Nothing read.                                                           *)
LEMMA ReceivedEmpty ==
  ASSUME NEW c \in Clients
  PROVE  Received(c, <<>>) = c
<1>1. PICK result : result = Received(c, <<>>)
  OBVIOUS
<1>2. <<>> \in Seq(Wires)
  OBVIOUS
<1>3. FoldsTo(Clients, c, Receiving, <<>>, result)
  BY <1>1, <1>2, ReceivedRuns
<1> QED
  BY <1>1, <1>3, FoldEmpty

LEMMA ReceivedType ==
  ASSUME NEW c \in Clients, NEW out \in Seq(Wires)
  PROVE  Received(c, out) \in Clients
<1>1. PICK result : result = Received(c, out)
  OBVIOUS
<1>2. FoldsTo(Clients, c, Receiving, out, result)
  BY <1>1, ReceivedRuns
<1>3. PICK up : IsRun(up, Clients, c, Receiving, out, result)
  BY <1>2 DEF FoldsTo
<1>4. Len(out) \in 0..Len(out)
  OBVIOUS
<1> QED
  BY <1>1, <1>3, <1>4 DEF IsRun

(* What is read of nothing, of one piece and of two.                       *)
LEMMA ReceivedFew ==
  ASSUME NEW c \in Clients, NEW w \in Wires, NEW x \in Wires
  PROVE  /\ Received(c, <<>>) = c
         /\ Received(c, <<w>>) = Receive(c, w)
         /\ Received(c, <<w, x>>) = Receive(Receive(c, w), x)
<1>1. <<>> \in Seq(Wires) /\ <<w>> \in Seq(Wires)
  OBVIOUS
<1>2. <<w>> = Append(<<>>, w) /\ <<w, x>> = Append(<<w>>, x)
  OBVIOUS
<1>3. Received(c, <<>>) = c
  BY <1>1, ReceivedAppend
<1>4. Received(c, Append(<<>>, w)) = Receive(Received(c, <<>>), w)
  BY <1>1, ReceivedAppend
<1>5. Received(c, Append(<<w>>, x)) = Receive(Received(c, <<w>>), x)
  BY <1>1, ReceivedAppend
<1> QED
  BY <1>2, <1>3, <1>4, <1>5, Zenon

LEMMA ReceivedOne ==
  ASSUME NEW c \in Clients, NEW w \in Wires
  PROVE  Received(c, <<w>>) = Receive(c, w)
<1> QED
  BY ReceivedFew

(* A client reads on where it stopped.                                     *)
LEMMA ReceivedConcat ==
  ASSUME NEW c \in Clients, NEW p \in Seq(Wires), NEW q \in Seq(Wires)
  PROVE  /\ Received(c, p) \in Clients
         /\ Received(c, p \o q) = Received(Received(c, p), q)
<1> DEFINE d == Received(c, p)
           T == {s \in Seq(Wires) : Received(c, p \o s) = Received(d, s)}
<1>1. d \in Clients
  BY ReceivedType
<1>2. <<>> \in T
  <2>1. p \o <<>> = p /\ <<>> \in Seq(Wires)
    BY ConcatEmptySeq
  <2>2. Received(d, <<>>) = d
    BY <1>1, ReceivedEmpty
  <2> QED
    BY <2>1, <2>2
<1> HIDE DEF d
<1>3. \A s \in Seq(Wires), x \in Wires : s \in T => Append(s, x) \in T
  <2> SUFFICES ASSUME NEW s \in Seq(Wires), NEW x \in Wires, Received(c, p \o s) = Received(d, s)
               PROVE  Append(s, x) \in T
    OBVIOUS
  <2>1. p \o s \in Seq(Wires) /\ p \o Append(s, x) = Append(p \o s, x) /\ Append(s, x) \in Seq(Wires)
    OBVIOUS
  <2>2. Received(c, Append(p \o s, x)) = Receive(Received(c, p \o s), x)
    BY <2>1, ReceivedAppend
  <2>3. Received(d, Append(s, x)) = Receive(Received(d, s), x)
    BY <1>1, ReceivedAppend
  <2> QED
    BY <2>1, <2>2, <2>3
<1> HIDE DEF T
<1>4. q \in T
  BY <1>2, <1>3, SeqInduction
<1> QED
  BY <1>1, <1>4 DEF T, d

(* What the serializer does with one event.                                *)
Steps == [ser : Sers, out : Seq(Wires)]

LEMMA StepType ==
  ASSUME NEW s \in Sers, NEW out \in Seq(Wires)
  PROVE  /\ Sends(s, out) \in Steps
         /\ Sends(s, out).ser = s /\ Sends(s, out).out = out
<1> QED
  BY DEF Sends, Steps

LEMMA SendsNothing ==
  ASSUME NEW s \in Sers
  PROVE  /\ Sends(s, <<>>) \in Steps /\ <<>> \in Seq(Wires)
         /\ Sends(s, <<>>).ser = s /\ Sends(s, <<>>).out = <<>>
<1>1. <<>> \in Seq(Wires)
  OBVIOUS
<1> QED
  BY <1>1, StepType

(* Its fields.                                                             *)
LEMMA SerFields ==
  ASSUME NEW s \in Sers
  PROVE  /\ s.next \in Nat /\ s.next \in Slots /\ s.next + 1 \in Nat
         /\ s.reasoning \in Slots /\ s.text \in Slots
         /\ s.tools \in [Calls -> Slots] /\ s.pending \in {0} \cup Calls
         /\ s.deferred \in Seq(Events) /\ s.terminal \in BOOLEAN
<1>1. s.next \in Nat
  BY DEF Sers
<1>2. s.next \in Slots
  BY <1>1 DEF Slots
<1> QED
  BY <1>1, <1>2 DEF Sers

(* What is sent is a piece of a stream.                                    *)
LEMMA WireType ==
  ASSUME NEW t \in {"message_start", "start", "delta", "stop", "message_stop", "error"},
         NEW i \in Slots, NEW b \in Blocks
  PROVE  Wire(t, i, b) \in Wires /\ NoBlock \in Blocks /\ 0 \in Slots
<1> QED
  BY DEF Wire, Wires, NoBlock, Block, Blocks, Slots, Values

LEMMA BlockType ==
  ASSUME NEW k \in {"thinking", "text", "tool", "signature", "none"}, NEW n \in {0} \cup Calls,
         NEW v \in Values
  PROVE  Block(k, n, v) \in Blocks /\ <<>> \in Values
<1> QED
  BY DEF Block, Blocks, Values

LEMMA EmptyBlockType ==
  /\ Block("thinking", 0, <<>>) \in Blocks /\ Block("text", 0, <<>>) \in Blocks
  /\ Block("signature", 0, <<>>) \in Blocks /\ NoBlock \in Blocks
  /\ \A n \in Calls : Block("tool", n, <<>>) \in Blocks
  /\ 0 \in Slots /\ None \in Slots /\ <<>> \in Values
<1>1. <<>> \in Values /\ 0 \in Slots /\ None \in Slots
  BY DEF Values, Slots
<1>2. \A k \in {"thinking", "text", "tool", "signature", "none"}, n \in {0} \cup Calls :
        Block(k, n, <<>>) \in Blocks
  BY <1>1 DEF Block, Blocks
<1> QED
  BY <1>1, <1>2 DEF NoBlock

LEMMA StartReasoningType ==
  ASSUME NEW s \in Sers
  PROVE  /\ StartBlock(s, "reasoning", "thinking") \in Steps
         /\ StartBlock(s, "reasoning", "thinking").ser =
              [s EXCEPT !.reasoning = s.next, !.next = s.next + 1]
         /\ StartBlock(s, "reasoning", "thinking").out =
              <<Wire("start", s.next, Block("thinking", 0, <<>>))>>
<1>1. StartBlock(s, "reasoning", "thinking") =
        Sends([s EXCEPT !.reasoning = s.next, !.next = s.next + 1],
              <<Wire("start", s.next, Block("thinking", 0, <<>>))>>)
  BY Zenon DEF StartBlock
<1>2. [s EXCEPT !.reasoning = s.next, !.next = s.next + 1] \in Sers
  BY SerFields DEF Sers
<1>3. Wire("start", s.next, Block("thinking", 0, <<>>)) \in Wires
  <2>1. Block("thinking", 0, <<>>) \in Blocks
    BY EmptyBlockType
  <2> QED
    BY <2>1, WireType, SerFields
<1>4. PICK r, o : /\ r = [s EXCEPT !.reasoning = s.next, !.next = s.next + 1]
                  /\ o = <<Wire("start", s.next, Block("thinking", 0, <<>>))>>
  OBVIOUS
<1>5. r \in Sers /\ o \in Seq(Wires)
  BY <1>2, <1>3, <1>4
<1>6. Sends(r, o) \in Steps /\ Sends(r, o).ser = r /\ Sends(r, o).out = o
  BY <1>5, StepType
<1>7. StartBlock(s, "reasoning", "thinking") = Sends(r, o)
  BY <1>1, <1>4
<1> QED
  BY <1>4, <1>6, <1>7

LEMMA StartTextType ==
  ASSUME NEW s \in Sers
  PROVE  /\ StartBlock(s, "text", "text") \in Steps
         /\ StartBlock(s, "text", "text").ser =
              [s EXCEPT !.text = s.next, !.next = s.next + 1]
         /\ StartBlock(s, "text", "text").out =
              <<Wire("start", s.next, Block("text", 0, <<>>))>>
<1>1. StartBlock(s, "text", "text") =
        Sends([s EXCEPT !.text = s.next, !.next = s.next + 1],
              <<Wire("start", s.next, Block("text", 0, <<>>))>>)
  BY Zenon DEF StartBlock
<1>2. [s EXCEPT !.text = s.next, !.next = s.next + 1] \in Sers
  BY SerFields DEF Sers
<1>3. Wire("start", s.next, Block("text", 0, <<>>)) \in Wires
  <2>1. Block("text", 0, <<>>) \in Blocks
    BY EmptyBlockType
  <2> QED
    BY <2>1, WireType, SerFields
<1>4. PICK r, o : /\ r = [s EXCEPT !.text = s.next, !.next = s.next + 1]
                  /\ o = <<Wire("start", s.next, Block("text", 0, <<>>))>>
  OBVIOUS
<1>5. r \in Sers /\ o \in Seq(Wires)
  BY <1>2, <1>3, <1>4
<1>6. Sends(r, o) \in Steps /\ Sends(r, o).ser = r /\ Sends(r, o).out = o
  BY <1>5, StepType
<1>7. StartBlock(s, "text", "text") = Sends(r, o)
  BY <1>1, <1>4
<1> QED
  BY <1>4, <1>6, <1>7

(* The events of the channels.                                             *)
LEMMA EventFields ==
  ASSUME NEW e \in Events
  PROVE  /\ e.type \in {"GenerationStarted", "GenerationCompleted"} \cup ReasoningTypes
                       \cup TextTypes \cup ToolTypes \cup FailureTypes
         /\ e.type \in ToolTypes => e.call \in Calls
         /\ e.type # "GenerationCompleted" => e.val \in Values
         /\ e.call \in {0} \cup Calls
<1> QED
  BY DEF Events, ReasoningTypes, TextTypes, ToolTypes, FailureTypes

LEMMA ProjectReasoningType ==
  ASSUME NEW s \in Sers, NEW e \in Events, e.type \in ReasoningTypes
  PROVE  ProjectReasoning(s, e) \in Steps
<1>1. PICK o : o = EnsureBlock(s, "reasoning", "thinking")
  OBVIOUS
<1>2. o \in Steps
  <2>1. Sends(s, <<>>) \in Steps
    BY SendsNothing
  <2>2. o = StartBlock(s, "reasoning", "thinking") \/ o = Sends(s, <<>>)
    BY <1>1, Zenon DEF EnsureBlock
  <2> QED
    BY <2>1, <2>2, StartReasoningType
<1>3. o.ser \in Sers /\ o.out \in Seq(Wires)
  BY <1>2 DEF Steps
<1>4. PICK at : at = o.ser.reasoning
  OBVIOUS
<1>5. at \in Slots /\ e.val \in Values
  BY <1>3, <1>4, SerFields, EventFields DEF ReasoningTypes
<1>6. /\ Wire("delta", at, Block("thinking", 0, e.val)) \in Wires
      /\ Wire("delta", at, Block("signature", 0, <<>>)) \in Wires
      /\ Wire("stop", at, NoBlock) \in Wires
  <2>1. Block("thinking", 0, e.val) \in Blocks /\ Block("signature", 0, <<>>) \in Blocks
    BY <1>5, BlockType
  <2> QED
    BY <1>5, <2>1, WireType
<1>7. /\ o.out \o <<>> \in Seq(Wires)
      /\ o.out \o <<Wire("delta", at, Block("thinking", 0, e.val))>> \in Seq(Wires)
      /\ o.out \o <<Wire("delta", at, Block("signature", 0, <<>>)), Wire("stop", at, NoBlock)>>
           \in Seq(Wires)
  BY <1>3, <1>6
<1>8. CASE e.type = "ReasoningStarted"
  <2>1. ProjectReasoning(s, e) = StartBlock(s, "reasoning", "thinking")
    BY <1>8, Zenon DEF ProjectReasoning
  <2> QED
    BY <2>1, StartReasoningType
<1>9. CASE e.type = "ReasoningDelta"
  <2>1. ProjectReasoning(s, e) =
          Sends(o.ser, o.out \o IF omit THEN <<>>
                                ELSE <<Wire("delta", at, Block("thinking", 0, e.val))>>)
    BY <1>1, <1>4, <1>9, Zenon DEF ProjectReasoning
  <2> QED
    BY <1>3, <1>7, <2>1, StepType
<1>10. CASE e.type = "ReasoningCompleted"
  <2>1. ProjectReasoning(s, e) =
          Sends(o.ser, o.out \o <<Wire("delta", at, Block("signature", 0, <<>>)),
                                  Wire("stop", at, NoBlock)>>)
    BY <1>1, <1>4, <1>10, Zenon DEF ProjectReasoning
  <2> QED
    BY <1>3, <1>7, <2>1, StepType
<1> QED
  BY <1>8, <1>9, <1>10 DEF ReasoningTypes

LEMMA ProjectTextType ==
  ASSUME NEW s \in Sers, NEW e \in Events, e.type \in TextTypes
  PROVE  ProjectText(s, e) \in Steps
<1>1. PICK o : o = EnsureBlock(s, "text", "text")
  OBVIOUS
<1>2. o \in Steps
  <2>1. Sends(s, <<>>) \in Steps
    BY SendsNothing
  <2>2. o = StartBlock(s, "text", "text") \/ o = Sends(s, <<>>)
    BY <1>1, Zenon DEF EnsureBlock
  <2> QED
    BY <2>1, <2>2, StartTextType
<1>3. o.ser \in Sers /\ o.out \in Seq(Wires)
  BY <1>2 DEF Steps
<1>4. PICK at : at = o.ser.text
  OBVIOUS
<1>5. at \in Slots /\ e.val \in Values
  BY <1>3, <1>4, SerFields, EventFields DEF TextTypes
<1>6. Wire("delta", at, Block("text", 0, e.val)) \in Wires /\ Wire("stop", at, NoBlock) \in Wires
  <2>1. Block("text", 0, e.val) \in Blocks
    BY <1>5, BlockType
  <2> QED
    BY <1>5, <2>1, WireType
<1>7. /\ Append(o.out, Wire("delta", at, Block("text", 0, e.val))) \in Seq(Wires)
      /\ Append(o.out, Wire("stop", at, NoBlock)) \in Seq(Wires)
  BY <1>3, <1>6
<1>8. CASE e.type = "TextStarted"
  <2>1. ProjectText(s, e) = StartBlock(s, "text", "text")
    BY <1>8, Zenon DEF ProjectText
  <2> QED
    BY <2>1, StartTextType
<1>9. CASE e.type = "TextDelta"
  <2>1. ProjectText(s, e) = Sends(o.ser, Append(o.out, Wire("delta", at, Block("text", 0, e.val))))
    BY <1>1, <1>4, <1>9, Zenon DEF ProjectText
  <2> QED
    BY <1>3, <1>7, <2>1, StepType
<1>10. CASE e.type = "TextCompleted"
  <2>1. ProjectText(s, e) = Sends(o.ser, Append(o.out, Wire("stop", at, NoBlock)))
    BY <1>1, <1>4, <1>10, Zenon DEF ProjectText
  <2> QED
    BY <1>3, <1>7, <2>1, StepType
<1> QED
  BY <1>8, <1>9, <1>10 DEF TextTypes

LEMMA ProjectToolType ==
  ASSUME NEW s \in Sers, NEW e \in Events, e.type \in ToolTypes
  PROVE  ProjectTool(s, e) \in Steps
<1>1. e.call \in Calls /\ e.val \in Values /\ s.tools \in [Calls -> Slots] /\ s.next \in Nat
  BY SerFields, EventFields DEF ToolTypes
<1>2. PICK at : at = s.tools[e.call]
  OBVIOUS
<1>3. at \in Slots
  BY <1>1, <1>2
<1>4. <<>> \in Seq(Wires) /\ \A w \in Wires : <<w>> \in Seq(Wires)
  OBVIOUS
<1>5. CASE e.type = "ToolCallStarted"
  <2>1. PICK q : q = [s EXCEPT !.tools[e.call] = s.next, !.next = s.next + 1, !.pending = e.call]
    OBVIOUS
  <2>2. q \in Sers
    BY <1>1, <2>1, SerFields DEF Sers
  <2>3. Wire("start", s.next, Block("tool", e.call, <<>>)) \in Wires
    <3>1. Block("tool", e.call, <<>>) \in Blocks
      BY <1>1, EmptyBlockType
    <3> QED
      BY <3>1, WireType, SerFields
  <2>4. ProjectTool(s, e) = Sends(q, <<Wire("start", s.next, Block("tool", e.call, <<>>))>>)
    BY <1>5, <2>1, Zenon DEF ProjectTool
  <2> QED
    BY <1>4, <2>2, <2>3, <2>4, StepType
<1>6. CASE e.type = "ToolCallArgumentsDelta"
  <2>1. Wire("delta", at, Block("tool", 0, e.val)) \in Wires
    BY <1>1, <1>3, BlockType, WireType
  <2>2. ProjectTool(s, e) =
          Sends(s, IF at = None THEN <<>> ELSE <<Wire("delta", at, Block("tool", 0, e.val))>>)
    BY <1>2, <1>6, Zenon DEF ProjectTool
  <2> QED
    BY <1>4, <2>1, <2>2, StepType
<1>7. CASE e.type = "ToolCallCompleted"
  <2>1. PICK q : q = [s EXCEPT !.tools[e.call] = None,
                               !.pending = IF s.pending = e.call THEN 0 ELSE s.pending]
    OBVIOUS
  <2>2. q \in Sers
    <3>1. None \in Slots
      BY DEF Slots
    <3>2. (IF s.pending = e.call THEN 0 ELSE s.pending) \in {0} \cup Calls
      BY SerFields
    <3> QED
      BY <1>1, <2>1, <3>1, <3>2, SerFields DEF Sers
  <2>3. Wire("stop", at, NoBlock) \in Wires
    <3>1. NoBlock \in Blocks
      BY EmptyBlockType
    <3> QED
      BY <1>3, <3>1, WireType
  <2>4. ProjectTool(s, e) = IF at = None THEN Sends(s, <<>>) ELSE Sends(q, <<Wire("stop", at, NoBlock)>>)
    BY <1>2, <1>7, <2>1, Zenon DEF ProjectTool
  <2> QED
    BY <1>4, <2>2, <2>3, <2>4, StepType
<1> QED
  BY <1>5, <1>6, <1>7 DEF ToolTypes

(* One step of the serializer.                                             *)
LEMMA ProjectType ==
  ASSUME NEW s \in Sers, NEW e \in Events
  PROVE  Project(s, e) \in Steps
<1>1. e.type \in {"GenerationStarted", "GenerationCompleted"} \cup ReasoningTypes
                 \cup TextTypes \cup ToolTypes \cup FailureTypes
  BY EventFields
<1>2. \A w \in Wires : <<w>> \in Seq(Wires)
  OBVIOUS
<1>3. NoBlock \in Blocks /\ 0 \in Slots
  BY EmptyBlockType
<1>4. CASE e.type = "GenerationStarted"
  <2>1. Project(s, e) = Sends(s, <<Wire("message_start", 0, NoBlock)>>)
    BY <1>4, Zenon DEF Project
  <2> QED
    BY <1>2, <1>3, <2>1, StepType, WireType
<1>5. CASE e.type \in ReasoningTypes
  <2>1. Project(s, e) = ProjectReasoning(s, e)
    BY <1>5 DEF Project, ReasoningTypes
  <2> QED
    BY <1>5, <2>1, ProjectReasoningType
<1>6. CASE e.type \in TextTypes
  <2>1. Project(s, e) = ProjectText(s, e)
    BY <1>6 DEF Project, TextTypes
  <2> QED
    BY <1>6, <2>1, ProjectTextType
<1>7. CASE e.type \in ToolTypes
  <2>1. Project(s, e) = ProjectTool(s, e)
    BY <1>7 DEF Project, ToolTypes
  <2> QED
    BY <1>7, <2>1, ProjectToolType
<1>8. CASE e.type \in FailureTypes \cup {"GenerationCompleted"}
  <2>1. PICK q : q = [s EXCEPT !.terminal = TRUE]
    OBVIOUS
  <2>2. q \in Sers
    BY <2>1 DEF Sers
  <2>3. \/ Project(s, e) = Sends(q, <<Wire("message_stop", 0, NoBlock)>>)
        \/ Project(s, e) = Sends(q, <<Wire("error", 0, NoBlock)>>)
    BY <1>8, <2>1 DEF Project, FailureTypes
  <2> QED
    BY <1>2, <1>3, <2>2, <2>3, StepType, WireType
<1> QED
  BY <1>1, <1>4, <1>5, <1>6, <1>7, <1>8

(* A deferred event is sent, or stays deferred.                            *)
DrainOne(acc, e) ==
  IF \/ acc.ser.terminal \/ acc.ser.deferred # <<>>
     \/ ~CanProjectWhileToolPending(acc.ser, e)
  THEN Sends([acc.ser EXCEPT !.deferred = Append(@, e)], acc.out)
  ELSE LET q == Project(acc.ser, e) IN Sends(q.ser, acc.out \o q.out)
Draining == [v \in Steps |-> [e \in Events |-> DrainOne(v, e)]]
DrainedOver(b, es) ==
  FoldLeft(LAMBDA acc, e :
             IF \/ acc.ser.terminal \/ acc.ser.deferred # <<>>
                \/ ~CanProjectWhileToolPending(acc.ser, e)
             THEN Sends([acc.ser EXCEPT !.deferred = Append(@, e)], acc.out)
             ELSE LET q == Project(acc.ser, e) IN Sends(q.ser, acc.out \o q.out),
           b, es)

(* What is sent in one step of draining does not depend on what was sent.  *)
LEMMA DrainOneType ==
  ASSUME NEW v \in Steps, NEW e \in Events
  PROVE  /\ DrainOne(v, e) \in Steps
         /\ DrainOne(Sends(v.ser, <<>>), e) \in Steps
         /\ DrainOne(v, e).ser = DrainOne(Sends(v.ser, <<>>), e).ser
         /\ DrainOne(v, e).out = v.out \o DrainOne(Sends(v.ser, <<>>), e).out
<1>1. /\ v.ser \in Sers /\ v.out \in Seq(Wires) /\ <<>> \in Seq(Wires)
      /\ Sends(v.ser, <<>>) \in Steps /\ Sends(v.ser, <<>>).ser = v.ser
      /\ Sends(v.ser, <<>>).out = <<>>
  <2>1. v.ser \in Sers /\ v.out \in Seq(Wires)
    BY DEF Steps
  <2> QED
    BY <2>1, SendsNothing
<1>2. PICK u : u = Sends(v.ser, <<>>)
  OBVIOUS
<1>3. CASE \/ v.ser.terminal \/ v.ser.deferred # <<>>
           \/ ~CanProjectWhileToolPending(v.ser, e)
  <2>1. PICK q : q = [v.ser EXCEPT !.deferred = Append(@, e)]
    OBVIOUS
  <2>2. q \in Sers
    <3>1. Append(v.ser.deferred, e) \in Seq(Events)
      BY <1>1, SerFields
    <3> QED
      BY <1>1, <2>1, <3>1 DEF Sers
  <2>3. DrainOne(v, e) = Sends(q, v.out)
    BY <1>3, <2>1, Zenon DEF DrainOne
  <2>4. DrainOne(u, e) = Sends(q, <<>>)
    BY <1>1, <1>2, <1>3, <2>1, Zenon DEF DrainOne
  <2>5. v.out \o <<>> = v.out
    BY <1>1, ConcatEmptySeq
  <2>6. /\ Sends(q, v.out) \in Steps /\ Sends(q, v.out).ser = q /\ Sends(q, v.out).out = v.out
        /\ Sends(q, <<>>) \in Steps /\ Sends(q, <<>>).ser = q /\ Sends(q, <<>>).out = <<>>
    BY <1>1, <2>2, StepType
  <2> QED
    BY <1>2, <2>3, <2>4, <2>5, <2>6
<1>4. CASE ~(\/ v.ser.terminal \/ v.ser.deferred # <<>>
             \/ ~CanProjectWhileToolPending(v.ser, e))
  <2>1. PICK q : q = Project(v.ser, e)
    OBVIOUS
  <2>2. q.ser \in Sers /\ q.out \in Seq(Wires)
    BY <1>1, <2>1, ProjectType DEF Steps
  <2>3. DrainOne(v, e) = Sends(q.ser, v.out \o q.out)
    BY <1>4, <2>1, Zenon DEF DrainOne
  <2>4. DrainOne(u, e) = Sends(q.ser, <<>> \o q.out)
    BY <1>1, <1>2, <1>4, <2>1, Zenon DEF DrainOne
  <2>5. <<>> \o q.out = q.out /\ v.out \o q.out \in Seq(Wires)
    BY <1>1, <2>2, ConcatEmptySeq
  <2>6. /\ Sends(q.ser, v.out \o q.out) \in Steps /\ Sends(q.ser, v.out \o q.out).ser = q.ser
        /\ Sends(q.ser, v.out \o q.out).out = v.out \o q.out
        /\ Sends(q.ser, q.out) \in Steps /\ Sends(q.ser, q.out).ser = q.ser
        /\ Sends(q.ser, q.out).out = q.out
    BY <2>2, <2>5, StepType
  <2> QED
    BY <1>2, <2>3, <2>4, <2>5, <2>6
<1> QED
  BY <1>3, <1>4

(* Draining is a fold.                                                      *)
LEMMA DrainedRuns ==
  ASSUME NEW b \in Steps, NEW es \in Seq(Events)
  PROVE  FoldsTo(Steps, b, Draining, es, DrainedOver(b, es))
<1> DEFINE V == Steps
           E == Events
           a == b
           g == Draining
           Eq(F) == F = [p \in SUBSET DOMAIN es |->
                          IF p = {} THEN a
                          ELSE DrainOne(F[p \ {Max(p)}], es[Max(p)])]
           C == CHOOSE F : Eq(F)
<1>1. a \in V
  OBVIOUS
<1>2. /\ g \in [V -> [E -> V]]
      /\ \A v \in V, x \in E : g[v][x] = DrainOne(v, x)
  <2>1. \A v \in V, x \in E : (DrainOne(v, x)) \in V
    BY DrainOneType
  <2> QED
    BY <2>1 DEF Draining
<1>3. DrainedOver(b, es) = C[DOMAIN es]
  BY Zenon DEF DrainedOver, DrainOne, FoldLeft, MapThenFoldSet, Max
<1>4. es \in Seq(E)
  OBVIOUS
<1> HIDE DEF V, E, a, g, C
<1>5. PICK F : FoldOver(F, V, E, a, g, es)
  BY <1>1, <1>2, <1>4, FoldOverExists
<1>6. Eq(F)
  <2>1. \A p \in SUBSET DOMAIN es :
           F[p] = IF p = {} THEN a ELSE DrainOne(F[p \ {Max(p)}], es[Max(p)])
    <3> SUFFICES ASSUME NEW p \in SUBSET DOMAIN es, p # {}
                 PROVE  F[p] = DrainOne(F[p \ {Max(p)}], es[Max(p)])
      BY <1>5, Zenon DEF FoldOver
    <3>1. /\ F[p \ {Max(p)}] \in V /\ es[Max(p)] \in E
          /\ F[p] = g[F[p \ {Max(p)}]][es[Max(p)]]
      BY <1>5, Zenon DEF FoldOver
    <3> QED
      BY <1>2, <3>1, Zenon
  <2>2. F = [p \in SUBSET DOMAIN es |-> F[p]]
    BY <1>5 DEF FoldOver
  <2> QED
    BY <2>1, <2>2, Zenon
<1>7. \A p \in SUBSET DOMAIN es :
        C[p] = IF p = {} THEN a ELSE DrainOne(C[p \ {Max(p)}], es[Max(p)])
  <2>1. Eq(C)
    BY <1>6, Zenon DEF C
  <2> QED
    BY <2>1, Zenon
<1>8. Folds(C, V, a, g, es)
  <2>1. C[{}] = a
    BY <1>7, Zenon
  <2>2. ASSUME NEW p \in SUBSET DOMAIN es, p # {}, C[p \ {Max(p)}] \in V
        PROVE  C[p] = g[C[p \ {Max(p)}]][es[Max(p)]]
    <3>1. es[Max(p)] \in E
      BY <1>5, <2>2, Zenon DEF FoldOver
    <3> QED
      BY <1>2, <1>7, <2>2, <3>1, Zenon
  <2> QED
    BY <2>1, <2>2, Zenon DEF Folds
<1>9. FoldsTo(V, a, g, es, DrainedOver(b, es))
  <2>1. PICK K, result : K = C /\ result = DrainedOver(b, es)
    OBVIOUS
  <2>2. Folds(K, V, a, g, es) /\ result = K[DOMAIN es]
    BY <1>3, <1>8, <2>1
  <2>3. FoldsTo(V, a, g, es, result)
    BY <1>1, <1>2, <1>4, <2>2, FoldRuns
  <2> QED
    BY <2>1, <2>3
<1> QED
  BY <1>9 DEF V, E, a, g

(* Induction over the events that are drained: G relates how many, the     *)
(* serializer and its client.                                              *)
LEMMA DrainInduction ==
  ASSUME NEW b \in Steps, NEW c \in Clients, NEW es \in Seq(Events), NEW G,
         <<0, b.ser, Received(c, b.out)>> \in G,
         \A i \in 1..Len(es), s \in Sers, d \in Clients :
           <<i - 1, s, d>> \in G =>
             <<i, DrainOne(Sends(s, <<>>), es[i]).ser,
               Received(d, DrainOne(Sends(s, <<>>), es[i]).out)>> \in G
  PROVE  /\ DrainedOver(b, es) \in Steps
         /\ <<Len(es), DrainedOver(b, es).ser, Received(c, DrainedOver(b, es).out)>> \in G
<1>1. PICK n, result : n = Len(es) /\ result = DrainedOver(b, es)
  OBVIOUS
<1>2. n \in Nat /\ \A i \in 1..n : es[i] \in Events
  BY <1>1
<1>3. FoldsTo(Steps, b, Draining, es, result)
  BY <1>1, DrainedRuns
<1>4. PICK up : IsRun(up, Steps, b, Draining, es, result)
  BY <1>3 DEF FoldsTo
<1>5. /\ up \in [0..n -> Steps] /\ up[0] = b /\ up[n] = result
      /\ \A i \in 1..n : up[i] = Draining[up[i - 1]][es[i]]
  BY <1>1, <1>4 DEF IsRun
<1> DEFINE T == {i \in 0..n : <<i, up[i].ser, Received(c, up[i].out)>> \in G}
<1>6. 0 \in T
  <2>1. <<0, up[0].ser, Received(c, up[0].out)>> \in G
    BY <1>5
  <2> QED
    BY <1>2, <2>1
<1>7. \A i \in 0..(n - 1) : i \in T => i + 1 \in T
  <2> SUFFICES ASSUME NEW i \in 0..(n - 1), <<i, up[i].ser, Received(c, up[i].out)>> \in G
               PROVE  i + 1 \in T
    OBVIOUS
  <2>1. PICK j, v, e : j = i + 1 /\ v = up[i] /\ e = es[i + 1]
    OBVIOUS
  <2>2. j \in 1..n /\ i = j - 1 /\ v \in Steps /\ e \in Events /\ j \in 0..n
    BY <1>2, <1>5, <2>1
  <2>3. up[j] = DrainOne(v, e)
    <3>1. up[j] = Draining[up[j - 1]][es[j]]
      BY <1>5, <2>2
    <3> QED
      BY <2>1, <2>2, <3>1 DEF Draining
  <2>4. v.ser \in Sers /\ v.out \in Seq(Wires)
    BY <2>2 DEF Steps
  <2>5. PICK q : q = DrainOne(Sends(v.ser, <<>>), e)
    OBVIOUS
  <2>6. q \in Steps /\ up[j].ser = q.ser /\ up[j].out = v.out \o q.out
    BY <2>2, <2>3, <2>5, DrainOneType
  <2>7. Received(c, v.out) \in Clients /\ Received(c, v.out \o q.out) = Received(Received(c, v.out), q.out)
    BY <2>4, <2>6, ReceivedConcat DEF Steps
  <2>8. <<j, q.ser, Received(Received(c, v.out), q.out)>> \in G
    BY <1>1, <2>1, <2>2, <2>4, <2>5, <2>7
  <2> QED
    BY <2>1, <2>2, <2>6, <2>7, <2>8
<1> HIDE DEF T
<1>8. n \in T
  <2>1. \A i \in 0..n : i \in T
    BY <1>2, <1>6, <1>7, SetInduction, Zenon
  <2> QED
    BY <1>2, <2>1
<1>9. n \in 0..n
  BY <1>2
<1> QED
  BY <1>1, <1>5, <1>8, <1>9 DEF T

(* What the client of an Anthropic stream does with each kind of piece.    *)
LEMMA ClientFields ==
  ASSUME NEW c \in Clients
  PROVE  /\ c.blocks \in Seq(Blocks) /\ c.open \in Slots /\ c.signed \in SUBSET Slots
         /\ c.done \in {"no", "stop", "error"} /\ c.ok \in BOOLEAN
<1> QED
  BY DEF Clients

(* A block starts.                                                         *)
LEMMA ClientStarts ==
  ASSUME NEW c \in Clients, NEW i, NEW b, NEW d, d = Receive(c, Wire("start", i, b))
  PROVE  /\ d.ok = (c.ok /\ c.open = None /\ i = Len(c.blocks) /\ c.done = "no")
         /\ d.done = c.done /\ d.open = i /\ d.signed = c.signed
         /\ d.blocks = Append(c.blocks, b)
<1>1. PICK w : w = Wire("start", i, b)
  OBVIOUS
<1>2. w.type = "start" /\ w.index = i /\ w.block = b
  BY <1>1 DEF Wire
<1>3. d = [c EXCEPT !.ok = c.ok /\ c.open = None /\ w.index = Len(c.blocks) /\ c.done = "no",
                    !.blocks = Append(c.blocks, w.block), !.open = w.index]
  BY <1>1, <1>2, Zenon DEF Receive
<1> QED
  BY <1>2, <1>3 DEF Clients

(* The open block goes on.                                                 *)
Continued(q, i, v) ==
  [j \in DOMAIN q |-> IF j = i THEN [q[j] EXCEPT !.val = q[j].val \o v] ELSE q[j]]

LEMMA ClientGoesOn ==
  ASSUME NEW c \in Clients, NEW b, b.kind # "signature",
         NEW d, d = Receive(c, Wire("delta", c.open, b))
  PROVE  /\ d.ok = c.ok /\ d.done = c.done /\ d.open = c.open /\ d.signed = c.signed
         /\ d.blocks = Continued(c.blocks, c.open + 1, b.val)
<1>1. PICK w : w = Wire("delta", c.open, b)
  OBVIOUS
<1>2. w.type = "delta" /\ w.index = c.open /\ w.block = b
  BY <1>1 DEF Wire
<1>3. d = [c EXCEPT !.blocks[c.open + 1].val = @ \o w.block.val]
  BY <1>1, <1>2, Zenon DEF Receive
<1>4. PICK q : q = c.blocks
  OBVIOUS
<1>5. /\ d.ok = c.ok /\ d.done = c.done /\ d.open = c.open /\ d.signed = c.signed
      /\ d.blocks = [q EXCEPT ![c.open + 1].val = @ \o b.val]
  BY <1>2, <1>3, <1>4 DEF Clients
<1>6. q = [j \in DOMAIN q |-> q[j]]
  BY <1>4 DEF Clients
<1>7. [q EXCEPT ![c.open + 1].val = @ \o b.val] = Continued(q, c.open + 1, b.val)
  BY <1>6 DEF Continued
<1> QED
  BY <1>4, <1>5, <1>7

LEMMA ContinuedType ==
  ASSUME NEW q \in Seq(Blocks), NEW i, NEW v \in Values
  PROVE  /\ Continued(q, i, v) \in Seq(Blocks) /\ Len(Continued(q, i, v)) = Len(q)
         /\ \A j \in 1..Len(q) :
              /\ q[j] \in Blocks
              /\ Continued(q, i, v)[j].kind = q[j].kind /\ Continued(q, i, v)[j].call = q[j].call
              /\ Continued(q, i, v)[j].val = IF j = i THEN q[j].val \o v ELSE q[j].val
<1>1. PICK n \in Nat : n = Len(q) /\ DOMAIN q = 1..n /\ \A j \in 1..n : q[j] \in Blocks
  OBVIOUS
<1>2. ASSUME NEW j \in 1..n
      PROVE  /\ [q[j] EXCEPT !.val = q[j].val \o v] \in Blocks
             /\ [q[j] EXCEPT !.val = q[j].val \o v].kind = q[j].kind
             /\ [q[j] EXCEPT !.val = q[j].val \o v].call = q[j].call
             /\ [q[j] EXCEPT !.val = q[j].val \o v].val = q[j].val \o v
  <2>1. q[j] \in Blocks
    BY <1>1
  <2>2. q[j].val \o v \in Values
    BY <2>1 DEF Blocks, Values
  <2> QED
    BY <2>1, <2>2 DEF Blocks
<1>3. PICK r : r = Continued(q, i, v)
  OBVIOUS
<1>4. DOMAIN r = 1..n /\ \A j \in 1..n : r[j] = IF j = i THEN [q[j] EXCEPT !.val = q[j].val \o v] ELSE q[j]
  BY <1>1, <1>3 DEF Continued
<1>5. r \in [1..n -> Blocks]
  <2>1. r = [j \in 1..n |-> r[j]]
    BY <1>3, <1>4 DEF Continued
  <2>2. \A j \in 1..n : r[j] \in Blocks
    BY <1>1, <1>2, <1>4
  <2> QED
    BY <2>1, <2>2
<1>6. r \in Seq(Blocks) /\ Len(r) = n
  BY <1>5
<1>7. \A j \in 1..n : /\ r[j].kind = q[j].kind /\ r[j].call = q[j].call
                      /\ r[j].val = IF j = i THEN q[j].val \o v ELSE q[j].val
  BY <1>2, <1>4
<1> QED
  BY <1>1, <1>3, <1>6, <1>7

(* The open block is signed, or stops.                                     *)
LEMMA ClientSigns ==
  ASSUME NEW c \in Clients, NEW b, b.kind = "signature",
         NEW d, d = Receive(c, Wire("delta", c.open, b))
  PROVE  /\ d.ok = c.ok /\ d.done = c.done /\ d.open = c.open /\ d.blocks = c.blocks
         /\ d.signed = c.signed \cup {c.open}
<1>1. PICK w : w = Wire("delta", c.open, b)
  OBVIOUS
<1>2. w.type = "delta" /\ w.index = c.open /\ w.block = b
  BY <1>1 DEF Wire
<1>3. d = [c EXCEPT !.signed = @ \cup {c.open}]
  BY <1>1, <1>2, Zenon DEF Receive
<1> QED
  BY <1>3 DEF Clients

LEMMA ClientStops ==
  ASSUME NEW c \in Clients, NEW i, NEW b, NEW d, d = Receive(c, Wire("stop", i, b))
  PROVE  /\ d.ok = (c.ok /\ c.open = i) /\ d.done = c.done /\ d.open = None
         /\ d.blocks = c.blocks /\ d.signed = c.signed
<1>1. PICK w : w = Wire("stop", i, b)
  OBVIOUS
<1>2. w.type = "stop" /\ w.index = i
  BY <1>1 DEF Wire
<1>3. d = [c EXCEPT !.ok = c.ok /\ c.open = w.index, !.open = None]
  BY <1>1, <1>2, Zenon DEF Receive
<1> QED
  BY <1>2, <1>3 DEF Clients

(* The message starts, stops, fails.                                       *)
LEMMA ClientOpens ==
  ASSUME NEW c \in Clients, NEW i, NEW b, NEW d, d = Receive(c, Wire("message_start", i, b))
  PROVE  /\ d.ok = (c.ok /\ c.done = "no" /\ c.blocks = <<>>) /\ d.done = c.done
         /\ d.open = c.open /\ d.blocks = c.blocks /\ d.signed = c.signed
<1>1. PICK w : w = Wire("message_start", i, b)
  OBVIOUS
<1>2. w.type = "message_start"
  BY <1>1 DEF Wire
<1>3. d = [c EXCEPT !.ok = c.ok /\ c.blocks = <<>> /\ c.done = "no"]
  BY <1>1, <1>2, Zenon DEF Receive
<1> QED
  BY <1>3 DEF Clients

LEMMA ClientCloses ==
  ASSUME NEW c \in Clients, NEW i, NEW b, NEW d, d = Receive(c, Wire("message_stop", i, b))
  PROVE  /\ d.ok = (c.ok /\ c.done = "no" /\ c.open = None) /\ d.done = "stop"
         /\ d.open = c.open /\ d.blocks = c.blocks /\ d.signed = c.signed
<1>1. PICK w : w = Wire("message_stop", i, b)
  OBVIOUS
<1>2. w.type = "message_stop"
  BY <1>1 DEF Wire
<1>3. d = [c EXCEPT !.ok = c.ok /\ c.open = None /\ c.done = "no", !.done = "stop"]
  BY <1>1, <1>2, Zenon DEF Receive
<1> QED
  BY <1>3 DEF Clients

LEMMA ClientFails ==
  ASSUME NEW c \in Clients, NEW i, NEW b, NEW d, d = Receive(c, Wire("error", i, b))
  PROVE  /\ d.ok = (c.ok /\ c.done = "no") /\ d.done = "error"
         /\ d.open = c.open /\ d.blocks = c.blocks /\ d.signed = c.signed
<1>1. PICK w : w = Wire("error", i, b)
  OBVIOUS
<1>2. w.type = "error"
  BY <1>1 DEF Wire
<1>3. d = [c EXCEPT !.ok = c.ok /\ c.done = "no", !.done = "error"]
  BY <1>1, <1>2, Zenon DEF Receive
<1> QED
  BY <1>3 DEF Clients


(* Client c, serializer s and event e: what is sent and how it is read.    *)
Fed(s, c, e, q, d) ==
  /\ s \in Sers /\ c \in Clients /\ e \in Events
  /\ q = Project(s, e) /\ d = Received(c, q.out)

LEMMA FedTypes ==
  ASSUME NEW s, NEW c, NEW e, NEW q, NEW d, Fed(s, c, e, q, d)
  PROVE  s \in Sers /\ c \in Clients /\ e \in Events /\ q \in Steps /\ q.ser \in Sers /\ d \in Clients
<1>1. s \in Sers /\ c \in Clients /\ e \in Events /\ q = Project(s, e) /\ d = Received(c, q.out)
  BY DEF Fed
<1>2. q \in Steps /\ q.ser \in Sers /\ q.out \in Seq(Wires)
  BY <1>1, ProjectType DEF Steps
<1> QED
  BY <1>1, <1>2, ReceivedType

(* A channel has the next block.                                           *)
ReasoningNext(s) == [s EXCEPT !.reasoning = s.next, !.next = s.next + 1]
TextNext(s) == [s EXCEPT !.text = s.next, !.next = s.next + 1]
ToolNext(s, k) == [s EXCEPT !.tools[k] = s.next, !.next = s.next + 1, !.pending = k]

LEMMA NextFields ==
  ASSUME NEW s \in Sers
  PROVE  /\ ReasoningNext(s).reasoning = s.next /\ ReasoningNext(s).text = s.text
         /\ ReasoningNext(s).next = s.next + 1 /\ ReasoningNext(s).tools = s.tools
         /\ ReasoningNext(s).pending = s.pending /\ ReasoningNext(s).deferred = s.deferred
         /\ ReasoningNext(s).terminal = s.terminal
         /\ TextNext(s).text = s.next /\ TextNext(s).reasoning = s.reasoning
         /\ TextNext(s).next = s.next + 1 /\ TextNext(s).tools = s.tools
         /\ TextNext(s).pending = s.pending /\ TextNext(s).deferred = s.deferred
         /\ TextNext(s).terminal = s.terminal
<1> QED
  BY DEF Sers, ReasoningNext, TextNext

LEMMA ToolNextFields ==
  ASSUME NEW s \in Sers, NEW k \in Calls
  PROVE  /\ ToolNext(s, k).text = s.text /\ ToolNext(s, k).reasoning = s.reasoning
         /\ ToolNext(s, k).next = s.next + 1 /\ ToolNext(s, k).tools = [s.tools EXCEPT ![k] = s.next]
         /\ ToolNext(s, k).pending = k /\ ToolNext(s, k).deferred = s.deferred
         /\ ToolNext(s, k).terminal = s.terminal
<1> QED
  BY DEF Sers, ToolNext

(* A channel starts.                                                       *)
LEMMA ReasoningStarts ==
  ASSUME NEW s, NEW c, NEW e, NEW q, NEW d, Fed(s, c, e, q, d), e.type = "ReasoningStarted",
         s.next = Len(c.blocks), c.open = None, c.done = "no"
  PROVE  /\ q.ser = ReasoningNext(s)
         /\ d.ok = c.ok /\ d.done = c.done /\ d.open = s.next /\ d.signed = c.signed
         /\ d.blocks = Append(c.blocks, Block("thinking", 0, <<>>))
<1>1. s \in Sers /\ c \in Clients /\ e \in Events /\ q = Project(s, e) /\ d = Received(c, q.out)
  BY DEF Fed
<1>2. q = StartBlock(s, "reasoning", "thinking")
  BY <1>1 DEF Project, ProjectReasoning
<1>3. PICK b : b = Block("thinking", 0, <<>>)
  OBVIOUS
<1>4. PICK w : w = Wire("start", s.next, b)
  OBVIOUS
<1>5. w \in Wires
  BY <1>1, <1>3, <1>4, EmptyBlockType, WireType, SerFields
<1>6. q.ser = ReasoningNext(s) /\ q.out = <<w>>
  BY <1>1, <1>2, <1>3, <1>4, StartReasoningType DEF ReasoningNext
<1>7. d = Receive(c, w)
  BY <1>1, <1>5, <1>6, ReceivedOne
<1>8. /\ d.ok = (c.ok /\ c.open = None /\ s.next = Len(c.blocks) /\ c.done = "no")
      /\ d.done = c.done /\ d.open = s.next /\ d.signed = c.signed
      /\ d.blocks = Append(c.blocks, b)
  <2>1. d = Receive(c, Wire("start", s.next, b))
    BY <1>4, <1>7
  <2> QED
    BY <1>1, <2>1, ClientStarts
<1>9. c.ok \in BOOLEAN
  BY <1>1, ClientFields
<1> QED
  BY <1>3, <1>6, <1>8, <1>9

LEMMA TextStarts ==
  ASSUME NEW s, NEW c, NEW e, NEW q, NEW d, Fed(s, c, e, q, d), e.type = "TextStarted",
         s.next = Len(c.blocks), c.open = None, c.done = "no"
  PROVE  /\ q.ser = TextNext(s)
         /\ d.ok = c.ok /\ d.done = c.done /\ d.open = s.next /\ d.signed = c.signed
         /\ d.blocks = Append(c.blocks, Block("text", 0, <<>>))
<1>1. s \in Sers /\ c \in Clients /\ e \in Events /\ q = Project(s, e) /\ d = Received(c, q.out)
  BY DEF Fed
<1>2. q = StartBlock(s, "text", "text")
  BY <1>1 DEF Project, ProjectText
<1>3. PICK b : b = Block("text", 0, <<>>)
  OBVIOUS
<1>4. PICK w : w = Wire("start", s.next, b)
  OBVIOUS
<1>5. w \in Wires
  BY <1>1, <1>3, <1>4, EmptyBlockType, WireType, SerFields
<1>6. q.ser = TextNext(s) /\ q.out = <<w>>
  BY <1>1, <1>2, <1>3, <1>4, StartTextType DEF TextNext
<1>7. d = Receive(c, w)
  BY <1>1, <1>5, <1>6, ReceivedOne
<1>8. /\ d.ok = (c.ok /\ c.open = None /\ s.next = Len(c.blocks) /\ c.done = "no")
      /\ d.done = c.done /\ d.open = s.next /\ d.signed = c.signed
      /\ d.blocks = Append(c.blocks, b)
  <2>1. d = Receive(c, Wire("start", s.next, b))
    BY <1>4, <1>7
  <2> QED
    BY <1>1, <2>1, ClientStarts
<1>9. c.ok \in BOOLEAN
  BY <1>1, ClientFields
<1> QED
  BY <1>3, <1>6, <1>8, <1>9

(* It goes on.                                                             *)
LEMMA ReasoningGoesOnIn ==
  ASSUME NEW s, NEW c, NEW e, NEW q, NEW d, Fed(s, c, e, q, d), e.type = "ReasoningDelta",
         s.reasoning # None, c.open = s.reasoning
  PROVE  /\ q.ser = s /\ d.ok = c.ok /\ d.done = c.done /\ d.open = c.open /\ d.signed = c.signed
         /\ d.blocks = IF omit THEN c.blocks ELSE Continued(c.blocks, c.open + 1, e.val)
<1>1. s \in Sers /\ c \in Clients /\ e \in Events /\ q = Project(s, e) /\ d = Received(c, q.out)
  BY DEF Fed
<1>2. EnsureBlock(s, "reasoning", "thinking") = Sends(s, <<>>)
  BY DEF EnsureBlock
<1>3. PICK b : b = Block("thinking", 0, e.val)
  OBVIOUS
<1>4. PICK w : w = Wire("delta", c.open, b)
  OBVIOUS
<1>5. w \in Wires /\ b.kind = "thinking" /\ b.val = e.val
  <2>1. e.val \in Values /\ c.open \in Slots
    BY <1>1, EventFields, ClientFields
  <2> QED
    BY <1>3, <1>4, <2>1, BlockType, WireType DEF Block
<1>6. q = Sends(s, <<>> \o IF omit THEN <<>> ELSE <<w>>)
  <2>1. q = ProjectReasoning(s, e)
    BY <1>1 DEF Project
  <2>2. Sends(s, <<>>).ser = s /\ Sends(s, <<>>).out = <<>>
    BY DEF Sends
  <2> QED
    BY <1>2, <1>3, <1>4, <2>1, <2>2, Zenon DEF ProjectReasoning
<1>7. q.ser = s /\ q.out = IF omit THEN <<>> ELSE <<w>>
  <2>1. <<>> \in Seq(Wires) /\ <<w>> \in Seq(Wires)
    BY <1>5
  <2>2. <<>> \o <<>> = <<>> /\ <<>> \o <<w>> = <<w>>
    BY <2>1, ConcatEmptySeq
  <2> QED
    BY <1>1, <1>6, <2>2 DEF Sends
<1>8. d = IF omit THEN c ELSE Receive(c, w)
  BY <1>1, <1>5, <1>7, ReceivedFew
<1>9. CASE omit
  BY <1>7, <1>8, <1>9
<1>10. CASE ~omit
  <2>1. d = Receive(c, Wire("delta", c.open, b))
    BY <1>4, <1>8, <1>10
  <2> QED
    BY <1>1, <1>5, <1>7, <1>10, <2>1, ClientGoesOn
<1> QED
  BY <1>9, <1>10

LEMMA TextGoesOnIn ==
  ASSUME NEW s, NEW c, NEW e, NEW q, NEW d, Fed(s, c, e, q, d), e.type = "TextDelta",
         s.text # None, c.open = s.text
  PROVE  /\ q.ser = s /\ d.ok = c.ok /\ d.done = c.done /\ d.open = c.open /\ d.signed = c.signed
         /\ d.blocks = Continued(c.blocks, c.open + 1, e.val)
<1>1. s \in Sers /\ c \in Clients /\ e \in Events /\ q = Project(s, e) /\ d = Received(c, q.out)
  BY DEF Fed
<1>2. EnsureBlock(s, "text", "text") = Sends(s, <<>>)
  BY DEF EnsureBlock
<1>3. PICK b : b = Block("text", 0, e.val)
  OBVIOUS
<1>4. PICK w : w = Wire("delta", c.open, b)
  OBVIOUS
<1>5. w \in Wires /\ b.kind = "text" /\ b.val = e.val
  <2>1. e.val \in Values /\ c.open \in Slots
    BY <1>1, EventFields, ClientFields
  <2> QED
    BY <1>3, <1>4, <2>1, BlockType, WireType DEF Block
<1>6. q = Sends(s, Append(<<>>, w))
  <2>1. q = ProjectText(s, e)
    BY <1>1 DEF Project
  <2>2. Sends(s, <<>>).ser = s /\ Sends(s, <<>>).out = <<>>
    BY DEF Sends
  <2> QED
    BY <1>2, <1>3, <1>4, <2>1, <2>2, Zenon DEF ProjectText
<1>7. q.ser = s /\ q.out = <<w>>
  BY <1>6 DEF Sends
<1>8. d = Receive(c, Wire("delta", c.open, b))
  BY <1>1, <1>4, <1>5, <1>7, ReceivedOne
<1> QED
  BY <1>1, <1>5, <1>7, <1>8, ClientGoesOn

(* It stops.                                                               *)
LEMMA ReasoningStops ==
  ASSUME NEW s, NEW c, NEW e, NEW q, NEW d, Fed(s, c, e, q, d), e.type = "ReasoningCompleted",
         s.reasoning # None, c.open = s.reasoning
  PROVE  /\ q.ser = s /\ d.ok = c.ok /\ d.done = c.done /\ d.open = None /\ d.blocks = c.blocks
         /\ d.signed = c.signed \cup {c.open}
<1>1. s \in Sers /\ c \in Clients /\ e \in Events /\ q = Project(s, e) /\ d = Received(c, q.out)
  BY DEF Fed
<1>2. EnsureBlock(s, "reasoning", "thinking") = Sends(s, <<>>)
  BY DEF EnsureBlock
<1>3. PICK b : b = Block("signature", 0, <<>>)
  OBVIOUS
<1>4. PICK w, x : w = Wire("delta", c.open, b) /\ x = Wire("stop", c.open, NoBlock)
  OBVIOUS
<1>5. w \in Wires /\ x \in Wires /\ b.kind = "signature"
  <2>1. c.open \in Slots /\ <<>> \in Values
    BY <1>1, ClientFields DEF Values
  <2>2. b \in Blocks /\ NoBlock \in Blocks
    BY <1>3, <2>1, BlockType DEF NoBlock
  <2> QED
    BY <1>3, <1>4, <2>1, <2>2, WireType DEF Block
<1>6. q = Sends(s, <<>> \o <<w, x>>)
  <2>1. q = ProjectReasoning(s, e)
    BY <1>1 DEF Project
  <2>2. Sends(s, <<>>).ser = s /\ Sends(s, <<>>).out = <<>>
    BY DEF Sends
  <2> QED
    BY <1>2, <1>3, <1>4, <2>1, <2>2, Zenon DEF ProjectReasoning
<1>7. q.ser = s /\ q.out = <<w, x>>
  <2>1. <<w, x>> \in Seq(Wires)
    BY <1>5
  <2>2. <<>> \o <<w, x>> = <<w, x>>
    BY <2>1, ConcatEmptySeq
  <2> QED
    BY <1>6, <2>2 DEF Sends
<1>8. PICK f : f = Receive(c, w)
  OBVIOUS
<1>9. d = Receive(f, x)
  <2>1. Received(c, <<w, x>>) = Receive(Receive(c, w), x)
    BY <1>1, <1>5, ReceivedFew
  <2> QED
    BY <1>1, <1>7, <1>8, <2>1
<1>10. f \in Clients
  BY <1>1, <1>5, <1>8, ReceiveType
<1>11. /\ f.ok = c.ok /\ f.done = c.done /\ f.open = c.open /\ f.blocks = c.blocks
       /\ f.signed = c.signed \cup {c.open}
  BY <1>1, <1>4, <1>5, <1>8, ClientSigns
<1>12. /\ d.ok = (f.ok /\ f.open = c.open) /\ d.done = f.done /\ d.open = None
       /\ d.blocks = f.blocks /\ d.signed = f.signed
  BY <1>4, <1>9, <1>10, ClientStops
<1>13. c.ok \in BOOLEAN
  BY <1>1, ClientFields
<1> QED
  BY <1>7, <1>11, <1>12, <1>13

LEMMA TextStops ==
  ASSUME NEW s, NEW c, NEW e, NEW q, NEW d, Fed(s, c, e, q, d), e.type = "TextCompleted",
         s.text # None, c.open = s.text
  PROVE  /\ q.ser = s /\ d.ok = c.ok /\ d.done = c.done /\ d.open = None /\ d.blocks = c.blocks
         /\ d.signed = c.signed
<1>1. s \in Sers /\ c \in Clients /\ e \in Events /\ q = Project(s, e) /\ d = Received(c, q.out)
  BY DEF Fed
<1>2. EnsureBlock(s, "text", "text") = Sends(s, <<>>)
  BY DEF EnsureBlock
<1>4. PICK x : x = Wire("stop", c.open, NoBlock)
  OBVIOUS
<1>5. x \in Wires
  <2>1. c.open \in Slots /\ <<>> \in Values
    BY <1>1, ClientFields DEF Values
  <2>2. NoBlock \in Blocks
    BY <2>1, BlockType DEF NoBlock
  <2> QED
    BY <1>4, <2>1, <2>2, WireType
<1>6. q = Sends(s, Append(<<>>, x))
  <2>1. q = ProjectText(s, e)
    BY <1>1 DEF Project
  <2>2. Sends(s, <<>>).ser = s /\ Sends(s, <<>>).out = <<>>
    BY DEF Sends
  <2> QED
    BY <1>2, <1>4, <2>1, <2>2, Zenon DEF ProjectText
<1>7. q.ser = s /\ q.out = <<x>>
  BY <1>6 DEF Sends
<1>8. d = Receive(c, Wire("stop", c.open, NoBlock))
  BY <1>1, <1>4, <1>5, <1>7, ReceivedOne
<1>9. /\ d.ok = (c.ok /\ c.open = c.open) /\ d.done = c.done /\ d.open = None
      /\ d.blocks = c.blocks /\ d.signed = c.signed
  BY <1>1, <1>8, ClientStops
<1>10. c.ok \in BOOLEAN
  BY <1>1, ClientFields
<1> QED
  BY <1>7, <1>9, <1>10

(* A call starts.                                                          *)
LEMMA ToolStarts ==
  ASSUME NEW s, NEW c, NEW e, NEW q, NEW d, Fed(s, c, e, q, d), e.type = "ToolCallStarted",
         s.next = Len(c.blocks), c.open = None, c.done = "no"
  PROVE  /\ q.ser = ToolNext(s, e.call)
         /\ d.ok = c.ok /\ d.done = c.done /\ d.open = s.next /\ d.signed = c.signed
         /\ d.blocks = Append(c.blocks, Block("tool", e.call, <<>>))
<1>1. s \in Sers /\ c \in Clients /\ e \in Events /\ q = Project(s, e) /\ d = Received(c, q.out)
  BY DEF Fed
<1>2. e.call \in Calls
  BY <1>1, EventFields DEF ToolTypes
<1>3. PICK b, w, r :
        /\ b = Block("tool", e.call, <<>>) /\ w = Wire("start", s.next, b)
        /\ r = ToolNext(s, e.call)
  OBVIOUS
<1>4. w \in Wires
  BY <1>1, <1>2, <1>3, EmptyBlockType, WireType, SerFields
<1>5. q = Sends(r, <<w>>)
  <2>1. q = ProjectTool(s, e)
    BY <1>1 DEF Project
  <2> QED
    BY <1>3, <2>1, Zenon DEF ProjectTool, ToolNext
<1>6. q.ser = r /\ q.out = <<w>>
  BY <1>5 DEF Sends
<1>7. d = Receive(c, w)
  BY <1>1, <1>4, <1>6, ReceivedOne
<1>8. /\ d.ok = (c.ok /\ c.open = None /\ s.next = Len(c.blocks) /\ c.done = "no")
      /\ d.done = c.done /\ d.open = s.next /\ d.signed = c.signed
      /\ d.blocks = Append(c.blocks, b)
  <2>1. d = Receive(c, Wire("start", s.next, b))
    BY <1>3, <1>7
  <2> QED
    BY <1>1, <2>1, ClientStarts
<1>9. c.ok \in BOOLEAN
  BY <1>1, ClientFields
<1> QED
  BY <1>3, <1>6, <1>8, <1>9

(* Its arguments.                                                          *)
LEMMA ToolGoesOn ==
  ASSUME NEW s, NEW c, NEW e, NEW q, NEW d, Fed(s, c, e, q, d),
         e.type = "ToolCallArgumentsDelta", s.tools[e.call] # None, c.open = s.tools[e.call]
  PROVE  /\ q.ser = s /\ d.ok = c.ok /\ d.done = c.done /\ d.open = c.open /\ d.signed = c.signed
         /\ d.blocks = Continued(c.blocks, c.open + 1, e.val)
<1>1. s \in Sers /\ c \in Clients /\ e \in Events /\ q = Project(s, e) /\ d = Received(c, q.out)
  BY DEF Fed
<1>2. PICK b, w : b = Block("tool", 0, e.val) /\ w = Wire("delta", c.open, b)
  OBVIOUS
<1>3. w \in Wires /\ b.kind = "tool" /\ b.val = e.val
  <2>1. e.val \in Values /\ c.open \in Slots
    BY <1>1, EventFields, ClientFields
  <2> QED
    BY <1>2, <2>1, BlockType, WireType DEF Block
<1>4. q = Sends(s, <<w>>)
  <2>1. q = ProjectTool(s, e)
    BY <1>1 DEF Project
  <2> QED
    BY <1>2, <2>1, Zenon DEF ProjectTool
<1>5. q.ser = s /\ q.out = <<w>>
  BY <1>4 DEF Sends
<1>6. d = Receive(c, Wire("delta", c.open, b))
  BY <1>1, <1>2, <1>3, <1>5, ReceivedOne
<1> QED
  BY <1>1, <1>3, <1>5, <1>6, ClientGoesOn

(* It stops.                                                               *)
ToolDone(s, k) ==
  [s EXCEPT !.tools[k] = None, !.pending = IF s.pending = k THEN 0 ELSE s.pending]

LEMMA ToolDoneFields ==
  ASSUME NEW s \in Sers, NEW k \in Calls
  PROVE  /\ ToolDone(s, k).text = s.text /\ ToolDone(s, k).reasoning = s.reasoning
         /\ ToolDone(s, k).next = s.next /\ ToolDone(s, k).tools = [s.tools EXCEPT ![k] = None]
         /\ ToolDone(s, k).pending = IF s.pending = k THEN 0 ELSE s.pending
         /\ ToolDone(s, k).deferred = s.deferred /\ ToolDone(s, k).terminal = s.terminal
<1> QED
  BY DEF Sers, ToolDone

LEMMA ToolStops ==
  ASSUME NEW s, NEW c, NEW e, NEW q, NEW d, Fed(s, c, e, q, d),
         e.type = "ToolCallCompleted", s.tools[e.call] # None, c.open = s.tools[e.call]
  PROVE  /\ q.ser = ToolDone(s, e.call)
         /\ d.ok = c.ok /\ d.done = c.done /\ d.open = None /\ d.blocks = c.blocks
         /\ d.signed = c.signed
<1>1. s \in Sers /\ c \in Clients /\ e \in Events /\ q = Project(s, e) /\ d = Received(c, q.out)
  BY DEF Fed
<1>2. PICK w, r : /\ w = Wire("stop", c.open, NoBlock)
                  /\ r = ToolDone(s, e.call)
  OBVIOUS
<1>3. w \in Wires
  BY <1>1, <1>2, EmptyBlockType, ClientFields, WireType
<1>4. q = Sends(r, <<w>>)
  <2>1. q = ProjectTool(s, e)
    BY <1>1 DEF Project
  <2> QED
    BY <1>2, <2>1, Zenon DEF ProjectTool, ToolDone
<1>5. q.ser = r /\ q.out = <<w>>
  BY <1>4 DEF Sends
<1>6. d = Receive(c, Wire("stop", c.open, NoBlock))
  BY <1>1, <1>2, <1>3, <1>5, ReceivedOne
<1>7. /\ d.ok = (c.ok /\ c.open = c.open) /\ d.done = c.done /\ d.open = None
      /\ d.blocks = c.blocks /\ d.signed = c.signed
  BY <1>1, <1>6, ClientStops
<1>8. c.ok \in BOOLEAN
  BY <1>1, ClientFields
<1> QED
  BY <1>2, <1>5, <1>7, <1>8

(* Nothing is sent for a call that has no open block.                      *)
LEMMA ToolIgnored ==
  ASSUME NEW s, NEW c, NEW e, NEW q, NEW d, Fed(s, c, e, q, d),
         e.type \in {"ToolCallArgumentsDelta", "ToolCallCompleted"}, s.tools[e.call] = None
  PROVE  q.ser = s /\ d = c
<1>1. s \in Sers /\ c \in Clients /\ e \in Events /\ q = Project(s, e) /\ d = Received(c, q.out)
  BY DEF Fed
<1>2. q = Sends(s, <<>>)
  <2>1. q = ProjectTool(s, e)
    BY <1>1 DEF Project
  <2> QED
    BY <2>1 DEF ProjectTool
<1>3. q.ser = s /\ q.out = <<>>
  BY <1>2 DEF Sends
<1> QED
  BY <1>1, <1>3, ReceivedEmpty

(* The message begins and ends.                                            *)
Ended(s) == [s EXCEPT !.terminal = TRUE]

LEMMA EndedFields ==
  ASSUME NEW s \in Sers
  PROVE  /\ Ended(s).terminal = TRUE /\ Ended(s).deferred = s.deferred
         /\ Ended(s).pending = s.pending
<1> QED
  BY DEF Sers, Ended

LEMMA MessageStarts ==
  ASSUME NEW s, NEW c, NEW e, NEW q, NEW d, Fed(s, c, e, q, d), e.type = "GenerationStarted",
         c.done = "no", c.blocks = <<>>
  PROVE  /\ q.ser = s /\ d.ok = c.ok
         /\ d.done = c.done /\ d.open = c.open /\ d.blocks = c.blocks /\ d.signed = c.signed
<1>1. s \in Sers /\ c \in Clients /\ e \in Events /\ q = Project(s, e) /\ d = Received(c, q.out)
  BY DEF Fed
<1>2. PICK w : w = Wire("message_start", 0, NoBlock)
  OBVIOUS
<1>3. w \in Wires
  BY <1>2, EmptyBlockType, WireType
<1>4. q.ser = s /\ q.out = <<w>>
  BY <1>1, <1>2 DEF Project, Sends
<1>5. d = Receive(c, Wire("message_start", 0, NoBlock))
  BY <1>1, <1>2, <1>3, <1>4, ReceivedOne
<1>6. c.ok \in BOOLEAN
  BY <1>1, ClientFields
<1> QED
  BY <1>1, <1>4, <1>5, <1>6, ClientOpens

LEMMA MessageStops ==
  ASSUME NEW s, NEW c, NEW e, NEW q, NEW d, Fed(s, c, e, q, d), e.type = "GenerationCompleted",
         c.done = "no", c.open = None
  PROVE  /\ q.ser = Ended(s)
         /\ d.ok = c.ok
         /\ d.done = "stop" /\ d.open = c.open /\ d.blocks = c.blocks /\ d.signed = c.signed
<1>1. s \in Sers /\ c \in Clients /\ e \in Events /\ q = Project(s, e) /\ d = Received(c, q.out)
  BY DEF Fed
<1>2. PICK w : w = Wire("message_stop", 0, NoBlock)
  OBVIOUS
<1>3. w \in Wires
  BY <1>2, EmptyBlockType, WireType
<1>4. q.ser = Ended(s) /\ q.out = <<w>>
  BY <1>1, <1>2 DEF Project, Sends, Ended
<1>5. d = Receive(c, Wire("message_stop", 0, NoBlock))
  BY <1>1, <1>2, <1>3, <1>4, ReceivedOne
<1>6. c.ok \in BOOLEAN
  BY <1>1, ClientFields
<1> QED
  BY <1>1, <1>4, <1>5, <1>6, ClientCloses

LEMMA MessageFails ==
  ASSUME NEW s, NEW c, NEW e, NEW q, NEW d, Fed(s, c, e, q, d), e.type \in FailureTypes,
         c.done = "no"
  PROVE  /\ q.ser = Ended(s)
         /\ d.ok = c.ok
         /\ d.done = "error" /\ d.open = c.open /\ d.blocks = c.blocks /\ d.signed = c.signed
<1>1. s \in Sers /\ c \in Clients /\ e \in Events /\ q = Project(s, e) /\ d = Received(c, q.out)
  BY DEF Fed
<1>2. PICK w : w = Wire("error", 0, NoBlock)
  OBVIOUS
<1>3. w \in Wires
  BY <1>2, EmptyBlockType, WireType
<1>4. q.ser = Ended(s) /\ q.out = <<w>>
  BY <1>1, <1>2 DEF Project, Sends, Ended, FailureTypes
<1>5. d = Receive(c, Wire("error", 0, NoBlock))
  BY <1>1, <1>2, <1>3, <1>4, ReceivedOne
<1>6. c.ok \in BOOLEAN
  BY <1>1, ClientFields
<1> QED
  BY <1>1, <1>4, <1>5, <1>6, ClientFails

(* What a stream has come to: nothing is sent, no channel is open, one is, *)
(* the message is complete.                                                *)
Phases == {"new", "none", "reasoning", "text", "done"}

(* An event takes it from one to the next.                                 *)
Goes(h, e, k) ==
  \/ e.type = "GenerationStarted" /\ h = "new" /\ k = "none"
  \/ e.type = "ReasoningStarted" /\ h = "none" /\ k = "reasoning"
  \/ e.type = "ReasoningDelta" /\ h = "reasoning" /\ k = "reasoning"
  \/ e.type = "ReasoningCompleted" /\ h = "reasoning" /\ k = "none"
  \/ e.type = "TextStarted" /\ h = "none" /\ k = "text"
  \/ e.type = "TextDelta" /\ h = "text" /\ k = "text"
  \/ e.type = "TextCompleted" /\ h = "text" /\ k = "none"
  \/ e.type = "ToolCallStarted" /\ h = "none" /\ k = "none"
  \/ e.type \in {"ToolCallArgumentsDelta", "ToolCallCompleted"} /\ k = h
     /\ h \in {"none", "reasoning", "text"}
  \/ e.type = "GenerationCompleted" /\ h = "none" /\ k = "done"

(* Events lead from h to k, one after the other.                           *)
IsPath(r, h, es, k) ==
  /\ r \in [0..Len(es) -> Phases] /\ r[0] = h /\ r[Len(es)] = k
  /\ \A i \in 1..Len(es) : Goes(r[i - 1], es[i], r[i])
Leads(h, es, k) == \E r : IsPath(r, h, es, k)

LEMMA LeadsEmpty ==
  ASSUME NEW h \in Phases, NEW k
  PROVE  Leads(h, <<>>, k) <=> h = k
<1>1. ASSUME Leads(h, <<>>, k) PROVE h = k
  <2>1. PICK r : IsPath(r, h, <<>>, k)
    BY <1>1 DEF Leads
  <2>2. Len(<<>>) = 0
    OBVIOUS
  <2> QED
    BY <2>1, <2>2 DEF IsPath
<1>2. ASSUME h = k PROVE Leads(h, <<>>, k)
  <2>1. PICK r : r = [i \in 0..0 |-> h]
    OBVIOUS
  <2>2. Len(<<>>) = 0 /\ r \in [0..0 -> Phases] /\ r[0] = h /\ \A i \in 1..0 : FALSE
    BY <2>1
  <2>3. IsPath(r, h, <<>>, k)
    BY <1>2, <2>2 DEF IsPath
  <2> QED
    BY <2>3 DEF Leads
<1> QED
  BY <1>1, <1>2

LEMMA LeadsAppend ==
  ASSUME NEW h, NEW es \in Seq(Events), NEW k, NEW e \in Events, NEW l \in Phases,
         Leads(h, es, k), Goes(k, e, l)
  PROVE  Leads(h, Append(es, e), l)
<1>1. PICK r : IsPath(r, h, es, k)
  BY DEF Leads
<1>2. PICK n, more : n = Len(es) /\ more = Append(es, e)
  OBVIOUS
<1>3. n \in Nat /\ Len(more) = n + 1 /\ more[n + 1] = e /\ \A i \in 1..n : more[i] = es[i]
  BY <1>2
<1>4. /\ r \in [0..n -> Phases] /\ r[0] = h /\ r[n] = k
      /\ \A i \in 1..n : Goes(r[i - 1], es[i], r[i])
  BY <1>1, <1>2, Zenon DEF IsPath
<1>5. PICK q : q = [i \in 0..(n + 1) |-> IF i = n + 1 THEN l ELSE r[i]]
  OBVIOUS
<1>6. q \in [0..(n + 1) -> Phases] /\ q[0] = h /\ q[n + 1] = l /\ q[n] = k
      /\ \A i \in 0..n : q[i] = r[i]
  BY <1>3, <1>4, <1>5
<1>7. ASSUME NEW i \in 1..(n + 1) PROVE Goes(q[i - 1], more[i], q[i])
  <2>1. CASE i = n + 1
    <3>1. i - 1 = n
      BY <1>3, <2>1
    <3> QED
      BY <1>3, <1>6, <2>1, <3>1
  <2>2. CASE i # n + 1
    <3>1. i \in 1..n /\ i \in 0..n /\ i - 1 \in 0..n
      BY <1>3, <2>2
    <3>2. Goes(r[i - 1], es[i], r[i])
      BY <1>4, <3>1
    <3> QED
      BY <1>3, <1>6, <3>1, <3>2
  <2> QED
    BY <2>1, <2>2
<1>8. IsPath(q, h, more, l)
  <2>1. \A i \in 1..Len(more) : Goes(q[i - 1], more[i], q[i])
    BY <1>3, <1>7
  <2>2. q \in [0..Len(more) -> Phases] /\ q[Len(more)] = l
    BY <1>3, <1>6
  <2> QED
    BY <1>6, <2>1, <2>2 DEF IsPath
<1> QED
  BY <1>2, <1>8 DEF Leads

(* A client that is shown phase h has the block open that belongs to it.   *)
Shows(h, s, c) ==
  /\ h = "new" => c.blocks = <<>> /\ c.open = None
  /\ h = "none" => c.open = None
  /\ h = "reasoning" => s.reasoning # None /\ c.open = s.reasoning
  /\ h = "text" => s.text # None /\ c.open = s.text

(* While a call is pending its block is open, and what is deferred leads   *)
(* from no channel to where the parser is.                                 *)
Waits(h, s, c) ==
  /\ s.pending = 0 => s.deferred = <<>> /\ Shows(h, s, c)
  /\ s.pending # 0 => /\ s.tools[s.pending] # None /\ c.open = s.tools[s.pending]
                      /\ Leads("none", s.deferred, h)
Running(h, s, c) ==
  /\ c.done = "no" /\ s.next = Len(c.blocks)
  /\ \A k \in Calls : s.tools[k] # None => k = s.pending
  /\ Waits(h, s, c)
Fits(h, s, c) ==
  /\ s \in Sers /\ c \in Clients /\ c.ok /\ (s.terminal \/ Running(h, s, c))

(* Nothing waits for a call.                                               *)
Idle(h, s, c) ==
  /\ s \in Sers /\ c \in Clients /\ c.ok /\ c.done = "no" /\ s.next = Len(c.blocks)
  /\ s.pending = 0 /\ s.deferred = <<>>
  /\ \A k \in Calls : s.tools[k] = None
  /\ Shows(h, s, c)

LEMMA CallsExist == 1 \in Calls /\ 0 \notin Calls
<1> QED
  BY StreamAssumption DEF Calls

LEMMA IdleFits ==
  ASSUME NEW h, NEW s, NEW c, Idle(h, s, c)
  PROVE  Fits(h, s, c)
<1> QED
  BY DEF Idle, Fits, Running, Waits

(* A channel's step is shown.                                              *)
LEMMA ChannelFits ==
  ASSUME NEW s, NEW c, NEW e, NEW q, NEW d, Fed(s, c, e, q, d), NEW h, NEW k \in Phases,
         Idle(h, s, c), Goes(h, e, k), e.type \in ReasoningTypes \cup TextTypes
  PROVE  Idle(k, q.ser, d)
<1>1. s \in Sers /\ c \in Clients /\ e \in Events /\ q \in Steps /\ q.ser \in Sers /\ d \in Clients
  BY FedTypes
<1>2. /\ s.next \in Nat /\ c.blocks \in Seq(Blocks) /\ s.tools \in [Calls -> Slots]
      /\ s.next = Len(c.blocks)
  BY <1>1, SerFields, ClientFields DEF Idle
<1>3. s.next # None /\ Len(c.blocks) = s.next
  BY <1>2 DEF None
<1>4. /\ \A b : Len(Append(c.blocks, b)) = s.next + 1
      /\ e.val \in Values => Len(Continued(c.blocks, c.open + 1, e.val)) = s.next
  <2>1. \A b : Len(Append(c.blocks, b)) = Len(c.blocks) + 1
    BY <1>2
  <2> QED
    BY <1>2, <2>1, ContinuedType
<1>5. e.val \in Values
  BY <1>1, EventFields DEF ReasoningTypes, TextTypes
<1>6. CASE e.type = "ReasoningStarted"
  <2>1. h = "none" /\ k = "reasoning" /\ c.open = None /\ c.done = "no"
    BY <1>6 DEF Goes, Idle, Shows
  <2>2. /\ q.ser = ReasoningNext(s)
        /\ d.ok = c.ok /\ d.done = c.done /\ d.open = s.next
        /\ d.blocks = Append(c.blocks, Block("thinking", 0, <<>>))
    BY <1>6, <1>2, <2>1, ReasoningStarts
  <2>3. /\ q.ser.reasoning = s.next /\ q.ser.next = s.next + 1 /\ q.ser.pending = s.pending
        /\ q.ser.deferred = s.deferred /\ q.ser.tools = s.tools
    BY <1>1, <2>2, NextFields
  <2>4. Len(d.blocks) = q.ser.next
    BY <1>4, <2>2, <2>3
  <2>5. Shows(k, q.ser, d)
    BY <1>3, <2>1, <2>2, <2>3 DEF Shows
  <2> QED
    BY <1>1, <2>1, <2>2, <2>3, <2>4, <2>5 DEF Idle
<1>7. CASE e.type = "TextStarted"
  <2>1. h = "none" /\ k = "text" /\ c.open = None /\ c.done = "no"
    BY <1>7 DEF Goes, Idle, Shows
  <2>2. /\ q.ser = TextNext(s)
        /\ d.ok = c.ok /\ d.done = c.done /\ d.open = s.next
        /\ d.blocks = Append(c.blocks, Block("text", 0, <<>>))
    BY <1>7, <1>2, <2>1, TextStarts
  <2>3. /\ q.ser.text = s.next /\ q.ser.next = s.next + 1 /\ q.ser.pending = s.pending
        /\ q.ser.deferred = s.deferred /\ q.ser.tools = s.tools
    BY <1>1, <2>2, NextFields
  <2>4. Len(d.blocks) = q.ser.next
    BY <1>4, <2>2, <2>3
  <2>5. Shows(k, q.ser, d)
    BY <1>3, <2>1, <2>2, <2>3 DEF Shows
  <2> QED
    BY <1>1, <2>1, <2>2, <2>3, <2>4, <2>5 DEF Idle
<1>8. CASE e.type \in {"ReasoningDelta", "TextDelta"}
  <2>1. k = h /\ h \in {"reasoning", "text"}
    BY <1>8 DEF Goes
  <2>2. /\ q.ser = s /\ d.ok = c.ok /\ d.done = c.done /\ d.open = c.open
        /\ d.blocks = c.blocks \/ d.blocks = Continued(c.blocks, c.open + 1, e.val)
    <3>1. CASE e.type = "ReasoningDelta"
      <4>1. s.reasoning # None /\ c.open = s.reasoning
        BY <3>1 DEF Goes, Idle, Shows
      <4> QED
        BY <3>1, <4>1, ReasoningGoesOnIn
    <3>2. CASE e.type = "TextDelta"
      <4>1. s.text # None /\ c.open = s.text
        BY <3>2 DEF Goes, Idle, Shows
      <4> QED
        BY <3>2, <4>1, TextGoesOnIn
    <3> QED
      BY <1>8, <3>1, <3>2
  <2>3. Len(d.blocks) = s.next
    BY <1>3, <1>4, <1>5, <2>2
  <2>4. Shows(k, q.ser, d)
    BY <2>1, <2>2 DEF Idle, Shows
  <2> QED
    BY <1>1, <2>1, <2>2, <2>3, <2>4 DEF Idle
<1>9. CASE e.type \in {"ReasoningCompleted", "TextCompleted"}
  <2>1. k = "none"
    BY <1>9 DEF Goes
  <2>2. /\ q.ser = s /\ d.ok = c.ok /\ d.done = c.done /\ d.open = None /\ d.blocks = c.blocks
    <3>1. CASE e.type = "ReasoningCompleted"
      <4>1. s.reasoning # None /\ c.open = s.reasoning
        BY <3>1 DEF Goes, Idle, Shows
      <4> QED
        BY <3>1, <4>1, ReasoningStops
    <3>2. CASE e.type = "TextCompleted"
      <4>1. s.text # None /\ c.open = s.text
        BY <3>2 DEF Goes, Idle, Shows
      <4> QED
        BY <3>2, <4>1, TextStops
    <3> QED
      BY <1>9, <3>1, <3>2
  <2>3. Shows(k, q.ser, d)
    BY <2>1, <2>2 DEF Shows
  <2> QED
    BY <1>1, <2>1, <2>2, <2>3 DEF Idle
<1> QED
  BY <1>6, <1>7, <1>8, <1>9 DEF ReasoningTypes, TextTypes

(* A step while nothing waits.                                             *)
LEMMA IdleSteps ==
  ASSUME NEW s, NEW c, NEW e, NEW q, NEW d, Fed(s, c, e, q, d), NEW h, NEW k \in Phases,
         Idle(h, s, c), Goes(h, e, k)
  PROVE  Fits(k, q.ser, d)
<1>1. s \in Sers /\ c \in Clients /\ e \in Events /\ q \in Steps /\ q.ser \in Sers /\ d \in Clients
  BY FedTypes
<1>2. /\ s.next \in Nat /\ c.blocks \in Seq(Blocks) /\ s.tools \in [Calls -> Slots]
      /\ s.next = Len(c.blocks) /\ c.done = "no" /\ s.pending = 0 /\ s.deferred = <<>>
      /\ \A i \in Calls : s.tools[i] = None
  BY <1>1, SerFields, ClientFields DEF Idle
<1>3. /\ s.next # None
      /\ \A b : Len(Append(c.blocks, b)) = s.next + 1
  BY <1>2 DEF None
<1>10. c.ok
  BY DEF Idle
<1>4. CASE e.type \in ReasoningTypes \cup TextTypes
  BY <1>4, ChannelFits, IdleFits
<1>5. CASE e.type = "GenerationStarted"
  <2>1. k = "none" /\ c.blocks = <<>> /\ c.open = None
    BY <1>5 DEF Goes, Idle, Shows
  <2>2. q.ser = s /\ d.ok = c.ok /\ d.done = c.done /\ d.open = c.open /\ d.blocks = c.blocks
    BY <1>2, <1>5, <2>1, MessageStarts
  <2>3. Shows(k, q.ser, d)
    BY <2>1, <2>2 DEF Shows
  <2>4. Idle(k, q.ser, d)
    BY <1>1, <2>2, <2>3 DEF Idle
  <2> QED
    BY <2>4, IdleFits
<1>6. CASE e.type = "GenerationCompleted"
  <2>1. k = "done" /\ c.open = None
    BY <1>6 DEF Goes, Idle, Shows
  <2>2. q.ser = Ended(s) /\ d.ok = c.ok
    BY <1>2, <1>6, <2>1, MessageStops
  <2> QED
    BY <1>1, <2>2, EndedFields DEF Fits, Idle
<1>7. CASE e.type = "ToolCallStarted"
  <2>1. k = "none" /\ c.open = None /\ e.call \in Calls
    BY <1>1, <1>7, EventFields DEF Goes, Idle, Shows, ToolTypes
  <2>2. /\ q.ser = ToolNext(s, e.call) /\ d.ok = c.ok /\ d.done = c.done /\ d.open = s.next
        /\ d.blocks = Append(c.blocks, Block("tool", e.call, <<>>))
    BY <1>2, <1>7, <2>1, ToolStarts
  <2>3. /\ q.ser.next = s.next + 1 /\ q.ser.tools = [s.tools EXCEPT ![e.call] = s.next]
        /\ q.ser.pending = e.call /\ q.ser.deferred = s.deferred
    <3>1. PICK r, k1 : r = ToolNext(s, k1) /\ k1 = e.call
      OBVIOUS
    <3>2. /\ r.next = s.next + 1 /\ r.tools = [s.tools EXCEPT ![k1] = s.next]
          /\ r.pending = k1 /\ r.deferred = s.deferred
      BY <1>1, <2>1, <3>1, ToolNextFields
    <3>3. q.ser = r
      BY <2>2, <3>1
    <3> QED
      BY <3>1, <3>2, <3>3
  <2>4. /\ q.ser.tools[e.call] = s.next
        /\ \A i \in Calls : q.ser.tools[i] # None => i = e.call
    BY <1>2, <2>1, <2>3
  <2>5. Leads("none", q.ser.deferred, k)
    BY <1>2, <2>1, <2>3, LeadsEmpty DEF Phases
  <2>6. e.call # 0
    BY <2>1, CallsExist
  <2>7. Waits(k, q.ser, d)
    BY <1>3, <2>2, <2>3, <2>4, <2>5, <2>6 DEF Waits
  <2>8. Len(d.blocks) = q.ser.next
    BY <1>3, <2>2, <2>3
  <2> QED
    BY <1>1, <1>2, <1>10, <2>2, <2>3, <2>4, <2>7, <2>8 DEF Fits, Running
<1>8. CASE e.type \in {"ToolCallArgumentsDelta", "ToolCallCompleted"}
  <2>1. k = h /\ e.call \in Calls
    BY <1>1, <1>8, EventFields DEF Goes, ToolTypes
  <2>2. q.ser = s /\ d = c
    BY <1>2, <1>8, <2>1, ToolIgnored
  <2> QED
    BY <2>1, <2>2, IdleFits
<1>9. \/ e.type \in ReasoningTypes \cup TextTypes
      \/ e.type \in {"GenerationStarted", "GenerationCompleted", "ToolCallStarted",
                     "ToolCallArgumentsDelta", "ToolCallCompleted"}
  BY DEF Goes, ReasoningTypes, TextTypes
<1> QED
  BY <1>4, <1>5, <1>6, <1>7, <1>8, <1>9

(* A step of the pending call, with nothing deferred.                      *)
LEMMA PendingSteps ==
  ASSUME NEW s, NEW c, NEW e, NEW q, NEW d, Fed(s, c, e, q, d),
         Fits("none", s, c), ~s.terminal, s.deferred = <<>>, e.call = s.pending,
         e.type \in {"ToolCallArgumentsDelta", "ToolCallCompleted"}
  PROVE  Fits("none", q.ser, d)
<1>1. s \in Sers /\ c \in Clients /\ e \in Events /\ q \in Steps /\ q.ser \in Sers /\ d \in Clients
  BY FedTypes
<1>2. /\ s.next \in Nat /\ c.blocks \in Seq(Blocks) /\ s.tools \in [Calls -> Slots]
      /\ s.next = Len(c.blocks) /\ c.done = "no"
      /\ \A i \in Calls : s.tools[i] # None => i = s.pending
  BY <1>1, SerFields, ClientFields DEF Fits, Running
<1>3. e.call \in Calls /\ e.call # 0 /\ e.val \in Values
  BY <1>1, EventFields, CallsExist DEF ToolTypes
<1>4. s.tools[e.call] # None /\ c.open = s.tools[e.call]
  BY <1>3 DEF Fits, Running, Waits
<1>7. c.ok
  BY DEF Fits
<1>5. CASE e.type = "ToolCallArgumentsDelta"
  <2>1. /\ q.ser = s /\ d.ok = c.ok /\ d.done = c.done /\ d.open = c.open
        /\ d.blocks = Continued(c.blocks, c.open + 1, e.val)
    BY <1>4, <1>5, ToolGoesOn
  <2>2. Len(d.blocks) = s.next
    BY <1>2, <1>3, <2>1, ContinuedType
  <2>3. Waits("none", q.ser, d)
    BY <1>3, <2>1 DEF Fits, Running, Waits
  <2> QED
    BY <1>1, <1>2, <1>7, <2>1, <2>2, <2>3 DEF Fits, Running
<1>6. CASE e.type = "ToolCallCompleted"
  <2>1. /\ q.ser = ToolDone(s, e.call) /\ d.ok = c.ok /\ d.done = c.done /\ d.open = None
        /\ d.blocks = c.blocks
    BY <1>4, <1>6, ToolStops
  <2>2. /\ q.ser.next = s.next /\ q.ser.tools = [s.tools EXCEPT ![e.call] = None]
        /\ q.ser.pending = 0 /\ q.ser.deferred = <<>>
    <3>1. PICK r, k1 : r = ToolDone(s, k1) /\ k1 = e.call
      OBVIOUS
    <3>2. /\ r.next = s.next /\ r.tools = [s.tools EXCEPT ![k1] = None]
          /\ r.pending = 0 /\ r.deferred = <<>>
      BY <1>1, <1>3, <3>1, ToolDoneFields
    <3>3. q.ser = r
      BY <2>1, <3>1
    <3> QED
      BY <3>1, <3>2, <3>3
  <2>3. \A i \in Calls : q.ser.tools[i] = None
    BY <1>2, <1>3, <2>2
  <2>4. Shows("none", q.ser, d)
    BY <2>1 DEF Shows
  <2>5. Idle("none", q.ser, d)
    BY <1>1, <1>2, <1>7, <2>1, <2>2, <2>3, <2>4 DEF Idle
  <2> QED
    BY <2>5, IdleFits
<1> QED
  BY <1>5, <1>6

(* Sending leaves alone what is deferred.                                  *)
Undeferred(s) == [s EXCEPT !.deferred = <<>>]
Deferring(s, e) == [s EXCEPT !.deferred = Append(s.deferred, e)]

LEMMA WithoutFields ==
  ASSUME NEW s \in Sers
  PROVE  /\ Undeferred(s) \in Sers /\ Undeferred(s).deferred = <<>> /\ Undeferred(s).next = s.next
         /\ Undeferred(s).tools = s.tools /\ Undeferred(s).pending = s.pending
         /\ Undeferred(s).terminal = s.terminal /\ Undeferred(s).reasoning = s.reasoning
         /\ Undeferred(s).text = s.text
<1>1. <<>> \in Seq(Events)
  OBVIOUS
<1> QED
  BY <1>1 DEF Sers, Undeferred

LEMMA DeferringFields ==
  ASSUME NEW s \in Sers, NEW e \in Events
  PROVE  /\ Deferring(s, e) \in Sers /\ Deferring(s, e).deferred = Append(s.deferred, e)
         /\ Deferring(s, e).next = s.next /\ Deferring(s, e).tools = s.tools
         /\ Deferring(s, e).pending = s.pending /\ Deferring(s, e).terminal = s.terminal
<1>1. Append(s.deferred, e) \in Seq(Events)
  BY SerFields
<1> QED
  BY <1>1 DEF Sers, Deferring

LEMMA ProjectKeepsDeferred ==
  ASSUME NEW s \in Sers, NEW e \in Events
  PROVE  Project(s, e).ser.deferred = s.deferred
<1>1. e.type \in {"GenerationStarted", "GenerationCompleted"} \cup ReasoningTypes
                 \cup TextTypes \cup ToolTypes \cup FailureTypes
  BY EventFields
<1>2. /\ \A o : Sends(s, o).ser.deferred = s.deferred
      /\ \A o : Sends(Ended(s), o).ser.deferred = s.deferred
  BY EndedFields DEF Sends
<1>3. CASE e.type \in {"GenerationStarted", "GenerationCompleted"} \cup FailureTypes
  <2>1. \E o : Project(s, e) = Sends(s, o) \/ Project(s, e) = Sends(Ended(s), o)
    <3>1. PICK w : w = Project(s, e)
      OBVIOUS
    <3>2. \/ w = Sends(s, <<Wire("message_start", 0, NoBlock)>>)
          \/ w = Sends(Ended(s), <<Wire("message_stop", 0, NoBlock)>>)
          \/ w = Sends(Ended(s), <<Wire("error", 0, NoBlock)>>)
      BY <1>3, <3>1 DEF Project, Ended, FailureTypes
    <3> QED
      BY <3>1, <3>2
  <2> QED
    BY <1>2, <2>1
<1>4. CASE e.type \in ReasoningTypes
  <2>1. PICK o : o = EnsureBlock(s, "reasoning", "thinking")
    OBVIOUS
  <2>2. PICK b : b = StartBlock(s, "reasoning", "thinking")
    OBVIOUS
  <2>3. b.ser = ReasoningNext(s)
    BY <2>2, StartReasoningType DEF ReasoningNext
  <2>4. b.ser.deferred = s.deferred
    BY <2>3, NextFields
  <2>5. o = b \/ o = Sends(s, <<>>)
    BY <2>1, <2>2, Zenon DEF EnsureBlock
  <2>6. o.ser.deferred = s.deferred
    BY <1>2, <2>4, <2>5
  <2>7. Project(s, e) = ProjectReasoning(s, e)
    BY <1>4 DEF Project, ReasoningTypes
  <2>8. ProjectReasoning(s, e) = b \/ \E w : ProjectReasoning(s, e) = Sends(o.ser, w)
    <3>1. CASE e.type = "ReasoningStarted"
      BY <2>2, <3>1, Zenon DEF ProjectReasoning
    <3>2. CASE e.type = "ReasoningDelta"
      BY <2>1, <3>2, Zenon DEF ProjectReasoning
    <3>3. CASE e.type = "ReasoningCompleted"
      BY <2>1, <3>3, Zenon DEF ProjectReasoning
    <3> QED
      BY <1>4, <3>1, <3>2, <3>3 DEF ReasoningTypes
  <2>9. \A w : Sends(o.ser, w).ser = o.ser
    BY DEF Sends
  <2> QED
    BY <2>4, <2>6, <2>7, <2>8, <2>9
<1>5. CASE e.type \in TextTypes
  <2>1. PICK o : o = EnsureBlock(s, "text", "text")
    OBVIOUS
  <2>2. PICK b : b = StartBlock(s, "text", "text")
    OBVIOUS
  <2>3. b.ser = TextNext(s)
    BY <2>2, StartTextType DEF TextNext
  <2>4. b.ser.deferred = s.deferred
    BY <2>3, NextFields
  <2>5. o = b \/ o = Sends(s, <<>>)
    BY <2>1, <2>2, Zenon DEF EnsureBlock
  <2>6. o.ser.deferred = s.deferred
    BY <1>2, <2>4, <2>5
  <2>7. Project(s, e) = ProjectText(s, e)
    BY <1>5 DEF Project, TextTypes
  <2>8. ProjectText(s, e) = b \/ \E w : ProjectText(s, e) = Sends(o.ser, w)
    <3>1. CASE e.type = "TextStarted"
      BY <2>2, <3>1, Zenon DEF ProjectText
    <3>2. CASE e.type = "TextDelta"
      BY <2>1, <3>2, Zenon DEF ProjectText
    <3>3. CASE e.type = "TextCompleted"
      BY <2>1, <3>3, Zenon DEF ProjectText
    <3> QED
      BY <1>5, <3>1, <3>2, <3>3 DEF TextTypes
  <2>9. \A w : Sends(o.ser, w).ser = o.ser
    BY DEF Sends
  <2> QED
    BY <2>4, <2>6, <2>7, <2>8, <2>9
<1>6. CASE e.type \in ToolTypes
  <2>1. Project(s, e) = ProjectTool(s, e) /\ e.call \in Calls
    BY <1>6, EventFields DEF Project, ToolTypes
  <2>2. PICK p, n, t : p = ProjectTool(s, e) /\ n = ToolNext(s, e.call) /\ t = ToolDone(s, e.call)
    OBVIOUS
  <2>3. n.deferred = s.deferred /\ t.deferred = s.deferred
    BY <2>1, <2>2, ToolNextFields, ToolDoneFields
  <2>4. \E w : p = Sends(s, w) \/ p = Sends(n, w) \/ p = Sends(t, w)
    <3>1. CASE e.type = "ToolCallStarted"
      BY <2>2, <3>1, Zenon DEF ProjectTool, ToolNext
    <3>2. CASE e.type = "ToolCallArgumentsDelta"
      BY <2>2, <3>2, Zenon DEF ProjectTool
    <3>3. CASE e.type = "ToolCallCompleted"
      BY <2>2, <3>3, Zenon DEF ProjectTool, ToolDone
    <3> QED
      BY <1>6, <3>1, <3>2, <3>3 DEF ToolTypes
  <2>5. \A w : Sends(n, w).ser = n /\ Sends(t, w).ser = t
    BY DEF Sends
  <2> QED
    BY <1>2, <2>1, <2>2, <2>3, <2>4, <2>5
<1> QED
  BY <1>1, <1>3, <1>4, <1>5, <1>6

(* What a call's own event sends does not depend on what is deferred.      *)
LEMMA ProjectCommutes ==
  ASSUME NEW s \in Sers, NEW e \in Events,
         e.type \in {"ToolCallArgumentsDelta", "ToolCallCompleted"}
  PROVE  /\ Undeferred(Project(s, e).ser) = Project(Undeferred(s), e).ser
         /\ Project(s, e).out = Project(Undeferred(s), e).out
<1>1. e.call \in Calls
  BY EventFields DEF ToolTypes
<1>2. PICK r, at : r = Undeferred(s) /\ at = s.tools[e.call]
  OBVIOUS
<1>3. r \in Sers /\ r.tools = s.tools /\ r.pending = s.pending
  BY <1>2, WithoutFields
<1>4. Project(s, e) = ProjectTool(s, e) /\ Project(r, e) = ProjectTool(r, e)
  BY DEF Project
<1>5. CASE e.type = "ToolCallArgumentsDelta"
  <2>1. PICK w : w = IF at = None THEN <<>> ELSE <<Wire("delta", at, Block("tool", 0, e.val))>>
    OBVIOUS
  <2>2. ProjectTool(s, e) = Sends(s, w)
    BY <1>2, <1>5, <2>1, Zenon DEF ProjectTool
  <2>3. ProjectTool(r, e) = Sends(r, w)
    BY <1>2, <1>3, <1>5, <2>1, Zenon DEF ProjectTool
  <2> QED
    BY <1>2, <1>4, <2>2, <2>3 DEF Sends
<1>6. CASE e.type = "ToolCallCompleted"
  <2>1. CASE at = None
    <3>1. ProjectTool(s, e) = Sends(s, <<>>) /\ ProjectTool(r, e) = Sends(r, <<>>)
      BY <1>2, <1>3, <1>6, <2>1 DEF ProjectTool
    <3> QED
      BY <1>2, <1>4, <3>1 DEF Sends
  <2>2. CASE at # None
    <3>1. PICK w : w = <<Wire("stop", at, NoBlock)>>
      OBVIOUS
    <3>2. ProjectTool(s, e) = Sends(ToolDone(s, e.call), w)
      BY <1>2, <1>6, <2>2, <3>1, Zenon DEF ProjectTool, ToolDone
    <3>3. ProjectTool(r, e) = Sends(ToolDone(r, e.call), w)
      BY <1>2, <1>3, <1>6, <2>2, <3>1, Zenon DEF ProjectTool, ToolDone
    <3>4. Undeferred(ToolDone(s, e.call)) = ToolDone(r, e.call)
      BY <1>2 DEF Undeferred, ToolDone, Sers
    <3> QED
      BY <1>2, <1>4, <3>2, <3>3, <3>4 DEF Sends
  <2> QED
    BY <2>1, <2>2
<1> QED
  BY <1>2, <1>5, <1>6

(* An event that waits.                                                    *)
LEMMA WaitingFits ==
  ASSUME NEW s, NEW c, NEW e \in Events, NEW h \in Phases, NEW k \in Phases,
         Fits(h, s, c), Goes(h, e, k), ~s.terminal => s.pending # 0
  PROVE  Fits(k, Deferring(s, e), c)
<1>1. s \in Sers /\ c \in Clients /\ c.ok
  BY DEF Fits
<1>2. PICK r : r = Deferring(s, e)
  OBVIOUS
<1>3. /\ r \in Sers /\ r.deferred = Append(s.deferred, e) /\ r.next = s.next /\ r.tools = s.tools
      /\ r.pending = s.pending /\ r.terminal = s.terminal
  BY <1>1, <1>2, DeferringFields
<1>4. CASE s.terminal
  BY <1>1, <1>2, <1>3, <1>4 DEF Fits
<1>5. CASE ~s.terminal
  <2>1. Running(h, s, c) /\ s.pending # 0
    BY <1>5 DEF Fits
  <2>2. /\ s.tools[s.pending] # None /\ c.open = s.tools[s.pending]
        /\ Leads("none", s.deferred, h)
    BY <2>1 DEF Running, Waits
  <2>3. s.deferred \in Seq(Events)
    BY <1>1, SerFields
  <2>4. Leads("none", r.deferred, k)
    BY <1>3, <2>2, <2>3, LeadsAppend
  <2>5. Waits(k, r, c)
    BY <1>3, <2>1, <2>2, <2>4 DEF Waits
  <2>6. Running(k, r, c)
    BY <1>3, <2>1, <2>5 DEF Running
  <2> QED
    BY <1>1, <1>2, <1>3, <2>6 DEF Fits
<1> QED
  BY <1>4, <1>5

(* One that may be sent, with nothing deferred.                            *)
LEMMA SendingFits ==
  ASSUME NEW s, NEW c, NEW e, NEW q, NEW d, Fed(s, c, e, q, d),
         NEW h \in Phases, NEW k \in Phases,
         Fits(h, s, c), ~s.terminal, s.deferred = <<>>, Goes(h, e, k),
         CanProjectWhileToolPending(s, e)
  PROVE  Fits(k, q.ser, d)
<1>1. s \in Sers /\ c \in Clients /\ e \in Events
  BY FedTypes
<1>2. c.ok /\ Running(h, s, c)
  BY DEF Fits
<1>3. CASE s.pending = 0
  <2>1. \A i \in Calls : s.tools[i] = None
    BY <1>2, <1>3, CallsExist DEF Running
  <2>2. Idle(h, s, c)
    BY <1>1, <1>2, <1>3, <2>1 DEF Idle, Running, Waits
  <2> QED
    BY <2>2, IdleSteps
<1>4. CASE s.pending # 0
  <2>1. e.type \in {"ToolCallArgumentsDelta", "ToolCallCompleted"} /\ e.call = s.pending
    BY <1>4 DEF CanProjectWhileToolPending
  <2>2. Leads("none", <<>>, h)
    BY <1>2, <1>4 DEF Running, Waits
  <2>3. h = "none"
    BY <2>2, LeadsEmpty DEF Phases
  <2>4. k = "none"
    BY <2>1, <2>3 DEF Goes
  <2> QED
    BY <2>1, <2>3, <2>4, PendingSteps
<1> QED
  BY <1>3, <1>4

(* A deferred event is drained.                                            *)
LEMMA DrainOneFits ==
  ASSUME NEW s, NEW c, NEW e \in Events, NEW h \in Phases, NEW k \in Phases, NEW v,
         Fits(h, s, c), Goes(h, e, k), v = DrainOne(Sends(s, <<>>), e)
  PROVE  Fits(k, v.ser, Received(c, v.out))
<1>1. s \in Sers /\ c \in Clients
  BY DEF Fits
<1>2. PICK u : u = Sends(s, <<>>)
  OBVIOUS
<1>3. u.ser = s /\ u.out = <<>>
  BY <1>2 DEF Sends
<1>4. CASE s.terminal \/ s.deferred # <<>> \/ ~CanProjectWhileToolPending(s, e)
  <2>1. v = Sends(Deferring(s, e), <<>>)
    BY <1>2, <1>3, <1>4, Zenon DEF DrainOne, Deferring
  <2>2. v.ser = Deferring(s, e) /\ v.out = <<>>
    BY <2>1 DEF Sends
  <2>3. ~s.terminal => s.pending # 0
    <3>1. CASE s.terminal
      BY <3>1
    <3>2. CASE ~s.terminal
      <4>1. Running(h, s, c)
        BY <3>2 DEF Fits
      <4>2. s.pending = 0 => s.deferred = <<>>
        BY <4>1 DEF Running, Waits
      <4> QED
        BY <1>4, <3>2, <4>2 DEF CanProjectWhileToolPending
    <3> QED
      BY <3>1, <3>2
  <2>4. Received(c, v.out) = c
    BY <1>1, <2>2, ReceivedEmpty
  <2>5. Fits(k, Deferring(s, e), c)
    BY <2>3, WaitingFits
  <2> QED
    BY <2>2, <2>4, <2>5
<1>5. CASE ~(s.terminal \/ s.deferred # <<>> \/ ~CanProjectWhileToolPending(s, e))
  <2>1. PICK q, d : q = Project(s, e) /\ d = Received(c, q.out)
    OBVIOUS
  <2>2. Fed(s, c, e, q, d)
    BY <1>1, <2>1 DEF Fed
  <2>3. v = Sends(q.ser, <<>> \o q.out)
    BY <1>2, <1>3, <1>5, <2>1, Zenon DEF DrainOne
  <2>4. q.out \in Seq(Wires)
    BY <1>1, <2>1, ProjectType DEF Steps
  <2>5. v.ser = q.ser /\ v.out = q.out
    <3>1. <<>> \o q.out = q.out
      BY <2>4, ConcatEmptySeq
    <3> QED
      BY <2>3, <3>1 DEF Sends
  <2>6. Fits(k, q.ser, d)
    BY <1>5, <2>2, SendingFits
  <2> QED
    BY <2>1, <2>5, <2>6
<1> QED
  BY <1>4, <1>5

(* All that was deferred is drained.                                       *)
LEMMA DrainFits ==
  ASSUME NEW t, NEW out \in Seq(Wires), NEW c \in Clients, NEW D \in Seq(Events), NEW p,
         NEW m \in Phases, NEW k \in Phases,
         Fits(m, t, Received(c, out)), Leads(m, D, k), p = DrainedOver(Sends(t, out), D)
  PROVE  p \in Steps /\ Fits(k, p.ser, Received(c, p.out))
<1>1. t \in Sers
  BY DEF Fits
<1>2. PICK b : b = Sends(t, out)
  OBVIOUS
<1>3. b \in Steps /\ b.ser = t /\ b.out = out
  BY <1>1, <1>2, StepType
<1>4. PICK r : IsPath(r, m, D, k)
  BY DEF Leads
<1>5. PICK n \in Nat : n = Len(D)
  OBVIOUS
<1>6. /\ r \in [0..n -> Phases] /\ r[0] = m /\ r[n] = k
      /\ \A i \in 1..n : Goes(r[i - 1], D[i], r[i])
  BY <1>4, <1>5, Zenon DEF IsPath
<1>7. \A i \in 1..n : D[i] \in Events /\ i - 1 \in 0..n /\ i \in 0..n
  BY <1>5
<1> DEFINE G == {x \in (0..n) \X Sers \X Clients : Fits(r[x[1]], x[2], x[3])}
<1>8. \A i \in 0..n, s \in Sers, d \in Clients : <<i, s, d>> \in G <=> Fits(r[i], s, d)
  BY Zenon
<1> HIDE DEF G
<1>9. <<0, b.ser, Received(c, b.out)>> \in G
  <2>1. 0 \in 0..n
    BY <1>5
  <2>2. Received(c, b.out) \in Clients
    BY <1>3, ReceivedType
  <2> QED
    BY <1>1, <1>3, <1>6, <1>8, <2>1, <2>2
<1>10. \A i \in 1..Len(D), s \in Sers, d \in Clients :
         <<i - 1, s, d>> \in G =>
           <<i, DrainOne(Sends(s, <<>>), D[i]).ser,
             Received(d, DrainOne(Sends(s, <<>>), D[i]).out)>> \in G
  <2> SUFFICES ASSUME NEW i \in 1..n, NEW s \in Sers, NEW d \in Clients, <<i - 1, s, d>> \in G
               PROVE  <<i, DrainOne(Sends(s, <<>>), D[i]).ser,
                        Received(d, DrainOne(Sends(s, <<>>), D[i]).out)>> \in G
    BY <1>5
  <2>1. i - 1 \in 0..n /\ i \in 0..n /\ D[i] \in Events
    BY <1>7
  <2>2. Fits(r[i - 1], s, d)
    BY <1>8, <2>1
  <2>3. PICK v : v = DrainOne(Sends(s, <<>>), D[i])
    OBVIOUS
  <2>4. r[i - 1] \in Phases /\ r[i] \in Phases /\ Goes(r[i - 1], D[i], r[i])
    BY <1>6, <2>1
  <2>5. Fits(r[i], v.ser, Received(d, v.out))
    BY <2>1, <2>2, <2>3, <2>4, DrainOneFits
  <2>6. v.ser \in Sers /\ Received(d, v.out) \in Clients
    BY <2>5 DEF Fits
  <2> QED
    BY <1>8, <2>1, <2>3, <2>5, <2>6
<1>11. /\ DrainedOver(b, D) \in Steps
       /\ <<Len(D), DrainedOver(b, D).ser, Received(c, DrainedOver(b, D).out)>> \in G
  BY <1>3, <1>9, <1>10, DrainInduction
<1>12. p \in Steps /\ <<n, p.ser, Received(c, p.out)>> \in G
  BY <1>2, <1>5, <1>11
<1>13. p.ser \in Sers /\ Received(c, p.out) \in Clients /\ n \in 0..n
  BY <1>5, <1>12, ReceivedType DEF Steps
<1> QED
  BY <1>6, <1>8, <1>12, <1>13

(* The drain begins with what was sent and nothing deferred.               *)
LEMMA DrainDeferredIs ==
  ASSUME NEW b
  PROVE  DrainDeferredContent(b) = DrainedOver(Sends(Undeferred(b.ser), b.out), b.ser.deferred)
<1> QED
  BY Zenon DEF DrainDeferredContent, DrainedOver, Undeferred

(* An event of the parser is fed.                                          *)
LEMMA FeedFits ==
  ASSUME NEW s, NEW c, NEW e \in Events, NEW h \in Phases, NEW k \in Phases, NEW p,
         Fits(h, s, c), Goes(h, e, k), p = FeedAnthropic(s, e)
  PROVE  p \in Steps /\ Fits(k, p.ser, Received(c, p.out))
<1>1. s \in Sers /\ c \in Clients
  BY DEF Fits
<1>2. e.type \notin FailureTypes
  BY DEF Goes, FailureTypes
<1>3. CASE s.terminal
  <2>1. p = Sends(s, <<>>)
    BY <1>3 DEF FeedAnthropic
  <2>2. p \in Steps /\ p.ser = s /\ p.out = <<>>
    BY <1>1, <2>1, SendsNothing
  <2>3. Received(c, p.out) = c
    BY <1>1, <2>2, ReceivedEmpty
  <2>4. Fits(k, s, c)
    BY <1>3 DEF Fits
  <2> QED
    BY <2>2, <2>3, <2>4
<1>4. CASE ~s.terminal /\ ~CanProjectWhileToolPending(s, e)
  <2>1. p = Sends(Deferring(s, e), <<>>)
    BY <1>2, <1>4 DEF FeedAnthropic, Deferring, FailureTypes
  <2>2. <<>> \in Seq(Wires)
    OBVIOUS
  <2>3. p \in Steps /\ p.ser = Deferring(s, e) /\ p.out = <<>>
    <3>1. Deferring(s, e) \in Sers
      BY <1>1, DeferringFields
    <3> QED
      BY <2>1, <3>1, SendsNothing
  <2>4. Received(c, p.out) = c
    BY <1>1, <2>3, ReceivedEmpty
  <2>5. s.pending # 0
    BY <1>4 DEF CanProjectWhileToolPending
  <2>6. Fits(k, Deferring(s, e), c)
    BY <2>5, WaitingFits
  <2> QED
    BY <2>3, <2>4, <2>6
<1>5. CASE ~s.terminal /\ CanProjectWhileToolPending(s, e)
  <2>1. PICK b : b = Project(s, e)
    OBVIOUS
  <2>2. b \in Steps /\ b.ser \in Sers /\ b.out \in Seq(Wires) /\ b.ser.deferred = s.deferred
    BY <1>1, <2>1, ProjectType, ProjectKeepsDeferred DEF Steps
  <2>3. PICK t, D : t = Undeferred(b.ser) /\ D = s.deferred
    OBVIOUS
  <2>4. p = DrainedOver(Sends(t, b.out), D)
    <3>1. p = DrainDeferredContent(b)
      BY <1>2, <1>5, <2>1 DEF FeedAnthropic, FailureTypes
    <3> QED
      BY <2>2, <2>3, <3>1, DrainDeferredIs
  <2>5. D \in Seq(Events)
    BY <1>1, <2>3, SerFields
  <2>6. PICK d : d = Received(c, b.out)
    OBVIOUS
  <2>7. Running(h, s, c)
    BY <1>5 DEF Fits
  <2>8. \E m \in Phases : Fits(m, t, d) /\ Leads(m, D, k)
    <3>1. CASE s.pending = 0
      <4>1. D = <<>>
        BY <2>3, <2>7, <3>1 DEF Running, Waits
      <4>2. Fed(s, c, e, b, d)
        BY <1>1, <2>1, <2>6 DEF Fed
      <4>3. Fits(k, b.ser, d)
        BY <1>5, <2>3, <4>1, <4>2, SendingFits
      <4>4. t = b.ser
        BY <2>2, <2>3, <4>1 DEF Undeferred, Sers
      <4>5. Leads(k, D, k)
        BY <4>1, LeadsEmpty
      <4> QED
        BY <4>3, <4>4, <4>5
    <3>2. CASE s.pending # 0
      <4>1. e.type \in {"ToolCallArgumentsDelta", "ToolCallCompleted"} /\ e.call = s.pending
        BY <1>5, <3>2 DEF CanProjectWhileToolPending
      <4>2. k = h /\ "none" \in Phases
        BY <4>1 DEF Goes, Phases
      <4>3. Leads("none", D, h)
        BY <2>3, <2>7, <3>2 DEF Running, Waits
      <4>4. PICK r, q : r = Undeferred(s) /\ q = Project(r, e)
        OBVIOUS
      <4>5. /\ r \in Sers /\ r.deferred = <<>> /\ r.next = s.next /\ r.tools = s.tools
            /\ r.pending = s.pending /\ r.terminal = s.terminal
        BY <1>1, <4>4, WithoutFields
      <4>6. t = q.ser /\ b.out = q.out
        BY <1>1, <2>1, <2>3, <4>1, <4>4, ProjectCommutes
      <4>7. Fed(r, c, e, q, d)
        BY <1>1, <2>6, <4>4, <4>5, <4>6 DEF Fed
      <4>8. Fits("none", r, c)
        <5>1. Leads("none", r.deferred, "none")
          BY <4>2, <4>5, LeadsEmpty
        <5>2. s.tools[s.pending] # None /\ c.open = s.tools[s.pending]
          BY <2>7, <3>2 DEF Running, Waits
        <5>3. Waits("none", r, c)
          BY <3>2, <4>5, <5>1, <5>2 DEF Waits
        <5>4. Running("none", r, c)
          BY <2>7, <4>5, <5>3 DEF Running
        <5> QED
          BY <4>5, <5>4 DEF Fits
      <4>9. ~r.terminal
        BY <1>5, <4>5
      <4>10. Fits("none", q.ser, d)
        BY <4>1, <4>5, <4>7, <4>8, <4>9, PendingSteps
      <4> QED
        BY <4>2, <4>3, <4>6, <4>10
    <3> QED
      BY <3>1, <3>2
  <2>9. PICK m \in Phases : Fits(m, t, d) /\ Leads(m, D, k)
    BY <2>8
  <2>10. Fits(m, t, Received(c, b.out))
    BY <2>6, <2>9
  <2> QED
    BY <1>1, <2>2, <2>4, <2>5, <2>9, <2>10, DrainFits
<1> QED
  BY <1>3, <1>4, <1>5

(* A failure ends the stream, whatever waits.                              *)
LEMMA FailureFits ==
  ASSUME NEW s, NEW c, NEW e \in Events, NEW h \in Phases, NEW k, NEW p,
         Fits(h, s, c), e.type \in FailureTypes, p = FeedAnthropic(s, e)
  PROVE  p \in Steps /\ Fits(k, p.ser, Received(c, p.out))
<1>1. s \in Sers /\ c \in Clients
  BY DEF Fits
<1>2. CASE s.terminal
  <2>1. p = Sends(s, <<>>)
    BY <1>2 DEF FeedAnthropic
  <2>2. p \in Steps /\ p.ser = s /\ p.out = <<>>
    BY <1>1, <2>1, SendsNothing
  <2>3. Received(c, p.out) = c
    BY <1>1, <2>2, ReceivedEmpty
  <2>4. Fits(k, s, c)
    BY <1>2 DEF Fits
  <2> QED
    BY <2>2, <2>3, <2>4
<1>3. CASE ~s.terminal
  <2>1. PICK r, d : r = Undeferred(s) /\ d = Received(c, p.out)
    OBVIOUS
  <2>2. p = Project(r, e)
    BY <1>3, <2>1 DEF FeedAnthropic, Undeferred, FailureTypes
  <2>3. r \in Sers
    BY <1>1, <2>1, WithoutFields
  <2>4. Fed(r, c, e, p, d)
    BY <1>1, <2>1, <2>2, <2>3 DEF Fed
  <2>5. c.done = "no"
    BY <1>3 DEF Fits, Running
  <2>6. p.ser = Ended(r) /\ d.ok = c.ok
    BY <2>4, <2>5, MessageFails
  <2>7. p \in Steps /\ p.ser \in Sers /\ d \in Clients
    BY <2>4, FedTypes
  <2>8. p.ser.terminal
    BY <2>3, <2>6, EndedFields
  <2>9. c.ok
    BY DEF Fits
  <2>10. Fits(k, p.ser, d)
    BY <2>6, <2>7, <2>8, <2>9 DEF Fits
  <2> QED
    BY <2>1, <2>7, <2>10
<1> QED
  BY <1>2, <1>3

(* The last of at most two places.                                         *)
LEMMA MaxOfTwo ==
  /\ Max({1}) = 1 /\ Max({2}) = 2 /\ Max({1, 2}) = 2
  /\ {1} \ {1} = {} /\ {2} \ {2} = {} /\ {1, 2} \ {2} = {1}
<1>1. /\ {1} \in SUBSET (1..2) /\ {2} \in SUBSET (1..2) /\ {1, 2} \in SUBSET (1..2)
      /\ {1} # {} /\ {2} # {} /\ {1, 2} # {} /\ 2 \in Nat
  OBVIOUS
<1>2. Max({1}) \in {1} /\ Max({2}) \in {2}
  BY <1>1, MaxOfPart, Zenon
<1>3. Max({1, 2}) \in {1, 2} /\ \A y \in {1, 2} : y <= Max({1, 2})
  BY <1>1, MaxOfPart, Zenon
<1>4. Max({1, 2}) # 1
  <2> SUFFICES ASSUME Max({1, 2}) = 1 PROVE FALSE
    OBVIOUS
  <2>1. 2 <= 1
    BY <1>3
  <2> QED
    BY <2>1
<1>5. Max({1, 2}) = 2
  BY <1>3, <1>4
<1> QED
  BY <1>2, <1>5

(* All consumers take all of es.                                           *)
AllConsumed(K, es) == FoldLeft(Consume, K, es)

(* Events are consumed one after the other; a step has one or two.          *)
LEMMA ConsumedTwo ==
  ASSUME NEW K, NEW e, NEW f
  PROVE  AllConsumed(K, <<e, f>>) = Consume(Consume(K, e), f)
<1>1. PICK es : es = <<e, f>>
  OBVIOUS
<1>2. DOMAIN es = {1, 2} /\ es[1] = e /\ es[2] = f
  BY <1>1
<1> DEFINE Eq(F) == F = [p \in SUBSET DOMAIN es |->
                          IF p = {} THEN K ELSE Consume(F[p \ {Max(p)}], es[Max(p)])]
           C == CHOOSE F : Eq(F)
<1>3. PICK W : W = [p \in SUBSET DOMAIN es |->
                      IF p = {} THEN K
                      ELSE IF p = {1} THEN Consume(K, e)
                      ELSE IF p = {2} THEN Consume(K, f)
                      ELSE Consume(Consume(K, e), f)]
  OBVIOUS
<1>4. \A p \in SUBSET DOMAIN es : p = {} \/ p = {1} \/ p = {2} \/ p = {1, 2}
  BY <1>2
<1>5. /\ {1} \in SUBSET DOMAIN es /\ {2} \in SUBSET DOMAIN es /\ {1, 2} \in SUBSET DOMAIN es
      /\ {} \in SUBSET DOMAIN es
      /\ {1} # {} /\ {2} # {} /\ {1, 2} # {} /\ {1} # {2} /\ {1} # {1, 2} /\ {2} # {1, 2}
  BY <1>2
<1>6. /\ W[{}] = K /\ W[{1}] = Consume(K, e) /\ W[{2}] = Consume(K, f)
      /\ W[{1, 2}] = Consume(Consume(K, e), f)
  BY <1>3, <1>5, Zenon
<1>7. Eq(W)
  <2>1. ASSUME NEW p \in SUBSET DOMAIN es, p # {}
        PROVE  W[p] = Consume(W[p \ {Max(p)}], es[Max(p)])
    <3>1. CASE p = {1}
      BY <1>2, <1>6, <3>1, MaxOfTwo, Zenon
    <3>2. CASE p = {2}
      BY <1>2, <1>6, <3>2, MaxOfTwo, Zenon
    <3>3. CASE p = {1, 2}
      BY <1>2, <1>6, <3>3, MaxOfTwo, Zenon
    <3> QED
      BY <1>4, <2>1, <3>1, <3>2, <3>3, Zenon
  <2>2. W = [p \in SUBSET DOMAIN es |-> W[p]]
    BY <1>3
  <2>3. \A p \in SUBSET DOMAIN es :
          W[p] = IF p = {} THEN K ELSE Consume(W[p \ {Max(p)}], es[Max(p)])
    BY <1>6, <2>1, Zenon
  <2> QED
    BY <2>2, <2>3, Zenon
<1>8. AllConsumed(K, es) = C[DOMAIN es]
  BY Zenon DEF AllConsumed, FoldLeft, MapThenFoldSet, Max
<1>9. Eq(C)
  BY <1>7, Zenon
<1>10. \A p \in SUBSET DOMAIN es :
         C[p] = IF p = {} THEN K ELSE Consume(C[p \ {Max(p)}], es[Max(p)])
  BY <1>9, Zenon
<1> HIDE DEF C
<1>11. C[{}] = K
  BY <1>5, <1>10, Zenon
<1>12. C[{1}] = Consume(K, e)
  BY <1>2, <1>5, <1>10, <1>11, MaxOfTwo, Zenon
<1>13. C[{1, 2}] = Consume(Consume(K, e), f)
  <2>1. C[{1, 2}] = Consume(C[{1, 2} \ {Max({1, 2})}], es[Max({1, 2})])
    BY <1>5, <1>10, Zenon
  <2> QED
    BY <1>2, <1>12, <2>1, MaxOfTwo
<1> QED
  BY <1>1, <1>2, <1>8, <1>13

LEMMA ConsumedOne ==
  ASSUME NEW K, NEW e
  PROVE  AllConsumed(K, <<e>>) = Consume(K, e)
<1>1. PICK es : es = <<e>>
  OBVIOUS
<1>2. DOMAIN es = {1} /\ es[1] = e
  BY <1>1
<1> DEFINE Eq(F) == F = [p \in SUBSET DOMAIN es |->
                          IF p = {} THEN K ELSE Consume(F[p \ {Max(p)}], es[Max(p)])]
           C == CHOOSE F : Eq(F)
<1>3. PICK W : W = [p \in SUBSET DOMAIN es |-> IF p = {} THEN K ELSE Consume(K, e)]
  OBVIOUS
<1>4. /\ \A p \in SUBSET DOMAIN es : p = {} \/ p = {1}
      /\ {1} \in SUBSET DOMAIN es /\ {} \in SUBSET DOMAIN es /\ {1} # {}
  BY <1>2
<1>5. W[{}] = K /\ W[{1}] = Consume(K, e)
  BY <1>3, <1>4, Zenon
<1>6. Eq(W)
  <2>1. ASSUME NEW p \in SUBSET DOMAIN es, p # {}
        PROVE  W[p] = Consume(W[p \ {Max(p)}], es[Max(p)])
    <3>1. p = {1}
      BY <1>4, <2>1
    <3> QED
      BY <1>2, <1>5, <3>1, MaxOfTwo, Zenon
  <2>2. W = [p \in SUBSET DOMAIN es |-> W[p]]
    BY <1>3
  <2>3. \A p \in SUBSET DOMAIN es :
          W[p] = IF p = {} THEN K ELSE Consume(W[p \ {Max(p)}], es[Max(p)])
    BY <1>5, <2>1, Zenon
  <2> QED
    BY <2>2, <2>3, Zenon
<1>7. AllConsumed(K, es) = C[DOMAIN es]
  BY Zenon DEF AllConsumed, FoldLeft, MapThenFoldSet, Max
<1>8. \A p \in SUBSET DOMAIN es :
        C[p] = IF p = {} THEN K ELSE Consume(C[p \ {Max(p)}], es[Max(p)])
  <2>1. Eq(C)
    BY <1>6, Zenon
  <2> QED
    BY <2>1, Zenon
<1> HIDE DEF C
<1>9. C[{}] = K
  BY <1>4, <1>8, Zenon
<1>10. C[{1}] = Consume(K, e)
  <2>1. C[{1}] = Consume(C[{1} \ {Max({1})}], es[Max({1})])
    BY <1>4, <1>8, Zenon
  <2> QED
    BY <1>2, <1>9, <2>1, MaxOfTwo
<1> QED
  BY <1>1, <1>2, <1>7, <1>10

(* What one consumer makes of an event does not depend on the others.      *)
LEMMA ConsumeAnthropicStream ==
  ASSUME NEW K, NEW e, NEW k, k = Consume(K, e)
  PROVE  /\ k.an = FeedAnthropic(K.an, e).ser
         /\ k.anc = Received(K.anc, FeedAnthropic(K.an, e).out)
<1> QED
  BY Zenon DEF Consume, Received

LEMMA DeliveredOne ==
  ASSUME NEW e \in Events, NEW h \in Phases, NEW k \in Phases, Fits(h, an, anc),
         Goes(h, e, k) \/ e.type \in FailureTypes, Deliver(<<e>>)
  PROVE  Fits(k, an', anc')
<1>1. PICK s, c, p : s = an /\ c = anc /\ p = FeedAnthropic(s, e)
  OBVIOUS
<1>2. PICK K, q : K = Consumers /\ q = Consume(K, e)
  OBVIOUS
<1>3. K.an = s /\ K.anc = c
  BY <1>1, <1>2 DEF Consumers
<1>4. an' = q.an /\ anc' = q.anc
  <2>1. AllConsumed(K, <<e>>) = q
    BY <1>2, ConsumedOne
  <2> QED
    BY <1>2, <2>1, Zenon DEF Deliver, AllConsumed
<1>5. q.an = p.ser /\ q.anc = Received(c, p.out)
  BY <1>1, <1>2, <1>3, ConsumeAnthropicStream
<1>6. Fits(k, p.ser, Received(c, p.out))
  <2>1. Fits(h, s, c)
    BY <1>1
  <2>2. CASE Goes(h, e, k)
    BY <1>1, <2>1, <2>2, FeedFits
  <2>3. CASE e.type \in FailureTypes
    BY <1>1, <2>1, <2>3, FailureFits
  <2> QED
    BY <2>2, <2>3
<1> QED
  BY <1>4, <1>5, <1>6

LEMMA DeliveredTwo ==
  ASSUME NEW e \in Events, NEW f \in Events, NEW h \in Phases, NEW k \in Phases,
         NEW l \in Phases, Fits(h, an, anc), Goes(h, e, k), Goes(k, f, l), Deliver(<<e, f>>)
  PROVE  Fits(l, an', anc')
<1>1. PICK s, c, p : s = an /\ c = anc /\ p = FeedAnthropic(s, e)
  OBVIOUS
<1>2. PICK K, q, r : K = Consumers /\ q = Consume(K, e) /\ r = Consume(q, f)
  OBVIOUS
<1>3. K.an = s /\ K.anc = c
  BY <1>1, <1>2 DEF Consumers
<1>4. an' = r.an /\ anc' = r.anc
  <2>1. AllConsumed(K, <<e, f>>) = r
    <3>1. AllConsumed(K, <<e, f>>) = Consume(Consume(K, e), f)
      BY ConsumedTwo
    <3> QED
      BY <1>2, <3>1
  <2> QED
    BY <1>2, <2>1, Zenon DEF Deliver, AllConsumed
<1>5. q.an = p.ser /\ q.anc = Received(c, p.out)
  BY <1>1, <1>2, <1>3, ConsumeAnthropicStream
<1>6. Fits(k, q.an, q.anc)
  <2>1. Fits(h, s, c)
    BY <1>1
  <2> QED
    BY <1>1, <1>5, <2>1, FeedFits
<1>7. PICK x : x = FeedAnthropic(q.an, f)
  OBVIOUS
<1>8. r.an = x.ser /\ r.anc = Received(q.anc, x.out)
  BY <1>2, <1>7, ConsumeAnthropicStream
<1>9. Fits(l, x.ser, Received(q.anc, x.out))
  BY <1>6, <1>7, FeedFits
<1> QED
  BY <1>4, <1>8, <1>9

(* The parser's state.                                                     *)
ParserTypes ==
  /\ omit \in BOOLEAN /\ nested \in BOOLEAN
  /\ chan \in {"none", "reasoning", "text"} /\ value \in Values
  /\ made \in Nat /\ begun \in 0..MaxCalls /\ open \in SUBSET Calls
  /\ args \in [Calls -> Values]
  /\ ended \in {"new", "no"} \cup FailureTypes \cup Successes
  /\ ended = "new" => chan = "none"

(* What the parser has emitted so far has come to this.                    *)
Phase == IF ended = "new" THEN "new" ELSE IF ended = "no" THEN chan ELSE "done"

BlockInv == ParserTypes /\ Fits(Phase, an, anc)

(* The events of the parser.                                               *)
LEMMA EventTypes ==
  /\ \A v \in Values : \A t \in {"GenerationStarted"} \cup ReasoningTypes \cup TextTypes \cup FailureTypes :
       Event(t, 0, v) \in Events
  /\ \A v \in Values, c \in Calls : \A t \in ToolTypes : Event(t, c, v) \in Events
  /\ \A r \in Successes : Event("GenerationCompleted", 0, r) \in Events
  /\ <<>> \in Values /\ \A n \in Nat : <<n>> \in Values
  /\ \A v \in Values, n \in Nat : Append(v, n) \in Values
  /\ \A t, c, v : Event(t, c, v).type = t /\ Event(t, c, v).call = c /\ Event(t, c, v).val = v
<1>1. <<>> \in Values /\ \A n \in Nat : <<n>> \in Values
  BY DEF Values
<1>2. \A v \in Values, n \in Nat : Append(v, n) \in Values
  BY DEF Values
<1>3. \A v \in Values : \A t \in {"GenerationStarted"} \cup ReasoningTypes \cup TextTypes \cup FailureTypes :
        Event(t, 0, v) \in Events
  BY DEF Event, Events
<1>4. \A v \in Values, c \in Calls : \A t \in ToolTypes : Event(t, c, v) \in Events
  BY DEF Event, Events
<1>5. \A r \in Successes : Event("GenerationCompleted", 0, r) \in Events
  BY DEF Event, Events
<1>6. \A t, c, v : Event(t, c, v).type = t /\ Event(t, c, v).call = c /\ Event(t, c, v).val = v
  BY DEF Event
<1> QED
  BY <1>1, <1>2, <1>3, <1>4, <1>5, <1>6

LEMMA PhaseType ==
  ASSUME ParserTypes
  PROVE  /\ Phase \in Phases
         /\ ended = "no" => Phase = chan
         /\ ended = "new" => Phase = "new" /\ chan = "none"
<1> QED
  BY DEF ParserTypes, Phase, Phases

(* The beginning.                                                          *)
LEMMA BlockInit == Init => BlockInv
<1> SUFFICES ASSUME Init PROVE BlockInv
  OBVIOUS
<1>1. ParserTypes
  <2>1. [c \in Calls |-> <<>>] \in [Calls -> Values] /\ <<>> \in Values
    BY EventTypes
  <2>2. 0 \in 0..MaxCalls
    BY StreamAssumption
  <2> QED
    BY <2>1, <2>2 DEF Init, ParserTypes
<1>2. an = NewAnthropic /\ anc = NewMessage /\ Phase = "new"
  BY DEF Init, Phase
<1>3. NewAnthropic \in Sers
  <2>1. [c \in Calls |-> None] \in [Calls -> Slots] /\ None \in Slots
    BY EmptyBlockType
  <2>2. <<>> \in Seq(Events)
    OBVIOUS
  <2> QED
    BY <2>1, <2>2 DEF NewAnthropic, Sers
<1>4. NewMessage \in Clients
  <2>1. <<>> \in Seq(Blocks) /\ None \in Slots
    BY EmptyBlockType
  <2> QED
    BY <2>1 DEF NewMessage, Clients
<1>5. PICK s, c : s = NewAnthropic /\ c = NewMessage
  OBVIOUS
<1>6. /\ s.next = 0 /\ s.pending = 0 /\ s.deferred = <<>> /\ \A k \in Calls : s.tools[k] = None
      /\ c.ok /\ c.done = "no" /\ c.blocks = <<>> /\ c.open = None
  BY <1>5 DEF NewAnthropic, NewMessage
<1>7. Len(c.blocks) = 0
  BY <1>6
<1>8. Shows("new", s, c)
  BY <1>6 DEF Shows
<1>9. Idle("new", s, c)
  BY <1>3, <1>4, <1>5, <1>6, <1>7, <1>8 DEF Idle
<1> QED
  BY <1>1, <1>2, <1>5, <1>9, IdleFits DEF BlockInv

(* Two events in a row.                                                    *)
LEMMA Joined ==
  ASSUME NEW S, NEW s \in Seq(S), NEW t \in Seq(S)
  PROVE  /\ Len(s) \in Nat /\ Len(t) \in Nat
         /\ s \o t \in Seq(S) /\ Len(s \o t) = Len(s) + Len(t)
  OBVIOUS

LEMMA JoinedHeads ==
  ASSUME NEW S, NEW s \in Seq(S), NEW t \in Seq(S), Len(s) > 0, Len(t) > 0
  PROVE  (s \o t)[1] = s[1] /\ (s \o t)[Len(s) + 1] = t[1]
  OBVIOUS

LEMMA Extended ==
  ASSUME NEW S, NEW s \in Seq(S), NEW f \in S
  PROVE  /\ Append(s, f) \in Seq(S) /\ Len(Append(s, f)) = Len(s) + 1
         /\ Len(s) > 0 => Append(s, f)[1] = s[1]
         /\ Append(s, f)[Len(s) + 1] = f
  OBVIOUS

LEMMA JoinedPair ==
  ASSUME NEW S, NEW s \in Seq(S), NEW t \in Seq(S), Len(s) = 1, Len(t) = 1
  PROVE  /\ s \o t \in Seq(S) /\ Len(s \o t) = 2
         /\ (s \o t)[1] = s[1] /\ (s \o t)[2] = t[1]
<1>1. 1 + 1 = 2 /\ 1 > 0
  OBVIOUS
<1>2. Len(s) + 1 = 2 /\ Len(s) + Len(t) = 2 /\ Len(s) > 0 /\ Len(t) > 0
  BY <1>1, Zenon
<1>3. s \o t \in Seq(S) /\ Len(s \o t) = Len(s) + Len(t)
  BY Joined, Zenon
<1>4. (s \o t)[1] = s[1] /\ (s \o t)[Len(s) + 1] = t[1]
  BY <1>2, JoinedHeads, Zenon
<1>5. (s \o t)[2] = t[1]
  BY <1>2, <1>4, Zenon
<1> QED
  BY <1>2, <1>3, <1>4, <1>5, Zenon

LEMMA ExtendedOne ==
  ASSUME NEW S, NEW s \in Seq(S), NEW f \in S, Len(s) = 1
  PROVE  /\ Append(s, f) \in Seq(S) /\ Len(Append(s, f)) = 2
         /\ Append(s, f)[1] = s[1] /\ Append(s, f)[2] = f
<1>1. 1 + 1 = 2 /\ 1 > 0
  OBVIOUS
<1>2. Len(s) + 1 = 2 /\ Len(s) > 0
  BY <1>1, Zenon
<1>3. Append(s, f)[Len(s) + 1] = f /\ Append(s, f) \in Seq(S)
  BY Extended, Zenon
<1>4. Append(s, f)[2] = f
  BY <1>2, <1>3, Zenon
<1>5. Len(Append(s, f)) = Len(s) + 1 /\ (Len(s) > 0 => Append(s, f)[1] = s[1])
  BY Extended, Zenon
<1> QED
  BY <1>2, <1>3, <1>4, <1>5, Zenon

LEMMA TwoEqual ==
  ASSUME NEW S, NEW s \in Seq(S), NEW t \in Seq(S), Len(s) = 2, Len(t) = 2,
         s[1] = t[1], s[2] = t[2]
  PROVE  s = t
  OBVIOUS

LEMMA PairOf ==
  ASSUME NEW e \in Events, NEW f \in Events
  PROVE  <<e>> \o <<f>> = <<e, f>> /\ Append(<<e>>, f) = <<e, f>>
<1>1. /\ <<e>> \in Seq(Events) /\ Len(<<e>>) = 1 /\ <<e>>[1] = e
      /\ <<f>> \in Seq(Events) /\ Len(<<f>>) = 1 /\ <<f>>[1] = f
      /\ <<e, f>> \in Seq(Events) /\ Len(<<e, f>>) = 2
      /\ <<e, f>>[1] = e /\ <<e, f>>[2] = f
  OBVIOUS
<1>2. PICK s, t, r : s = <<e>> /\ t = <<f>> /\ r = <<e, f>>
  OBVIOUS
<1>3. /\ s \in Seq(Events) /\ Len(s) = 1 /\ s[1] = e
      /\ t \in Seq(Events) /\ Len(t) = 1 /\ t[1] = f
      /\ r \in Seq(Events) /\ Len(r) = 2 /\ r[1] = e /\ r[2] = f
  BY <1>1, <1>2
<1>4. s \o t = r
  BY <1>3, JoinedPair, TwoEqual
<1>5. Append(s, f) = r
  BY <1>3, ExtendedOne, TwoEqual
<1> QED
  BY <1>2, <1>4, <1>5

(* The steps of the parser.                                                *)
LEMMA BeginFits ==
  ASSUME BlockInv, Begin
  PROVE  BlockInv'
<1>1. PICK e : e = Event("GenerationStarted", 0, <<>>)
  OBVIOUS
<1>2. e \in Events /\ e.type = "GenerationStarted"
  BY <1>1, EventTypes
<1>3. Fits("new", an, anc) /\ ParserTypes /\ chan = "none"
  BY PhaseType DEF BlockInv, Begin
<1>4. Goes("new", e, "none")
  BY <1>2 DEF Goes
<1>5. Fits("none", an', anc')
  <2>1. Deliver(<<e>>)
    BY <1>1 DEF Begin
  <2> QED
    BY <1>2, <1>3, <1>4, <2>1, DeliveredOne DEF Phases
<1>6. ParserTypes' /\ Phase' = "none"
  BY <1>3 DEF Begin, ParserTypes, Phase
<1> QED
  BY <1>5, <1>6 DEF BlockInv

LEMMA ContentFits ==
  ASSUME BlockInv, NEW k \in {"reasoning", "text"}, EmitContent(k)
  PROVE  BlockInv'
<1>1. ParserTypes /\ Phase = chan /\ Fits(chan, an, anc) /\ chan \in {k, "none"}
  BY PhaseType DEF BlockInv, EmitContent
<1>2. made + 1 \in Nat /\ Append(value, made + 1) \in Values
  BY <1>1, EventTypes DEF ParserTypes
<1>3. PICK e, f :
        /\ e = Event(IF k = "text" THEN "TextStarted" ELSE "ReasoningStarted", 0, <<>>)
        /\ f = Event(IF k = "text" THEN "TextDelta" ELSE "ReasoningDelta", 0, <<made + 1>>)
  OBVIOUS
<1>4. /\ e \in Events /\ f \in Events
      /\ e.type = IF k = "text" THEN "TextStarted" ELSE "ReasoningStarted"
      /\ f.type = IF k = "text" THEN "TextDelta" ELSE "ReasoningDelta"
  BY <1>2, <1>3, EventTypes DEF TextTypes, ReasoningTypes
<1>5. Goes("none", e, k) /\ Goes(k, f, k)
  BY <1>4 DEF Goes
<1>6. Deliver((IF chan = "none" THEN <<e>> ELSE <<>>) \o <<f>>)
  BY <1>3, Zenon DEF EmitContent
<1>7. Fits(k, an', anc')
  <2>1. CASE chan = "none"
    <3>1. <<e>> \o <<f>> = <<e, f>>
      BY <1>4, PairOf
    <3>2. Deliver(<<e, f>>)
      BY <1>6, <2>1, <3>1
    <3>3. Fits("none", an, anc)
      BY <1>1, <2>1
    <3> QED
      BY <1>4, <1>5, <3>2, <3>3, DeliveredTwo DEF Phases
  <2>2. CASE chan # "none"
    <3>1. <<>> \o <<f>> = <<f>>
      OBVIOUS
    <3>2. Deliver(<<f>>)
      BY <1>6, <2>2, <3>1
    <3>3. Fits(k, an, anc)
      BY <1>1, <2>2
    <3> QED
      BY <1>4, <1>5, <3>2, <3>3, DeliveredOne DEF Phases
  <2> QED
    BY <2>1, <2>2
<1>8. ParserTypes' /\ Phase' = k
  BY <1>1, <1>2 DEF EmitContent, ParserTypes, Phase
<1> QED
  BY <1>7, <1>8 DEF BlockInv

(* The event that closes a channel.                                        *)
LEMMA CloseEventsAre ==
  ASSUME ParserTypes
  PROVE  \/ chan = "none" /\ CloseEvents = <<>>
         \/ \E e \in Events : CloseEvents = <<e>> /\ Goes(chan, e, "none")
<1>1. CASE chan = "none"
  BY <1>1 DEF CloseEvents
<1>2. CASE chan = "reasoning"
  <2>1. PICK e : e = Event("ReasoningCompleted", 0, value)
    OBVIOUS
  <2>2. e \in Events /\ e.type = "ReasoningCompleted"
    BY <2>1, EventTypes DEF ParserTypes, ReasoningTypes
  <2>3. CloseEvents = <<e>>
    BY <1>2, <2>1 DEF CloseEvents
  <2>4. Goes(chan, e, "none")
    BY <1>2, <2>2 DEF Goes
  <2> QED
    BY <2>2, <2>3, <2>4
<1>3. CASE chan = "text"
  <2>1. PICK e : e = Event("TextCompleted", 0, value)
    OBVIOUS
  <2>2. e \in Events /\ e.type = "TextCompleted"
    BY <2>1, EventTypes DEF ParserTypes, TextTypes
  <2>3. CloseEvents = <<e>>
    BY <1>3, <2>1 DEF CloseEvents
  <2>4. Goes(chan, e, "none")
    BY <1>3, <2>2 DEF Goes
  <2> QED
    BY <2>2, <2>3, <2>4
<1> QED
  BY <1>1, <1>2, <1>3 DEF ParserTypes

LEMMA CloseFits ==
  ASSUME BlockInv, CloseCurrentChannel
  PROVE  BlockInv'
<1>1. ParserTypes /\ Phase = chan /\ Fits(chan, an, anc) /\ chan \in Phases /\ chan # "none"
  BY PhaseType DEF BlockInv, CloseCurrentChannel
<1>2. PICK e \in Events : CloseEvents = <<e>> /\ Goes(chan, e, "none")
  BY <1>1, CloseEventsAre
<1>3. Fits("none", an', anc')
  <2>1. PICK h : h = chan
    OBVIOUS
  <2>2. Deliver(<<e>>)
    BY <1>2 DEF CloseCurrentChannel
  <2> QED
    BY <1>1, <1>2, <2>1, <2>2, DeliveredOne DEF Phases
<1>4. ParserTypes' /\ Phase' = "none"
  BY <1>1, EventTypes DEF CloseCurrentChannel, ParserTypes, Phase
<1> QED
  BY <1>3, <1>4 DEF BlockInv

LEMMA StartFits ==
  ASSUME BlockInv, StartCall
  PROVE  BlockInv'
<1>1. ParserTypes /\ Phase = chan /\ Fits("none", an, anc) /\ chan = "none"
  BY PhaseType DEF BlockInv, StartCall
<1>2. begun + 1 \in Calls /\ begun + 1 \in 0..MaxCalls
  BY <1>1, StreamAssumption DEF ParserTypes, StartCall, Calls
<1>3. PICK e : e = Event("ToolCallStarted", begun + 1, <<>>)
  OBVIOUS
<1>4. e \in Events /\ e.type = "ToolCallStarted"
  BY <1>2, <1>3, EventTypes DEF ToolTypes
<1>5. Goes("none", e, "none")
  BY <1>4 DEF Goes
<1>6. Fits("none", an', anc')
  <2>1. Deliver(<<e>>)
    BY <1>3 DEF StartCall
  <2> QED
    BY <1>1, <1>4, <1>5, <2>1, DeliveredOne DEF Phases
<1>7. ParserTypes' /\ Phase' = "none"
  BY <1>1, <1>2 DEF StartCall, ParserTypes, Phase
<1> QED
  BY <1>6, <1>7 DEF BlockInv

LEMMA CallFits ==
  ASSUME BlockInv, NEW c \in open, CallArguments(c) \/ CompleteCall(c)
  PROVE  BlockInv'
<1>1. ParserTypes /\ Phase = chan /\ Fits(chan, an, anc) /\ chan \in Phases /\ ended = "no"
  BY PhaseType DEF BlockInv, CallArguments, CompleteCall
<1>2. /\ c \in Calls /\ made + 1 \in Nat /\ <<made + 1>> \in Values /\ args[c] \in Values
      /\ Append(args[c], made + 1) \in Values
      /\ chan \in {"none", "reasoning", "text"}
  BY <1>1, EventTypes DEF ParserTypes
<1>3. PICK e, f : /\ e = Event("ToolCallArgumentsDelta", c, <<made + 1>>)
                  /\ f = Event("ToolCallCompleted", c, args[c])
  OBVIOUS
<1>4. /\ e \in Events /\ e.type = "ToolCallArgumentsDelta"
      /\ f \in Events /\ f.type = "ToolCallCompleted"
  <2>1. "ToolCallArgumentsDelta" \in ToolTypes /\ "ToolCallCompleted" \in ToolTypes
    BY DEF ToolTypes
  <2>2. e \in Events /\ e.type = "ToolCallArgumentsDelta"
    BY <1>2, <1>3, <2>1, EventTypes
  <2>3. f \in Events /\ f.type = "ToolCallCompleted"
    <3>1. PICK v : v = args[c]
      OBVIOUS
    <3>2. f = Event("ToolCallCompleted", c, v) /\ v \in Values
      BY <1>2, <1>3, <3>1
    <3> QED
      BY <1>2, <2>1, <3>2, EventTypes
  <2> QED
    BY <2>2, <2>3
<1>5. PICK h : h = chan
  OBVIOUS
<1>6. Goes(h, e, h) /\ Goes(h, f, h)
  BY <1>2, <1>4, <1>5 DEF Goes
<1>7. Fits(h, an', anc')
  <2>1. Deliver(<<e>>) \/ Deliver(<<f>>)
    BY <1>3 DEF CallArguments, CompleteCall
  <2> QED
    BY <1>1, <1>4, <1>5, <1>6, <2>1, DeliveredOne
<1>8. ParserTypes' /\ Phase' = h
  <2>1. CASE CallArguments(c)
    BY <1>1, <1>2, <1>5, <2>1 DEF CallArguments, ParserTypes, Phase
  <2>2. CASE CompleteCall(c)
    BY <1>1, <1>2, <1>5, <2>2 DEF CompleteCall, ParserTypes, Phase
  <2> QED
    BY <2>1, <2>2
<1> QED
  BY <1>7, <1>8 DEF BlockInv

LEMMA FinishFits ==
  ASSUME BlockInv, NEW reason \in Successes, Finish(reason)
  PROVE  BlockInv'
<1>1. ParserTypes /\ Phase = chan /\ Fits(chan, an, anc) /\ chan \in Phases
  BY PhaseType DEF BlockInv, Finish
<1>2. PICK f : f = Event("GenerationCompleted", 0, reason)
  OBVIOUS
<1>3. f \in Events /\ f.type = "GenerationCompleted"
  BY <1>2, EventTypes
<1>4. Goes("none", f, "done")
  BY <1>3 DEF Goes
<1>5. PICK h : h = chan
  OBVIOUS
<1>6. Fits("done", an', anc')
  <2>1. CASE chan = "none" /\ CloseEvents = <<>>
    <3>1. Append(<<>>, f) = <<f>>
      OBVIOUS
    <3>2. Deliver(<<f>>)
      BY <1>2, <2>1, <3>1 DEF Finish
    <3>3. Fits("none", an, anc)
      BY <1>1, <2>1
    <3> QED
      BY <1>3, <1>4, <3>2, <3>3, DeliveredOne DEF Phases
  <2>2. CASE \E e \in Events : CloseEvents = <<e>> /\ Goes(chan, e, "none")
    <3>1. PICK e \in Events : CloseEvents = <<e>> /\ Goes(h, e, "none")
      BY <1>5, <2>2
    <3>2. Append(<<e>>, f) = <<e, f>>
      BY <1>3, <3>1, PairOf
    <3>3. Deliver(<<e, f>>)
      BY <1>2, <3>1, <3>2 DEF Finish
    <3>4. Fits(h, an, anc) /\ h \in Phases
      BY <1>1, <1>5
    <3> QED
      BY <1>3, <1>4, <3>1, <3>3, <3>4, DeliveredTwo DEF Phases
  <2> QED
    BY <1>1, <2>1, <2>2, CloseEventsAre
<1>7. ParserTypes' /\ Phase' = "done"
  BY <1>1, EventTypes DEF Finish, ParserTypes, Phase, Successes, FailureTypes
<1> QED
  BY <1>6, <1>7 DEF BlockInv

LEMMA StopFits ==
  ASSUME BlockInv, NEW type \in FailureTypes, Stop(type)
  PROVE  BlockInv'
<1>1. ParserTypes /\ Phase = chan /\ Fits(chan, an, anc) /\ chan \in Phases
  BY PhaseType DEF BlockInv, Stop
<1>2. PICK e : e = Event(type, 0, <<>>)
  OBVIOUS
<1>3. e \in Events /\ e.type \in FailureTypes
  BY <1>2, EventTypes
<1>4. Fits("done", an', anc')
  <2>1. PICK h : h = chan
    OBVIOUS
  <2>2. Deliver(<<e>>)
    BY <1>2 DEF Stop
  <2> QED
    BY <1>1, <1>3, <2>1, <2>2, DeliveredOne DEF Phases
<1>5. ParserTypes' /\ Phase' = "done"
  BY <1>1 DEF Stop, ParserTypes, Phase, FailureTypes
<1> QED
  BY <1>4, <1>5 DEF BlockInv

LEMMA BlockNext ==
  ASSUME BlockInv, [Next]_vars
  PROVE  BlockInv'
<1>1. CASE Begin
  BY <1>1, BeginFits
<1>2. CASE EmitContent("reasoning") \/ EmitContent("text")
  BY <1>2, ContentFits
<1>3. CASE CloseCurrentChannel
  BY <1>3, CloseFits
<1>4. CASE StartCall
  BY <1>4, StartFits
<1>5. CASE \E c \in open : CallArguments(c) \/ CompleteCall(c)
  BY <1>5, CallFits
<1>6. CASE \E reason \in Successes : Finish(reason)
  BY <1>6, FinishFits
<1>7. CASE \E type \in {"GenerationFailed", "GenerationCancelled"} : Stop(type)
  BY <1>7, StopFits DEF FailureTypes
<1>8. CASE UNCHANGED vars
  BY <1>8 DEF vars, source, BlockInv, ParserTypes, Phase
<1> QED
  BY <1>1, <1>2, <1>3, <1>4, <1>5, <1>6, <1>7, <1>8 DEF Next

(* The content blocks of an Anthropic stream never overlap, and nothing    *)
(* follows its end, for any number of pieces and calls and however the     *)
(* calls of a parser interleave                                            *)
(* (protocol/anthropic/serialization.py, feed).                            *)
THEOREM BlocksCorrect == Spec => []BlocksNeverOverlap
<1>1. BlockInv => BlocksNeverOverlap
  BY DEF BlockInv, Fits, BlocksNeverOverlap
<1> QED
  BY <1>1, BlockInit, BlockNext, PTL DEF Spec
=============================================================================
