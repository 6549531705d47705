--------------------------- MODULE RuntimeProofs ---------------------------
(***************************************************************************)
(* Proofs about the parts of the runtime (runtime/exllamav3.py and         *)
(* runtime/vision_cache.py), for every value of the constants:             *)
(*   - a runtime session delivers exactly what the job generated, and is a *)
(*     terminal stream (RuntimeSession);                                   *)
(*   - the cache of image embeddings is exact, and a transaction on it is  *)
(*     never overtaken (VisionCache);                                      *)
(*   - the loaded K/V cache belongs to one generator that is never lost    *)
(*     sight of, and a session that fails is told a cause                  *)
(*     (GeneratorRecovery).                                                *)
(* The first two compute with folds over sequences; each operator's value  *)
(* for one more element is derived with SequenceFolds, and its other facts *)
(* follow by induction on the sequence.                                    *)
(*                                                                         *)
(* Most steps of a recovery do one of four things to the ownership of the  *)
(* K/V cache: they leave it alone, put the generator in quarantine, end a  *)
(* recovery, or let close() go on.  A lemma deals with each.               *)
(***************************************************************************)
EXTENDS RuntimeSession, VisionCache, GeneratorRecovery, FiniteSetTheorems, SequenceFolds

-----------------------------------------------------------------------------
(* Sequences of sequences.                                                 *)

(* Concat, one sequence at a time.                                         *)
Joins(S) == [v \in Seq(S) |-> [w \in Seq(S) |-> v \o w]]

(* The concatenation of sequences is such a fold.                          *)
LEMMA ConcatRuns ==
  ASSUME NEW S, NEW seqs \in Seq(Seq(S))
  PROVE  FoldsTo(Seq(S), <<>>, Joins(S), seqs, Concat(seqs))
<1> DEFINE V == Seq(S)
           a == <<>>
           g == Joins(S)
           Eq(F) == F = [p \in SUBSET DOMAIN seqs |->
                          IF p = {} THEN a ELSE F[p \ {Max(p)}] \o seqs[Max(p)]]
           C == CHOOSE F : Eq(F)
<1>1. a \in V
  OBVIOUS
<1>2. g \in [V -> [V -> V]] /\ \A v, w \in V : g[v][w] = v \o w
  BY DEF Joins
<1>3. Concat(seqs) = C[DOMAIN seqs]
  BY Zenon DEF Concat, FoldLeft, MapThenFoldSet
<1> HIDE DEF V, a, g, C
<1>4. seqs \in Seq(V)
  BY DEF V
<1>5. PICK F : FoldOver(F, V, V, a, g, seqs)
  BY <1>1, <1>2, <1>4, FoldOverExists
<1>6. Eq(F)
  <2>1. \A p \in SUBSET DOMAIN seqs : F[p] = IF p = {} THEN a ELSE F[p \ {Max(p)}] \o seqs[Max(p)]
    BY <1>2, <1>5 DEF FoldOver
  <2>2. F = [p \in SUBSET DOMAIN seqs |-> F[p]]
    BY <1>5 DEF FoldOver
  <2> QED
    BY <2>1, <2>2, Zenon
<1>7. \A p \in SUBSET DOMAIN seqs :
        C[p] = IF p = {} THEN a ELSE C[p \ {Max(p)}] \o seqs[Max(p)]
  <2>1. Eq(C)
    BY <1>6, Zenon DEF C
  <2> QED
    BY <2>1, Zenon
<1>8. Folds(C, V, a, g, seqs)
  <2>1. \A p \in SUBSET DOMAIN seqs : p # {} => seqs[Max(p)] \in V
    BY <1>5 DEF FoldOver
  <2> QED
    BY <1>2, <1>7, <2>1 DEF Folds
<1>9. FoldsTo(V, a, g, seqs, Concat(seqs))
  <2>1. PICK K, result : K = C /\ result = Concat(seqs)
    OBVIOUS
  <2>2. Folds(K, V, a, g, seqs) /\ result = K[DOMAIN seqs]
    BY <1>3, <1>8, <2>1
  <2>3. FoldsTo(V, a, g, seqs, result)
    BY <1>1, <1>2, <1>4, <2>2, FoldRuns
  <2> QED
    BY <2>1, <2>3
<1> QED
  BY <1>9 DEF V, a, g

(* No sequences have an empty concatenation.                               *)
LEMMA ConcatEmpty == Concat(<<>>) = <<>>
<1>1. <<>> \in Seq(Seq({}))
  OBVIOUS
<1>2. FoldsTo(Seq({}), <<>>, Joins({}), <<>>, Concat(<<>>))
  BY <1>1, ConcatRuns
<1> QED
  BY <1>2, FoldEmpty

(* The concatenation with one more sequence.                               *)
LEMMA ConcatAppend ==
  ASSUME NEW S, NEW seqs \in Seq(Seq(S)), NEW s \in Seq(S)
  PROVE  /\ Concat(seqs) \in Seq(S)
         /\ Concat(Append(seqs, s)) = Concat(seqs) \o s
<1> DEFINE V == Seq(S)
           a == <<>>
           g == Joins(S)
<1>1. a \in V /\ seqs \in Seq(V) /\ s \in V
  OBVIOUS
<1>2. g \in [V -> [V -> V]]
  BY DEF Joins
<1>j. \A v, w \in V : g[v][w] = v \o w
  BY DEF Joins
<1>3. /\ FoldsTo(V, a, g, seqs, Concat(seqs))
      /\ FoldsTo(V, a, g, Append(seqs, s), Concat(Append(seqs, s)))
  <2>1. Append(seqs, s) \in Seq(Seq(S))
    BY <1>1
  <2> QED
    BY <2>1, ConcatRuns
<1> HIDE DEF V, a, g
<1>4. Concat(seqs) \in V /\ Concat(Append(seqs, s)) = g[Concat(seqs)][s]
  <2>1. PICK r, q, more : r = Concat(seqs) /\ q = Concat(Append(seqs, s)) /\ more = Append(seqs, s)
    OBVIOUS
  <2>2. FoldsTo(V, a, g, seqs, r) /\ FoldsTo(V, a, g, more, q)
    BY <1>3, <2>1
  <2>3. Continues(V, V, a, g, seqs, s, more)
    BY <1>1, <1>2, <2>1, Zenon DEF Continues, Longer
  <2>4. r \in V /\ q = g[r][s]
    BY <2>2, <2>3, FoldAppend
  <2> QED
    BY <2>1, <2>4
<1>5. Concat(Append(seqs, s)) = Concat(seqs) \o s
  BY <1>1, <1>j, <1>4
<1> QED
  BY <1>4, <1>5 DEF V

(* The concatenation of the sequences of two sequences.                    *)
LEMMA ConcatConcat ==
  ASSUME NEW S, NEW a \in Seq(Seq(S)), NEW b \in Seq(Seq(S))
  PROVE  Concat(a \o b) = Concat(a) \o Concat(b)
<1> DEFINE T == {c \in Seq(Seq(S)) : Concat(a \o c) = Concat(a) \o Concat(c)}
<1>1. <<>> \in T
  <2>1. <<>> \in Seq(Seq(S)) /\ <<>> \in Seq(S) /\ a \o <<>> = a
    OBVIOUS
  <2>2. Concat(a) \in Seq(S)
    BY <2>1, ConcatAppend
  <2> QED
    BY <2>1, <2>2, ConcatEmpty
<1>2. \A c \in Seq(Seq(S)), e \in Seq(S) : c \in T => Append(c, e) \in T
  <2> SUFFICES ASSUME NEW c \in Seq(Seq(S)), NEW e \in Seq(S), c \in T PROVE Append(c, e) \in T
    OBVIOUS
  <2>1. Append(c, e) \in Seq(Seq(S)) /\ a \o Append(c, e) = Append(a \o c, e) /\ a \o c \in Seq(Seq(S))
    <3> DEFINE R == Seq(S)
    <3>1. a \in Seq(R) /\ c \in Seq(R) /\ e \in R
      OBVIOUS
    <3> HIDE DEF R
    <3>2. Append(c, e) \in Seq(R) /\ a \o Append(c, e) = Append(a \o c, e) /\ a \o c \in Seq(R)
      BY <3>1
    <3> QED
      BY <3>2 DEF R
  <2>2. Concat(Append(a \o c, e)) = Concat(a \o c) \o e
    BY <2>1, ConcatAppend
  <2>3. /\ Concat(Append(c, e)) = Concat(c) \o e
        /\ Concat(a) \in Seq(S) /\ Concat(c) \in Seq(S)
    BY ConcatAppend
  <2>4. (Concat(a) \o Concat(c)) \o e = Concat(a) \o (Concat(c) \o e)
    BY <2>3, ConcatAssociative
  <2> QED
    BY <2>1, <2>2, <2>3, <2>4
<1> HIDE DEF T
<1>3. b \in T
  BY <1>1, <1>2, SeqInduction
<1> QED
  BY <1>3 DEF T

(* What c makes of each element of q.                                      *)
Mapped(c, q) == [i \in DOMAIN q |-> c[q[i]]]

(* c makes a sequence of each element.                                     *)
Spreads(c, X, S) == c \in [X -> Seq(S)]

(* What the elements are spread to, with one more element.                 *)
LEMMA MappedAppend ==
  ASSUME NEW X, NEW S, NEW c, Spreads(c, X, S), NEW q \in Seq(X), NEW x \in X
  PROVE  /\ Concat(Mapped(c, q)) \in Seq(S)
         /\ Concat(Mapped(c, Append(q, x))) = Concat(Mapped(c, q)) \o c[x]
<1> DEFINE V == Seq(S)
           y == c[x]
<1>1. \A z \in X : c[z] \in V
  BY DEF Spreads
<1>2. Mapped(c, q) \in Seq(V) /\ y \in V
  <2>1. DOMAIN q = 1..Len(q) /\ Len(q) \in Nat /\ \A i \in 1..Len(q) : q[i] \in X
    OBVIOUS
  <2>2. PICK n : n = Len(q)
    OBVIOUS
  <2> HIDE DEF V
  <2>3. \A i \in 1..n : c[q[i]] \in V
    BY <1>1, <2>1, <2>2
  <2>4. Mapped(c, q) = [i \in 1..n |-> c[q[i]]] /\ n \in Nat
    BY <2>1, <2>2 DEF Mapped
  <2>5. Mapped(c, q) \in Seq(V)
    BY <2>3, <2>4
  <2> QED
    BY <1>1, <2>5
<1>3. Mapped(c, Append(q, x)) = Append(Mapped(c, q), y)
  <2>1. Len(Append(q, x)) = Len(q) + 1 /\ DOMAIN Append(q, x) = 1..(Len(q) + 1) /\ Len(q) \in Nat
    OBVIOUS
  <2>2. \A i \in 1..(Len(q) + 1) : Append(q, x)[i] = IF i <= Len(q) THEN q[i] ELSE x
    OBVIOUS
  <2>3. DOMAIN Mapped(c, q) = 1..Len(q) /\ Len(Mapped(c, q)) = Len(q)
    BY <1>2 DEF Mapped
  <2>4. /\ Len(Append(Mapped(c, q), y)) = Len(q) + 1
        /\ DOMAIN Append(Mapped(c, q), y) = 1..(Len(q) + 1)
        /\ \A i \in 1..(Len(q) + 1) :
              Append(Mapped(c, q), y)[i] = IF i <= Len(q) THEN Mapped(c, q)[i] ELSE y
        /\ Append(Mapped(c, q), y) \in Seq(V)
    <3>1. PICK d, z : d = Mapped(c, q) /\ z = y /\ d \in Seq(V) /\ z \in V /\ Len(d) = Len(q)
      BY <1>2, <2>3
    <3> HIDE DEF V, y
    <3>2. /\ Len(Append(d, z)) = Len(d) + 1 /\ DOMAIN Append(d, z) = 1..(Len(d) + 1)
          /\ \A i \in 1..(Len(d) + 1) : Append(d, z)[i] = IF i <= Len(d) THEN d[i] ELSE z
          /\ Append(d, z) \in Seq(V)
      BY <3>1
    <3> QED
      BY <3>1, <3>2
  <2>5. PICK a, b : a = Append(q, x) /\ b = Append(Mapped(c, q), y)
    OBVIOUS
  <2>6. \A i \in 1..(Len(q) + 1) : Mapped(c, a)[i] = b[i]
    <3> SUFFICES ASSUME NEW i \in 1..(Len(q) + 1) PROVE Mapped(c, a)[i] = b[i]
      OBVIOUS
    <3>1. Mapped(c, a)[i] = c[a[i]]
      BY <2>1, <2>5 DEF Mapped
    <3>2. CASE i <= Len(q)
      <4>1. a[i] = q[i] /\ b[i] = Mapped(c, q)[i] /\ i \in DOMAIN q
        BY <2>2, <2>4, <2>5, <3>2
      <4> QED
        BY <3>1, <4>1 DEF Mapped
    <3>3. CASE ~(i <= Len(q))
      <4>1. a[i] = x /\ b[i] = y
        BY <2>2, <2>4, <2>5, <3>3
      <4> QED
        BY <3>1, <4>1
    <3> QED
      BY <3>2, <3>3
  <2>7. /\ Mapped(c, a) = [i \in 1..(Len(q) + 1) |-> Mapped(c, a)[i]]
        /\ b = [i \in 1..(Len(q) + 1) |-> b[i]]
    <3>1. DOMAIN a = 1..(Len(q) + 1)
      BY <2>1, <2>5
    <3>2. b \in Seq(V) /\ Len(b) = Len(q) + 1
      BY <2>4, <2>5
    <3> HIDE DEF V
    <3>3. b = [i \in 1..(Len(q) + 1) |-> b[i]]
      BY <3>2
    <3> QED
      BY <3>1, <3>3 DEF Mapped
  <2> HIDE DEF y
  <2>8. Mapped(c, a) = b
    BY <2>6, <2>7, Zenon
  <2> QED
    BY <2>5, <2>8
<1> HIDE DEF y, V
<1>4. Concat(Mapped(c, q)) \in V /\ Concat(Append(Mapped(c, q), y)) = Concat(Mapped(c, q)) \o y
  <2>1. PICK d : d = Mapped(c, q)
    OBVIOUS
  <2>2. d \in Seq(Seq(S)) /\ y \in Seq(S)
    BY <1>2, <2>1 DEF V
  <2>3. Concat(d) \in Seq(S) /\ Concat(Append(d, y)) = Concat(d) \o y
    BY <2>2, ConcatAppend
  <2> QED
    BY <2>1, <2>3 DEF V
<1> QED
  BY <1>3, <1>4, Zenon DEF V, y

-----------------------------------------------------------------------------
(* What is in the queue and what the consumer is given.                    *)
Results == [kind : {"streaming"}, pieces : Seq(Pieces), verified : BOOLEAN, eos : BOOLEAN]
(* What the job queues.                                                    *)
Items == {Started, Exception, Sentinel} \cup Results

(* What the session gives to its consumer.                                 *)
TextEvents == [kind : {"text"}, pieces : Seq(Pieces), spans : [known : BOOLEAN, at : SUBSET Nat]]
Events == {Started, Cancelled, Failed} \cup TextEvents
            \cup [kind : {"finished"}, activated : BOOLEAN]
(* Everything that carries pieces.                                         *)
Things == Items \cup Events

(* The pieces of a result or an event, and of a sequence of them.          *)
Carried(x) == IF x.kind \in {"text", "streaming"} THEN x.pieces ELSE <<>>
(* The pieces that a sequence of results or events carries.                *)
Flow(q) == Concat([i \in DOMAIN q |-> Carried(q[i])])

(* What is carried is a sequence of pieces.                                *)
LEMMA CarriedType ==
  ASSUME NEW x \in Things
  PROVE  Carried(x) \in Seq(Pieces)
<1>1. CASE x \in Results \cup TextEvents
  BY <1>1 DEF Results, TextEvents, Carried
<1>2. CASE x \in {Started, Exception, Sentinel, Cancelled, Failed} \cup [kind : {"finished"}, activated : BOOLEAN]
  <2>1. x.kind \notin {"text", "streaming"}
    BY <1>2 DEF Started, Exception, Sentinel, Cancelled, Failed
  <2> QED
    BY <2>1 DEF Carried
<1> QED
  BY <1>1, <1>2 DEF Things, Items, Events

(* Nothing carries nothing.                                                *)
LEMMA FlowEmpty == Flow(<<>>) = <<>>
<1>1. [i \in DOMAIN <<>> |-> Carried(<<>>[i])] = <<>>
  OBVIOUS
<1> QED
  BY <1>1, ConcatEmpty DEF Flow

(* What one more result or event carries comes last.                       *)
LEMMA FlowAppend ==
  ASSUME NEW q \in Seq(Things), NEW x \in Things
  PROVE  /\ Flow(q) \in Seq(Pieces)
         /\ Flow(Append(q, x)) = Flow(q) \o Carried(x)
<1> DEFINE c == [z \in Things |-> Carried(z)]
<1>1. Spreads(c, Things, Pieces)
  BY CarriedType DEF Spreads
<1>2. \A s \in Seq(Things) : Flow(s) = Concat(Mapped(c, s))
  <2> SUFFICES ASSUME NEW s \in Seq(Things) PROVE Flow(s) = Concat(Mapped(c, s))
    OBVIOUS
  <2>1. \A i \in DOMAIN s : s[i] \in Things
    OBVIOUS
  <2>2. [i \in DOMAIN s |-> Carried(s[i])] = Mapped(c, s)
    BY <2>1 DEF Mapped
  <2> HIDE DEF c
  <2> QED
    BY <2>2 DEF Flow
<1>3. c[x] = Carried(x)
  OBVIOUS
<1>4. Append(q, x) \in Seq(Things)
  OBVIOUS
<1> HIDE DEF c
<1>5. /\ Concat(Mapped(c, q)) \in Seq(Pieces)
      /\ Concat(Mapped(c, Append(q, x))) = Concat(Mapped(c, q)) \o c[x]
  BY <1>1, MappedAppend
<1> QED
  BY <1>2, <1>3, <1>4, <1>5

(* The flow of a single result or event.                                   *)
LEMMA FlowOne ==
  ASSUME NEW x \in Things
  PROVE  Flow(<<x>>) = Carried(x)
<1>1. <<>> \in Seq(Things) /\ Append(<<>>, x) = <<x>>
  OBVIOUS
<1>2. Flow(Append(<<>>, x)) = Flow(<<>>) \o Carried(x)
  BY <1>1, FlowAppend
<1>3. <<>> \o Carried(x) = Carried(x)
  BY CarriedType, ConcatEmptySeq
<1> QED
  BY <1>1, <1>2, <1>3, FlowEmpty

(* The flow of a concatenation.                                            *)
LEMMA FlowConcat ==
  ASSUME NEW q \in Seq(Things), NEW r \in Seq(Things)
  PROVE  /\ q \o r \in Seq(Things)
         /\ Flow(q) \in Seq(Pieces) /\ Flow(r) \in Seq(Pieces)
         /\ Flow(q \o r) = Flow(q) \o Flow(r)
<1> DEFINE T == {s \in Seq(Things) : Flow(s) \in Seq(Pieces) /\ Flow(q \o s) = Flow(q) \o Flow(s)}
<1>0. Flow(q) \in Seq(Pieces)
  BY FlowAppend DEF Things, Items
<1>1. <<>> \in T
  <2>1. <<>> \in Seq(Things) /\ <<>> \in Seq(Pieces) /\ q \o <<>> = q
    OBVIOUS
  <2>2. Flow(q) \o <<>> = Flow(q)
    BY <1>0, ConcatEmptySeq
  <2> QED
    BY <2>1, <2>2, FlowEmpty
<1>2. \A s \in Seq(Things), x \in Things : s \in T => Append(s, x) \in T
  <2> SUFFICES ASSUME NEW s \in Seq(Things), NEW x \in Things, s \in T PROVE Append(s, x) \in T
    OBVIOUS
  <2>1. /\ Append(s, x) \in Seq(Things) /\ q \o s \in Seq(Things)
        /\ q \o Append(s, x) = Append(q \o s, x)
    OBVIOUS
  <2>2. Flow(Append(q \o s, x)) = Flow(q \o s) \o Carried(x)
    BY <2>1, FlowAppend
  <2>3. Flow(Append(s, x)) = Flow(s) \o Carried(x)
    BY FlowAppend
  <2>4. Carried(x) \in Seq(Pieces) /\ Flow(s) \in Seq(Pieces)
    BY CarriedType
  <2>5. (Flow(q) \o Flow(s)) \o Carried(x) = Flow(q) \o (Flow(s) \o Carried(x))
    BY <1>0, <2>4, ConcatAssociative
  <2>6. Flow(s) \o Carried(x) \in Seq(Pieces)
    BY <2>4, ConcatProperties
  <2> QED
    BY <2>1, <2>2, <2>3, <2>5, <2>6
<1> HIDE DEF T
<1>3. r \in T
  BY <1>1, <1>2, SeqInduction
<1> QED
  BY <1>0, <1>3 DEF T

(* The flow of a sequence that is cut in two.                              *)
LEMMA FlowSplit ==
  ASSUME NEW q \in Seq(Things), NEW k \in 0..Len(q)
  PROVE  /\ SubSeq(q, 1, k) \in Seq(Things) /\ SubSeq(q, k + 1, Len(q)) \in Seq(Things)
         /\ Flow(q) = Flow(SubSeq(q, 1, k)) \o Flow(SubSeq(q, k + 1, Len(q)))
<1>1. /\ SubSeq(q, 1, k) \in Seq(Things) /\ SubSeq(q, k + 1, Len(q)) \in Seq(Things)
  OBVIOUS
<1>2. q = SubSeq(q, 1, k) \o SubSeq(q, k + 1, Len(q))
  <2>1. Len(q) \in Nat /\ k \in Nat /\ SubSeq(q, 1, Len(q)) = q
    OBVIOUS
  <2>2. 1 \in 1..(Len(q) + 1) /\ k \in (1 - 1)..Len(q) /\ Len(q) \in k..Len(q)
    BY <2>1
  <2>3. SubSeq(q, 1, k) \o SubSeq(q, k + 1, Len(q)) = SubSeq(q, 1, Len(q))
    BY <2>2, ConcatAdjacentSubSeq
  <2> QED
    BY <2>1, <2>3
<1> QED
  BY <1>1, <1>2, FlowConcat

(* The flow of a sequence that is read from its head.                      *)
LEMMA FlowHead ==
  ASSUME NEW q \in Seq(Things), q # <<>>
  PROVE  /\ Head(q) \in Things /\ Tail(q) \in Seq(Things)
         /\ Flow(q) = Carried(Head(q)) \o Flow(Tail(q))
<1>1. /\ Head(q) \in Things /\ Tail(q) \in Seq(Things)
      /\ <<Head(q)>> \in Seq(Things) /\ q = <<Head(q)>> \o Tail(q)
  OBVIOUS
<1>2. Flow(q) = Flow(<<Head(q)>>) \o Flow(Tail(q))
  BY <1>1, FlowConcat
<1> QED
  BY <1>1, <1>2, FlowOne

(* No element carries more than all of them.                               *)
LEMMA FlowLonger ==
  ASSUME NEW q \in Seq(Things)
  PROVE  \A i \in DOMAIN q : Len(Carried(q[i])) <= Len(Flow(q))
<1> DEFINE T == {s \in Seq(Things) : \A i \in DOMAIN s : Len(Carried(s[i])) <= Len(Flow(s))}
<1>1. <<>> \in T
  <2>1. <<>> \in Seq(Things) /\ DOMAIN <<>> = {}
    OBVIOUS
  <2> QED
    BY <2>1
<1>2. \A s \in Seq(Things), x \in Things : s \in T => Append(s, x) \in T
  <2> SUFFICES ASSUME NEW s \in Seq(Things), NEW x \in Things, s \in T PROVE Append(s, x) \in T
    OBVIOUS
  <2>1. /\ Append(s, x) \in Seq(Things) /\ DOMAIN s = 1..Len(s) /\ Len(s) \in Nat
        /\ DOMAIN Append(s, x) = 1..(Len(s) + 1)
        /\ Append(s, x)[Len(s) + 1] = x /\ \A i \in 1..Len(s) : Append(s, x)[i] = s[i]
    OBVIOUS
  <2>2. /\ Flow(s) \in Seq(Pieces) /\ Carried(x) \in Seq(Pieces)
        /\ Flow(Append(s, x)) = Flow(s) \o Carried(x)
    BY CarriedType, FlowAppend
  <2>3. /\ Len(Flow(Append(s, x))) = Len(Flow(s)) + Len(Carried(x))
        /\ Len(Flow(s)) \in Nat /\ Len(Carried(x)) \in Nat
    BY <2>2, ConcatProperties
  <2>4. \A i \in 1..Len(s) : Len(Carried(s[i])) <= Len(Flow(Append(s, x)))
    <3> SUFFICES ASSUME NEW i \in 1..Len(s) PROVE Len(Carried(s[i])) <= Len(Flow(Append(s, x)))
      OBVIOUS
    <3>1. Carried(s[i]) \in Seq(Pieces)
      BY CarriedType
    <3>2. Len(Carried(s[i])) <= Len(Flow(s)) /\ Len(Carried(s[i])) \in Nat
      BY <2>1, <3>1
    <3> QED
      BY <2>3, <3>2
  <2>5. \A i \in 1..(Len(s) + 1) : Len(Carried(Append(s, x)[i])) <= Len(Flow(Append(s, x)))
    BY <2>1, <2>3, <2>4
  <2> QED
    BY <2>1, <2>5
<1> HIDE DEF T
<1>3. q \in T
  BY <1>1, <1>2, SeqInduction
<1> QED
  BY <1>3 DEF T

(* Elements with at most one piece each.                                   *)
LEMMA FlowShort ==
  ASSUME NEW q \in Seq(Things), \A i \in DOMAIN q : Len(Carried(q[i])) <= 1
  PROVE  Len(Flow(q)) <= Len(q)
<1> DEFINE Short(s) == \A i \in DOMAIN s : Len(Carried(s[i])) <= 1
           T == {s \in Seq(Things) : Short(s) => Len(Flow(s)) <= Len(s)}
<1>1. <<>> \in T
  <2>1. <<>> \in Seq(Things) /\ Len(<<>>) = 0
    OBVIOUS
  <2> QED
    BY <2>1, FlowEmpty
<1>2. \A s \in Seq(Things), x \in Things : s \in T => Append(s, x) \in T
  <2> SUFFICES ASSUME NEW s \in Seq(Things), NEW x \in Things, s \in T PROVE Append(s, x) \in T
    OBVIOUS
  <2> SUFFICES ASSUME Short(Append(s, x)) PROVE Len(Flow(Append(s, x))) <= Len(Append(s, x))
    <3>1. Append(s, x) \in Seq(Things)
      OBVIOUS
    <3> HIDE DEF Short
    <3> QED
      BY <3>1
  <2>1. /\ Append(s, x) \in Seq(Things) /\ DOMAIN s = 1..Len(s) /\ Len(s) \in Nat
        /\ DOMAIN Append(s, x) = 1..(Len(s) + 1) /\ Len(Append(s, x)) = Len(s) + 1
        /\ Append(s, x)[Len(s) + 1] = x /\ \A i \in 1..Len(s) : Append(s, x)[i] = s[i]
    OBVIOUS
  <2>2. /\ Flow(s) \in Seq(Pieces) /\ Carried(x) \in Seq(Pieces)
        /\ Flow(Append(s, x)) = Flow(s) \o Carried(x)
    BY CarriedType, FlowAppend
  <2>3. /\ Len(Flow(Append(s, x))) = Len(Flow(s)) + Len(Carried(x))
        /\ Len(Flow(s)) \in Nat /\ Len(Carried(x)) \in Nat
    BY <2>2, ConcatProperties
  <2>4. Short(s) /\ Len(Carried(x)) <= 1
    <3>1. \A i \in 1..(Len(s) + 1) : Len(Carried(Append(s, x)[i])) <= 1
      BY <2>1
    <3>2. Len(s) + 1 \in 1..(Len(s) + 1) /\ \A i \in 1..Len(s) : i \in 1..(Len(s) + 1)
      BY <2>1
    <3> QED
      BY <2>1, <3>1, <3>2
  <2> QED
    BY <2>1, <2>3, <2>4
<1> HIDE DEF T
<1>3. q \in T
  BY <1>1, <1>2, SeqInduction
<1> QED
  BY <1>3 DEF T

(* Elements without pieces.                                                *)
LEMMA FlowNone ==
  ASSUME NEW q \in Seq(Things), \A i \in DOMAIN q : Carried(q[i]) = <<>>
  PROVE  Flow(q) = <<>>
<1> DEFINE Nothing(s) == \A i \in DOMAIN s : Carried(s[i]) = <<>>
           T == {s \in Seq(Things) : Nothing(s) => Flow(s) = <<>>}
<1>1. <<>> \in T
  <2>1. <<>> \in Seq(Things)
    OBVIOUS
  <2> QED
    BY <2>1, FlowEmpty
<1>2. \A s \in Seq(Things), x \in Things : s \in T => Append(s, x) \in T
  <2> SUFFICES ASSUME NEW s \in Seq(Things), NEW x \in Things, s \in T PROVE Append(s, x) \in T
    OBVIOUS
  <2> SUFFICES ASSUME Nothing(Append(s, x)) PROVE Flow(Append(s, x)) = <<>>
    <3>1. Append(s, x) \in Seq(Things)
      OBVIOUS
    <3> HIDE DEF Nothing
    <3> QED
      BY <3>1
  <2>1. /\ Append(s, x) \in Seq(Things) /\ DOMAIN s = 1..Len(s) /\ Len(s) \in Nat
        /\ DOMAIN Append(s, x) = 1..(Len(s) + 1)
        /\ Append(s, x)[Len(s) + 1] = x /\ \A i \in 1..Len(s) : Append(s, x)[i] = s[i]
    OBVIOUS
  <2>2. Flow(Append(s, x)) = Flow(s) \o Carried(x)
    BY FlowAppend
  <2>3. Nothing(s) /\ Carried(x) = <<>>
    <3>1. \A i \in 1..(Len(s) + 1) : Carried(Append(s, x)[i]) = <<>>
      BY <2>1
    <3>2. Len(s) + 1 \in 1..(Len(s) + 1) /\ \A i \in 1..Len(s) : i \in 1..(Len(s) + 1)
      BY <2>1
    <3> QED
      BY <2>1, <3>1, <3>2
  <2>4. <<>> \o <<>> = <<>>
    OBVIOUS
  <2> QED
    BY <2>1, <2>2, <2>3, <2>4
<1> HIDE DEF T
<1>3. q \in T
  BY <1>1, <1>2, SeqInduction
<1> QED
  BY <1>3 DEF T

-----------------------------------------------------------------------------
(* Draining, one result at a time.                                         *)
Ready(first, items) ==
  FoldLeft(LAMBDA got, item : IF IsStreaming(item) THEN Append(got, item) ELSE got,
           <<first>>, items)

(* One step of the draining.                                               *)
Drains == [got \in Seq(Items) |->
             [item \in Items |-> IF IsStreaming(item) THEN Append(got, item) ELSE got]]

(* The results of a batch are a fold of that step.                         *)
LEMMA ReadyRuns ==
  ASSUME NEW first \in Items, NEW items \in Seq(Items)
  PROVE  FoldsTo(Seq(Items), <<first>>, Drains, items, Ready(first, items))
<1> DEFINE V == Seq(Items)
           E == Items
           a == <<first>>
           g == Drains
           Eq(F) == F = [p \in SUBSET DOMAIN items |->
                          IF p = {} THEN a
                          ELSE IF IsStreaming(items[Max(p)])
                               THEN Append(F[p \ {Max(p)}], items[Max(p)])
                               ELSE F[p \ {Max(p)}]]
           C == CHOOSE F : Eq(F)
<1>1. a \in V
  OBVIOUS
<1>2. /\ g \in [V -> [E -> V]]
      /\ \A v \in V, x \in E : g[v][x] = IF IsStreaming(x) THEN Append(v, x) ELSE v
  <2>1. \A v \in V, x \in E : (IF IsStreaming(x) THEN Append(v, x) ELSE v) \in V
    OBVIOUS
  <2> QED
    BY <2>1 DEF Drains
<1>3. Ready(first, items) = C[DOMAIN items]
  BY Zenon DEF Ready, FoldLeft, MapThenFoldSet
<1>4. items \in Seq(E)
  OBVIOUS
<1> HIDE DEF V, E, a, g, C
<1>5. PICK F : FoldOver(F, V, E, a, g, items)
  BY <1>1, <1>2, <1>4, FoldOverExists
<1>6. Eq(F)
  <2>1. \A p \in SUBSET DOMAIN items :
           F[p] = IF p = {} THEN a
                  ELSE IF IsStreaming(items[Max(p)])
                       THEN Append(F[p \ {Max(p)}], items[Max(p)])
                       ELSE F[p \ {Max(p)}]
    <3> SUFFICES ASSUME NEW p \in SUBSET DOMAIN items, p # {}
                 PROVE  F[p] = IF IsStreaming(items[Max(p)])
                               THEN Append(F[p \ {Max(p)}], items[Max(p)])
                               ELSE F[p \ {Max(p)}]
      BY <1>5, Zenon DEF FoldOver
    <3>1. /\ F[p \ {Max(p)}] \in V /\ items[Max(p)] \in E
          /\ F[p] = g[F[p \ {Max(p)}]][items[Max(p)]]
      BY <1>5, Zenon DEF FoldOver
    <3> QED
      BY <1>2, <3>1, Zenon
  <2>2. F = [p \in SUBSET DOMAIN items |-> F[p]]
    BY <1>5 DEF FoldOver
  <2> QED
    BY <2>1, <2>2, Zenon
<1>7. \A p \in SUBSET DOMAIN items :
        C[p] = IF p = {} THEN a
               ELSE IF IsStreaming(items[Max(p)])
                    THEN Append(C[p \ {Max(p)}], items[Max(p)])
                    ELSE C[p \ {Max(p)}]
  <2>1. Eq(C)
    BY <1>6, Zenon DEF C
  <2> QED
    BY <2>1, Zenon
<1>8. Folds(C, V, a, g, items)
  <2>1. C[{}] = a
    BY <1>7, Zenon
  <2>2. ASSUME NEW p \in SUBSET DOMAIN items, p # {}, C[p \ {Max(p)}] \in V
        PROVE  C[p] = g[C[p \ {Max(p)}]][items[Max(p)]]
    <3>1. items[Max(p)] \in E
      BY <1>5, <2>2, Zenon DEF FoldOver
    <3> QED
      BY <1>2, <1>7, <2>2, <3>1, Zenon
  <2> QED
    BY <2>1, <2>2, Zenon DEF Folds
<1>9. FoldsTo(V, a, g, items, Ready(first, items))
  <2>1. PICK K, result : K = C /\ result = Ready(first, items)
    OBVIOUS
  <2>2. Folds(K, V, a, g, items) /\ result = K[DOMAIN items]
    BY <1>3, <1>8, <2>1
  <2>3. FoldsTo(V, a, g, items, result)
    BY <1>1, <1>2, <1>4, <2>2, FoldRuns
  <2> QED
    BY <2>1, <2>3
<1> QED
  BY <1>9 DEF V, E, a, g

(* An empty queue adds nothing.                                            *)
LEMMA ReadyEmpty ==
  ASSUME NEW first \in Items
  PROVE  Ready(first, <<>>) = <<first>>
<1>1. <<>> \in Seq(Items)
  OBVIOUS
<1>2. FoldsTo(Seq(Items), <<first>>, Drains, <<>>, Ready(first, <<>>))
  BY <1>1, ReadyRuns
<1> QED
  BY <1>2, FoldEmpty

(* One more item of the queue.                                             *)
LEMMA ReadyAppend ==
  ASSUME NEW first \in Items, NEW items \in Seq(Items), NEW x \in Items
  PROVE  /\ Ready(first, items) \in Seq(Items)
         /\ Ready(first, Append(items, x)) =
              IF IsStreaming(x) THEN Append(Ready(first, items), x) ELSE Ready(first, items)
<1> DEFINE V == Seq(Items)
           E == Items
           a == <<first>>
           g == Drains
<1>1. a \in V /\ items \in Seq(E) /\ x \in E /\ Append(items, x) \in Seq(Items)
  OBVIOUS
<1>2. /\ g \in [V -> [E -> V]]
      /\ \A v \in V, y \in E : g[v][y] = IF IsStreaming(y) THEN Append(v, y) ELSE v
  <2>1. \A v \in V, y \in E : (IF IsStreaming(y) THEN Append(v, y) ELSE v) \in V
    OBVIOUS
  <2> QED
    BY <2>1 DEF Drains
<1>3. PICK r, q, more : /\ r = Ready(first, items) /\ more = Append(items, x)
                        /\ q = Ready(first, Append(items, x))
  OBVIOUS
<1>4. FoldsTo(V, a, g, items, r) /\ FoldsTo(V, a, g, more, q)
  BY <1>1, <1>3, ReadyRuns
<1> HIDE DEF V, E, a, g
<1>5. Continues(V, E, a, g, items, x, more)
  BY <1>1, <1>2, <1>3, Zenon DEF Continues, Longer
<1>6. r \in V /\ q = g[r][x]
  BY <1>4, <1>5, FoldAppend
<1>7. q = IF IsStreaming(x) THEN Append(r, x) ELSE r
  BY <1>1, <1>2, <1>6, Zenon
<1> QED
  BY <1>3, <1>6, <1>7, Zenon DEF V

-----------------------------------------------------------------------------
(* Coalescing, one event at a time.                                        *)
Coalesces == [acc \in Seq(Events) |->
                [event \in Events |->
                   IF acc # <<>> /\ Verified(event) /\ Verified(acc[Len(acc)])
                     THEN Append(Front(acc), MergedDelta(acc[Len(acc)], event))
                     ELSE Append(acc, event)]]

(* A verified event is a text event.                                       *)
LEMMA VerifiedType ==
  ASSUME NEW event \in Events, Verified(event)
  PROVE  event \in TextEvents /\ event.spans.at \in SUBSET Nat
<1>1. event.kind = "text"
  BY DEF Verified
<1>2. event \in TextEvents
  BY <1>1 DEF Events, Started, Cancelled, Failed
<1> QED
  BY <1>2 DEF TextEvents

(* The merge of two verified events is a text event.                       *)
LEMMA MergedDeltaType ==
  ASSUME NEW first \in Events, NEW second \in Events, Verified(first), Verified(second)
  PROVE  MergedDelta(first, second) \in TextEvents
<1>1. first \in TextEvents /\ second \in TextEvents
  BY VerifiedType
<1>2. first.pieces \in Seq(Pieces) /\ second.pieces \in Seq(Pieces)
  BY <1>1 DEF TextEvents
<1>3. first.pieces \o second.pieces \in Seq(Pieces) /\ Len(first.pieces) \in Nat
  BY <1>2, ConcatProperties, LenProperties
<1>4. first.spans.at \in SUBSET Nat /\ second.spans.at \in SUBSET Nat
  BY VerifiedType
<1>5. {i + Len(first.pieces) : i \in second.spans.at} \in SUBSET Nat
  BY <1>3, <1>4
<1>6. first.spans.at \cup {i + Len(first.pieces) : i \in second.spans.at} \in SUBSET Nat
  BY <1>4, <1>5
<1> QED
  BY <1>3, <1>6, Zenon DEF MergedDelta, TextDelta, TextEvents

(* One step of the coalescing gives events.                                *)
LEMMA CoalescesType ==
  /\ Coalesces \in [Seq(Events) -> [Events -> Seq(Events)]]
  /\ \A acc \in Seq(Events), event \in Events :
       Coalesces[acc][event] =
         IF acc # <<>> /\ Verified(event) /\ Verified(acc[Len(acc)])
           THEN Append(Front(acc), MergedDelta(acc[Len(acc)], event))
           ELSE Append(acc, event)
<1>1. ASSUME NEW acc \in Seq(Events), NEW event \in Events
      PROVE  (IF acc # <<>> /\ Verified(event) /\ Verified(acc[Len(acc)])
                THEN Append(Front(acc), MergedDelta(acc[Len(acc)], event))
                ELSE Append(acc, event)) \in Seq(Events)
  <2>1. CASE acc # <<>> /\ Verified(event) /\ Verified(acc[Len(acc)])
    <3>1. acc[Len(acc)] \in Events /\ Front(acc) \in Seq(Events)
      BY <2>1 DEF Front
    <3>2. MergedDelta(acc[Len(acc)], event) \in Events
      BY <2>1, <3>1, MergedDeltaType DEF Events
    <3>3. PICK m : m = MergedDelta(acc[Len(acc)], event)
      OBVIOUS
    <3>4. m \in Events
      BY <3>2, <3>3
    <3>5. Append(Front(acc), m) \in Seq(Events)
      BY <3>1, <3>4, AppendProperties
    <3> QED
      BY <2>1, <3>3, <3>5
  <2>2. CASE ~(acc # <<>> /\ Verified(event) /\ Verified(acc[Len(acc)]))
    <3>1. Append(acc, event) \in Seq(Events)
      BY AppendProperties
    <3> QED
      BY <2>2, <3>1
  <2> QED
    BY <2>1, <2>2
<1> QED
  BY <1>1, Zenon DEF Coalesces

(* The coalesced events are a fold of that step.                           *)
LEMMA CoalescedRuns ==
  ASSUME NEW es \in Seq(Events)
  PROVE  FoldsTo(Seq(Events), <<>>, Coalesces, es, Coalesced(es))
<1> DEFINE V == Seq(Events)
           E == Events
           a == <<>>
           g == Coalesces
           Next1(acc, event) == IF acc # <<>> /\ Verified(event) /\ Verified(acc[Len(acc)])
                                  THEN Append(Front(acc), MergedDelta(acc[Len(acc)], event))
                                  ELSE Append(acc, event)
           Eq(F) == F = [p \in SUBSET DOMAIN es |->
                          IF p = {} THEN a ELSE Next1(F[p \ {Max(p)}], es[Max(p)])]
           C == CHOOSE F : Eq(F)
<1>1. a \in V
  OBVIOUS
<1>2. g \in [V -> [E -> V]] /\ \A v \in V, x \in E : g[v][x] = Next1(v, x)
  BY CoalescesType, Zenon
<1>3. Coalesced(es) = C[DOMAIN es]
  BY Zenon DEF Coalesced, FoldLeft, MapThenFoldSet
<1>4. es \in Seq(E)
  OBVIOUS
<1> HIDE DEF V, E, a, g, C, Next1
<1>5. PICK F : FoldOver(F, V, E, a, g, es)
  <2>1. g \in [V -> [E -> V]]
    BY <1>2
  <2> QED
    BY <1>1, <2>1, <1>4, FoldOverExists
<1>6. Eq(F)
  <2>1. \A p \in SUBSET DOMAIN es :
           F[p] = IF p = {} THEN a ELSE Next1(F[p \ {Max(p)}], es[Max(p)])
    <3> SUFFICES ASSUME NEW p \in SUBSET DOMAIN es, p # {}
                 PROVE  F[p] = Next1(F[p \ {Max(p)}], es[Max(p)])
      BY <1>5, Zenon DEF FoldOver
    <3>1. /\ F[p \ {Max(p)}] \in V /\ es[Max(p)] \in E
          /\ F[p] = g[F[p \ {Max(p)}]][es[Max(p)]]
      BY <1>5, Zenon DEF FoldOver
    <3> QED
      BY <1>2, <3>1, Zenon
  <2>2. F = [p \in SUBSET DOMAIN es |-> F[p]]
    BY <1>5 DEF FoldOver
  <2> QED
    BY <2>1, <2>2, Zenon
<1>7. \A p \in SUBSET DOMAIN es :
        C[p] = IF p = {} THEN a ELSE Next1(C[p \ {Max(p)}], es[Max(p)])
  <2>1. Eq(C)
    BY <1>6, Zenon DEF C
  <2> QED
    BY <2>1, Zenon
<1>8. Folds(C, V, a, g, es)
  <2>1. C[{}] = a
    BY <1>7, Zenon
  <2>2. ASSUME NEW p \in SUBSET DOMAIN es, p # {}, C[p \ {Max(p)}] \in V
        PROVE  C[p] = g[C[p \ {Max(p)}]][es[Max(p)]]
    <3>1. es[Max(p)] \in E
      BY <1>5, <2>2, Zenon DEF FoldOver
    <3> QED
      BY <1>2, <1>7, <2>2, <3>1, Zenon
  <2> QED
    BY <2>1, <2>2, Zenon DEF Folds
<1>9. FoldsTo(V, a, g, es, Coalesced(es))
  <2>1. PICK K, result : K = C /\ result = Coalesced(es)
    OBVIOUS
  <2>2. Folds(K, V, a, g, es) /\ result = K[DOMAIN es]
    BY <1>3, <1>8, <2>1
  <2>3. g \in [V -> [E -> V]]
    BY <1>2
  <2>4. FoldsTo(V, a, g, es, result)
    BY <1>1, <2>3, <1>4, <2>2, FoldRuns
  <2> QED
    BY <2>1, <2>4
<1> QED
  BY <1>9 DEF V, E, a, g

(* No events stay no events.                                               *)
LEMMA CoalescedEmpty == Coalesced(<<>>) = <<>>
<1>1. <<>> \in Seq(Events)
  OBVIOUS
<1>2. FoldsTo(Seq(Events), <<>>, Coalesces, <<>>, Coalesced(<<>>))
  BY <1>1, CoalescedRuns
<1> QED
  BY <1>2, FoldEmpty

(* Coalescing one more event.                                              *)
LEMMA CoalescedAppend ==
  ASSUME NEW es \in Seq(Events), NEW event \in Events
  PROVE  /\ Coalesced(es) \in Seq(Events)
         /\ Coalesced(Append(es, event)) = Coalesces[Coalesced(es)][event]
<1> DEFINE V == Seq(Events)
           E == Events
           a == <<>>
           g == Coalesces
<1>1. a \in V /\ es \in Seq(E) /\ event \in E /\ Append(es, event) \in Seq(Events)
  OBVIOUS
<1>2. g \in [V -> [E -> V]]
  BY CoalescesType, Zenon
<1>3. PICK r, q, more : /\ r = Coalesced(es) /\ more = Append(es, event)
                        /\ q = Coalesced(Append(es, event))
  OBVIOUS
<1>4. FoldsTo(V, a, g, es, r) /\ FoldsTo(V, a, g, more, q)
  BY <1>1, <1>3, CoalescedRuns
<1> HIDE DEF V, E, a, g
<1>5. Continues(V, E, a, g, es, event, more)
  BY <1>1, <1>2, <1>3, Zenon DEF Continues, Longer
<1>6. r \in V /\ q = g[r][event]
  BY <1>4, <1>5, FoldAppend
<1> QED
  BY <1>3, <1>6, Zenon DEF V, g

-----------------------------------------------------------------------------
(* Events whose spans, if they are known, are those of the native pieces,  *)
(* and events that end no stream.                                          *)
Exact(event) == event.kind = "text" /\ event.spans.known => event.spans = NativeSpans(event.pieces)
ExactEvents == {event \in Events : Exact(event)}
CalmEvents == {event \in Events : event.kind \notin Terminals}
EndsAs(es, active) == \E f \in Seq(CalmEvents) : es = Append(f, Finished(active))

(* Merging two deltas moves every span to the piece it stood for.          *)
LEMMA MergedDeltaExact ==
  ASSUME NEW first \in ExactEvents, NEW second \in ExactEvents, Verified(first), Verified(second)
  PROVE  /\ MergedDelta(first, second) \in ExactEvents \cap CalmEvents
         /\ Carried(MergedDelta(first, second)) = Carried(first) \o Carried(second)
<1>1. first \in TextEvents /\ second \in TextEvents
  BY VerifiedType DEF ExactEvents
<1>2. PICK p, q : p = first.pieces /\ q = second.pieces /\ p \in Seq(Pieces) /\ q \in Seq(Pieces)
  BY <1>1 DEF TextEvents
<1>3. first.spans = NativeSpans(p) /\ second.spans = NativeSpans(q)
  BY <1>2 DEF ExactEvents, Exact, Verified
<1>4. /\ first.spans.at = {i \in DOMAIN p : p[i].native}
      /\ second.spans.at = {i \in DOMAIN q : q[i].native}
  BY <1>3 DEF NativeSpans
<1>5. PICK r : r = p \o q
  OBVIOUS
<1>6. /\ r \in Seq(Pieces) /\ DOMAIN p = 1..Len(p) /\ DOMAIN q = 1..Len(q)
      /\ Len(p) \in Nat /\ Len(q) \in Nat /\ DOMAIN r = 1..(Len(p) + Len(q))
      /\ \A i \in 1..Len(p) : r[i] = p[i]
      /\ \A i \in 1..Len(q) : r[i + Len(p)] = q[i]
  <2>1. /\ r \in Seq(Pieces) /\ DOMAIN p = 1..Len(p) /\ DOMAIN q = 1..Len(q)
        /\ Len(p) \in Nat /\ Len(q) \in Nat /\ DOMAIN r = 1..(Len(p) + Len(q))
    BY <1>2, <1>5
  <2>2. \A i \in 1..(Len(p) + Len(q)) : r[i] = IF i <= Len(p) THEN p[i] ELSE q[i - Len(p)]
    BY <1>2, <1>5
  <2>3. \A i \in 1..Len(p) : i \in 1..(Len(p) + Len(q)) /\ i <= Len(p)
    BY <2>1
  <2>4. \A i \in 1..Len(q) : /\ i + Len(p) \in 1..(Len(p) + Len(q)) /\ ~(i + Len(p) <= Len(p))
                            /\ (i + Len(p)) - Len(p) = i
    BY <2>1
  <2>5. \A i \in 1..Len(p) : r[i] = p[i]
    BY <2>2, <2>3
  <2>6. \A i \in 1..Len(q) : r[i + Len(p)] = q[i]
    BY <2>2, <2>4
  <2> QED
    BY <2>1, <2>5, <2>6
<1>7. {i \in DOMAIN r : r[i].native} =
        first.spans.at \cup {i + Len(p) : i \in second.spans.at}
  <2> DEFINE A == {i \in 1..Len(p) : p[i].native}
             B == {i \in 1..Len(q) : q[i].native}
             D == {i \in 1..(Len(p) + Len(q)) : r[i].native}
  <2>1. A \subseteq D
    BY <1>6
  <2>2. {i + Len(p) : i \in B} \subseteq D
    BY <1>6
  <2>3. D \subseteq A \cup {i + Len(p) : i \in B}
    <3> SUFFICES ASSUME NEW i \in D PROVE i \in A \/ i \in {j + Len(p) : j \in B}
      OBVIOUS
    <3>1. CASE i \in 1..Len(p)
      BY <1>6, <3>1
    <3>2. CASE i \notin 1..Len(p)
      <4>1. i - Len(p) \in 1..Len(q) /\ (i - Len(p)) + Len(p) = i
        BY <1>6, <3>2
      <4>2. i - Len(p) \in B
        BY <1>6, <4>1
      <4> QED
        BY <4>1, <4>2
    <3> QED
      BY <3>1, <3>2
  <2> QED
    BY <1>4, <1>6, <2>1, <2>2, <2>3
<1>8. MergedDelta(first, second) = TextDelta(r, NativeSpans(r))
  BY <1>2, <1>5, <1>7 DEF MergedDelta, NativeSpans
<1>9. MergedDelta(first, second) \in Events
  BY MergedDeltaType DEF Events, ExactEvents
<1>10. PICK m : m = MergedDelta(first, second)
  OBVIOUS
<1>11. m.kind = "text" /\ m.pieces = r /\ m.spans = NativeSpans(m.pieces)
  BY <1>8, <1>10 DEF TextDelta
<1>12. m \in ExactEvents /\ m \in CalmEvents
  BY <1>9, <1>10, <1>11 DEF ExactEvents, Exact, CalmEvents, Terminals
<1>13. first.kind = "text" /\ second.kind = "text"
  BY DEF Verified
<1>14. Carried(m) = r /\ Carried(first) = p /\ Carried(second) = q
  BY <1>2, <1>11, <1>13 DEF Carried
<1> QED
  BY <1>5, <1>10, <1>12, <1>14

(* The parts of an appended sequence.                                      *)
LEMMA AppendIn ==
  ASSUME NEW X, NEW Y, NEW s \in Seq(X), NEW e, NEW more, Longer(more, s, e), more \in Seq(Y)
  PROVE  s \in Seq(Y) /\ e \in Y
<1>1. /\ Len(s) \in Nat /\ Len(more) = Len(s) + 1 /\ more[Len(s) + 1] = e
      /\ \A i \in 1..Len(s) : more[i] = s[i]
  BY DEF Longer
<1>2. \A i \in 1..(Len(s) + 1) : more[i] \in Y
  BY <1>1
<1>3. e \in Y
  BY <1>1, <1>2
<1>4. \A i \in 1..Len(s) : s[i] \in Y
  BY <1>1, <1>2
<1>5. s = [i \in 1..Len(s) |-> s[i]]
  OBVIOUS
<1>6. s \in Seq(Y)
  BY <1>1, <1>4, <1>5
<1> QED
  BY <1>3, <1>6

(* A sequence that is not empty is its front and its last element.         *)
LEMMA FrontLast ==
  ASSUME NEW X, NEW s \in Seq(X), s # <<>>
  PROVE  Front(s) \in Seq(X) /\ s[Len(s)] \in X /\ Longer(s, Front(s), s[Len(s)])
<1>1. /\ Len(s) \in Nat /\ Len(s) > 0 /\ s[Len(s)] \in X
      /\ SubSeq(s, 1, Len(s) - 1) \in Seq(X)
  OBVIOUS
<1>2. s = Append(SubSeq(s, 1, Len(s) - 1), s[Len(s)])
  <2>1. /\ Len(SubSeq(s, 1, Len(s) - 1)) = Len(s) - 1
        /\ \A i \in 1..(Len(s) - 1) : SubSeq(s, 1, Len(s) - 1)[i] = s[i]
    <3>1. PICK k : k = Len(s) - 1
      OBVIOUS
    <3>2. k \in Nat /\ 1 \in Int /\ k \in Int /\ \A i \in 1..k : s[i] \in X
      BY <1>1, <3>1
    <3>3. /\ Len(SubSeq(s, 1, k)) = IF 1 <= k THEN k - 1 + 1 ELSE 0
          /\ \A i \in 1..(k - 1 + 1) : SubSeq(s, 1, k)[i] = s[1 + i - 1]
      BY <3>2, SubSeqProperties
    <3>4. (IF 1 <= k THEN k - 1 + 1 ELSE 0) = k /\ k - 1 + 1 = k /\ \A i \in 1..k : 1 + i - 1 = i
      BY <3>2
    <3>5. /\ Len(SubSeq(s, 1, k)) = k
          /\ \A i \in 1..k : SubSeq(s, 1, k)[i] = s[i]
      BY <3>3, <3>4
    <3> QED
      BY <3>1, <3>5
  <2>2. PICK f, e : f = SubSeq(s, 1, Len(s) - 1) /\ e = s[Len(s)]
    OBVIOUS
  <2>3. /\ Append(f, e) \in Seq(X) /\ Len(Append(f, e)) = Len(s)
        /\ \A i \in 1..Len(s) : Append(f, e)[i] = s[i]
    BY <1>1, <2>1, <2>2
  <2>4. Append(f, e) = s
    BY <1>1, <2>3, SeqEqual
  <2> QED
    BY <2>2, <2>4
<1> QED
  BY <1>1, <1>2 DEF Front, Longer

(* What one step of coalescing keeps.                                      *)
LEMMA CoalesceStep ==
  ASSUME NEW acc \in Seq(Events), NEW event \in Events
  PROVE  LET new == Coalesces[acc][event]
         IN  /\ new \in Seq(Events)
             /\ Flow(new) = Flow(acc) \o Carried(event)
             /\ acc \in Seq(ExactEvents) /\ event \in ExactEvents => new \in Seq(ExactEvents)
             /\ acc \in Seq(CalmEvents) /\ event \in CalmEvents => new \in Seq(CalmEvents)
<1> DEFINE new == Coalesces[acc][event]
<1>1. new \in Seq(Events)
  BY CoalescesType, Zenon
<1>2. CASE acc # <<>> /\ Verified(event) /\ Verified(acc[Len(acc)])
  <2>1. PICK f, l : f = Front(acc) /\ l = acc[Len(acc)]
    OBVIOUS
  <2>2. f \in Seq(Events) /\ l \in Events /\ Longer(acc, f, l)
    BY <1>2, <2>1, FrontLast
  <2>3. PICK m : m = MergedDelta(l, event)
    OBVIOUS
  <2>4. new = Append(f, m)
    BY <1>2, <2>1, <2>3, CoalescesType, Zenon
  <2>5. m \in TextEvents /\ m \in Events /\ m \in CalmEvents
    <3>1. m \in TextEvents
      BY <1>2, <2>1, <2>2, <2>3, MergedDeltaType
    <3> QED
      BY <3>1 DEF Events, CalmEvents, TextEvents, Terminals
  <2>6. Carried(m) = Carried(l) \o Carried(event)
    <3>1. m.pieces = l.pieces \o event.pieces /\ m.kind = "text"
      BY <2>3 DEF MergedDelta, TextDelta
    <3>2. l.kind = "text" /\ event.kind = "text"
      BY <1>2, <2>1 DEF Verified
    <3> QED
      BY <3>1, <3>2 DEF Carried
  <2>7. Flow(new) = Flow(acc) \o Carried(event)
    <3>0. f \in Seq(Things) /\ l \in Things /\ event \in Things /\ m \in Things
      BY <2>2, <2>5, SeqMonotonic DEF Things
    <3>1. Flow(new) = Flow(f) \o Carried(m) /\ Flow(f) \in Seq(Pieces)
      BY <2>4, <3>0, FlowAppend
    <3>2. Flow(acc) = Flow(f) \o Carried(l)
      BY <2>2, <3>0, FlowAppend DEF Longer
    <3>3. Carried(l) \in Seq(Pieces) /\ Carried(event) \in Seq(Pieces)
      BY <3>0, CarriedType
    <3>4. Flow(f) \o (Carried(l) \o Carried(event)) = (Flow(f) \o Carried(l)) \o Carried(event)
      BY <3>1, <3>3, ConcatAssociative
    <3> QED
      BY <2>6, <3>1, <3>2, <3>4
  <2>8. ASSUME acc \in Seq(ExactEvents), event \in ExactEvents PROVE new \in Seq(ExactEvents)
    <3>1. f \in Seq(ExactEvents) /\ l \in ExactEvents
      BY <2>2, <2>8, AppendIn
    <3>2. m \in ExactEvents
      BY <1>2, <2>1, <2>3, <2>8, <3>1, MergedDeltaExact
    <3> QED
      BY <2>4, <3>1, <3>2
  <2>9. ASSUME acc \in Seq(CalmEvents) PROVE new \in Seq(CalmEvents)
    <3>1. f \in Seq(CalmEvents)
      BY <2>2, <2>9, AppendIn
    <3> QED
      BY <2>4, <2>5, <3>1
  <2> QED
    BY <1>1, <2>7, <2>8, <2>9
<1>3. CASE ~(acc # <<>> /\ Verified(event) /\ Verified(acc[Len(acc)]))
  <2>1. new = Append(acc, event)
    BY <1>3, CoalescesType, Zenon
  <2>2. acc \in Seq(Things) /\ event \in Things
    BY SeqMonotonic DEF Things
  <2>3. Flow(new) = Flow(acc) \o Carried(event)
    BY <2>1, <2>2, FlowAppend
  <2> QED
    BY <1>1, <2>1, <2>3
<1> QED
  BY <1>2, <1>3

(* Coalescing keeps the text, the spans exact and the end where it is.     *)
LEMMA CoalescedFaithful ==
  ASSUME NEW es \in Seq(Events)
  PROVE  /\ Coalesced(es) \in Seq(Events)
         /\ Flow(Coalesced(es)) = Flow(es)
         /\ es \in Seq(ExactEvents) => Coalesced(es) \in Seq(ExactEvents)
         /\ es \in Seq(CalmEvents) => Coalesced(es) \in Seq(CalmEvents)
<1> DEFINE T == {s \in Seq(Events) :
                   /\ Coalesced(s) \in Seq(Events)
                   /\ Flow(Coalesced(s)) = Flow(s)
                   /\ s \in Seq(ExactEvents) => Coalesced(s) \in Seq(ExactEvents)
                   /\ s \in Seq(CalmEvents) => Coalesced(s) \in Seq(CalmEvents)}
<1>1. <<>> \in T
  <2>1. <<>> \in Seq(Events) /\ <<>> \in Seq(ExactEvents) /\ <<>> \in Seq(CalmEvents)
    OBVIOUS
  <2> QED
    BY <2>1, CoalescedEmpty
<1>2. \A s \in Seq(Events), x \in Events : s \in T => Append(s, x) \in T
  <2> SUFFICES ASSUME NEW s \in Seq(Events), NEW x \in Events, s \in T PROVE Append(s, x) \in T
    OBVIOUS
  <2>1. PICK acc, new, more : /\ acc = Coalesced(s) /\ more = Append(s, x)
                              /\ new = Coalesced(more)
    OBVIOUS
  <2>2. /\ acc \in Seq(Events) /\ Flow(acc) = Flow(s)
        /\ s \in Seq(ExactEvents) => acc \in Seq(ExactEvents)
        /\ s \in Seq(CalmEvents) => acc \in Seq(CalmEvents)
    BY <2>1
  <2>3. more \in Seq(Events) /\ Longer(more, s, x)
    BY <2>1 DEF Longer
  <2> HIDE DEF T
  <2>4. new = Coalesces[acc][x]
    BY <2>1, CoalescedAppend
  <2>5. /\ new \in Seq(Events) /\ Flow(new) = Flow(acc) \o Carried(x)
        /\ acc \in Seq(ExactEvents) /\ x \in ExactEvents => new \in Seq(ExactEvents)
        /\ acc \in Seq(CalmEvents) /\ x \in CalmEvents => new \in Seq(CalmEvents)
    BY <2>2, <2>4, CoalesceStep
  <2>6. Flow(more) = Flow(s) \o Carried(x)
    <3>1. s \in Seq(Things) /\ x \in Things
      BY SeqMonotonic DEF Things
    <3> QED
      BY <2>1, <3>1, FlowAppend
  <2>7. more \in Seq(ExactEvents) => s \in Seq(ExactEvents) /\ x \in ExactEvents
    BY <2>3, AppendIn
  <2>8. more \in Seq(CalmEvents) => s \in Seq(CalmEvents) /\ x \in CalmEvents
    BY <2>3, AppendIn
  <2>9. more \in T
    BY <2>1, <2>2, <2>3, <2>5, <2>6, <2>7, <2>8, Zenon DEF T
  <2> QED
    BY <2>1, <2>9
<1> HIDE DEF T
<1>3. es \in T
  BY <1>1, <1>2, SeqInduction
<1> QED
  BY <1>3 DEF T

(* Coalescing leaves the finish at the end, behind all text.               *)
LEMMA CoalescedEnds ==
  ASSUME NEW es \in Seq(Events), NEW active \in BOOLEAN, EndsAs(es, active)
  PROVE  EndsAs(Coalesced(es), active)
<1>1. PICK f \in Seq(CalmEvents) : es = Append(f, Finished(active))
  BY DEF EndsAs
<1>2. PICK finish : finish = Finished(active)
  OBVIOUS
<1>3. finish \in Events /\ ~Verified(finish)
  BY <1>2 DEF Finished, Events, Verified
<1>4. f \in Seq(Events)
  BY SeqMonotonic DEF CalmEvents
<1>5. Coalesced(f) \in Seq(CalmEvents) /\ Coalesced(f) \in Seq(Events)
  BY <1>4, CoalescedFaithful
<1>6. Coalesced(es) = Coalesces[Coalesced(f)][finish]
  BY <1>1, <1>2, <1>3, <1>4, CoalescedAppend
<1>7. Coalesced(es) = Append(Coalesced(f), finish)
  BY <1>3, <1>5, <1>6, CoalescesType, Zenon
<1> QED
  BY <1>2, <1>5, <1>7, Zenon DEF EndsAs

(* What a result translates to.                                            *)
Flowing == Results \cup {Started}
Open == {x \in Flowing : ~IsLast(x)}

(* A result is translated to events with its text and right spans, and to  *)
(* a finish only when it is the last.                                      *)
LEMMA TranslatedFaithful ==
  ASSUME NEW x \in Flowing, NEW active \in BOOLEAN, provenance \in BOOLEAN
  PROVE  /\ Translated(x, active) \in Seq(ExactEvents)
         /\ Flow(Translated(x, active)) = Carried(x)
         /\ x \in Open => Translated(x, active) \in Seq(CalmEvents)
         /\ x \notin Open => EndsAs(Translated(x, active), active)
<1>1. CASE x = Started
  <2>1. Translated(x, active) = <<Started>> /\ Carried(x) = <<>>
    BY <1>1 DEF Translated, Carried, Started
  <2>2. /\ Started \in Things /\ Carried(Started) = <<>> /\ x \in Open
        /\ Started \in ExactEvents /\ Started \in CalmEvents
    BY <1>1 DEF Started, Things, Items, ExactEvents, CalmEvents, Terminals, Events, Exact, Carried,
                Open, IsLast, IsStreaming, Flowing
  <2>3. Flow(<<Started>>) = <<>>
    BY <2>2, FlowOne
  <2> QED
    BY <2>1, <2>2, <2>3
<1>2. CASE x # Started
  <2>1. x \in Results
    BY <1>2 DEF Flowing
  <2>2. /\ x.kind = "streaming" /\ x.pieces \in Seq(Pieces) /\ x.verified \in BOOLEAN
        /\ x.eos \in BOOLEAN /\ Carried(x) = x.pieces
    BY <2>1 DEF Results, Carried
  <2>3. PICK d, fin : /\ d = TextDelta(x.pieces, IF provenance /\ x.verified
                                                 THEN NativeSpans(x.pieces) ELSE NoSpans)
                      /\ fin = Finished(active)
    OBVIOUS
  <2>4. /\ d.kind = "text" /\ d.pieces = x.pieces
        /\ d.spans = IF provenance /\ x.verified THEN NativeSpans(x.pieces) ELSE NoSpans
    BY <2>3 DEF TextDelta
  <2>5. d \in TextEvents
    <3>1. NativeSpans(x.pieces) \in [known : BOOLEAN, at : SUBSET Nat]
      <4>1. {i \in DOMAIN x.pieces : x.pieces[i].native} \in SUBSET Nat
        BY <2>2
      <4> QED
        BY <4>1 DEF NativeSpans
    <3>2. NoSpans \in [known : BOOLEAN, at : SUBSET Nat]
      BY DEF NoSpans
    <3>3. PICK sp : /\ sp = IF provenance /\ x.verified THEN NativeSpans(x.pieces) ELSE NoSpans
                    /\ sp \in [known : BOOLEAN, at : SUBSET Nat]
      BY <3>1, <3>2
    <3> QED
      BY <2>2, <2>3, <3>3, Zenon DEF TextDelta, TextEvents
  <2>6. d \in ExactEvents /\ d \in CalmEvents /\ d \in Things /\ Carried(d) = x.pieces
    <3>1. d \in Events
      BY <2>5 DEF Events
    <3>2. Exact(d)
      BY <2>4 DEF Exact, NoSpans
    <3> QED
      BY <2>4, <3>1, <3>2 DEF ExactEvents, CalmEvents, Terminals, Things, Carried
  <2>7. /\ fin \in Events /\ fin.kind = "finished"
        /\ fin \in ExactEvents /\ fin \in Things /\ Carried(fin) = <<>>
    BY <2>3 DEF Finished, Events, ExactEvents, Exact, Things, Carried
  <2>8. x \in Open <=> ~x.eos
    BY <2>1, <2>2 DEF Open, IsLast, IsStreaming, Flowing
  <2>9. PICK f : /\ f = IF x.pieces = <<>> THEN <<>> ELSE <<d>>
                 /\ Translated(x, active) = f \o (IF x.eos THEN <<fin>> ELSE <<>>)
    BY <2>2, <2>3, Zenon DEF Translated
  <2>10. f \in Seq(ExactEvents) /\ f \in Seq(CalmEvents) /\ f \in Seq(Things) /\ Flow(f) = x.pieces
    <3>1. CASE x.pieces = <<>>
      <4>1. /\ <<>> \in Seq(ExactEvents) /\ <<>> \in Seq(CalmEvents) /\ <<>> \in Seq(Things)
        OBVIOUS
      <4>2. f = <<>>
        BY <2>9, <3>1
      <4> QED
        BY <4>1, <4>2, <3>1, FlowEmpty
    <3>2. CASE x.pieces # <<>>
      <4>1. f = <<d>>
        BY <2>9, <3>2
      <4>2. /\ <<d>> \in Seq(ExactEvents) /\ <<d>> \in Seq(CalmEvents) /\ <<d>> \in Seq(Things)
        BY <2>6
      <4>3. Flow(<<d>>) = x.pieces
        BY <2>6, FlowOne
      <4> QED
        BY <4>1, <4>2, <4>3
    <3> QED
      BY <3>1, <3>2
  <2>11. CASE x.eos
    <3>1. Translated(x, active) = Append(f, fin)
      <4>1. f \o <<fin>> = Append(f, fin)
        BY <2>7, <2>10, AppendIsConcat
      <4> QED
        BY <2>9, <2>11, <4>1
    <3>2. Append(f, fin) \in Seq(ExactEvents)
      BY <2>7, <2>10, AppendProperties
    <3>3. Flow(Append(f, fin)) = x.pieces
      <4>1. Flow(Append(f, fin)) = x.pieces \o <<>>
        BY <2>7, <2>10, FlowAppend
      <4>2. x.pieces \o <<>> = x.pieces
        BY <2>2, ConcatEmptySeq
      <4> QED
        BY <4>1, <4>2
    <3>4. EndsAs(Append(f, fin), active)
      BY <2>3, <2>10, Zenon DEF EndsAs
    <3> QED
      BY <2>2, <2>8, <2>11, <3>1, <3>2, <3>3, <3>4
  <2>12. CASE ~x.eos
    <3>1. f \o <<>> = f
      BY <2>10, ConcatEmptySeq
    <3>2. Translated(x, active) = f
      BY <2>9, <2>12, <3>1
    <3> QED
      BY <2>2, <2>8, <2>10, <2>12, <3>2
  <2> QED
    BY <2>11, <2>12
<1> QED
  BY <1>1, <1>2

(* The events of a batch before they are coalesced.                        *)
Told(q, active) == Concat([i \in DOMAIN q |-> Translated(q[i], active)])

(* The events of one more result.                                          *)
LEMMA ToldAppend ==
  ASSUME NEW q \in Seq(Flowing), NEW x \in Flowing, NEW active \in BOOLEAN, provenance \in BOOLEAN
  PROVE  /\ Told(q, active) \in Seq(ExactEvents)
         /\ Told(Append(q, x), active) = Told(q, active) \o Translated(x, active)
<1> DEFINE c == [z \in Flowing |-> Translated(z, active)]
<1>1. Spreads(c, Flowing, ExactEvents)
  BY TranslatedFaithful DEF Spreads
<1>2. \A s \in Seq(Flowing) : Told(s, active) = Concat(Mapped(c, s))
  <2> SUFFICES ASSUME NEW s \in Seq(Flowing) PROVE Told(s, active) = Concat(Mapped(c, s))
    OBVIOUS
  <2>1. \A i \in DOMAIN s : s[i] \in Flowing
    OBVIOUS
  <2>2. [i \in DOMAIN s |-> Translated(s[i], active)] = Mapped(c, s)
    BY <2>1 DEF Mapped
  <2> HIDE DEF c
  <2> QED
    BY <2>2 DEF Told
<1>3. c[x] = Translated(x, active)
  OBVIOUS
<1>4. Append(q, x) \in Seq(Flowing)
  OBVIOUS
<1> HIDE DEF c
<1>5. /\ Concat(Mapped(c, q)) \in Seq(ExactEvents)
      /\ Concat(Mapped(c, Append(q, x))) = Concat(Mapped(c, q)) \o c[x]
  BY <1>1, MappedAppend
<1> QED
  BY <1>2, <1>3, <1>4, <1>5

(* No results, no events.                                                  *)
LEMMA ToldEmpty ==
  ASSUME NEW active
  PROVE  Told(<<>>, active) = <<>>
<1>1. [i \in DOMAIN <<>> |-> Translated(<<>>[i], active)] = <<>>
  OBVIOUS
<1> QED
  BY <1>1, ConcatEmpty DEF Told

(* Results of which only the last may be the last of the generation.       *)
Closing(q) == \E f \in Seq(Open), x \in Flowing \ Open : Longer(q, f, x)

(* The events of a batch carry its text.                                   *)
LEMMA ToldFaithful ==
  ASSUME NEW q \in Seq(Flowing), NEW active \in BOOLEAN, provenance \in BOOLEAN
  PROVE  /\ Told(q, active) \in Seq(ExactEvents)
         /\ Flow(Told(q, active)) = Flow(q)
         /\ q \in Seq(Open) => Told(q, active) \in Seq(CalmEvents)
<1> DEFINE T == {s \in Seq(Flowing) :
                   /\ Told(s, active) \in Seq(ExactEvents)
                   /\ Flow(Told(s, active)) = Flow(s)
                   /\ s \in Seq(Open) => Told(s, active) \in Seq(CalmEvents)}
<1>1. <<>> \in T
  <2>1. <<>> \in Seq(Flowing) /\ <<>> \in Seq(ExactEvents) /\ <<>> \in Seq(CalmEvents)
    OBVIOUS
  <2> QED
    BY <2>1, ToldEmpty
<1>2. \A s \in Seq(Flowing), x \in Flowing : s \in T => Append(s, x) \in T
  <2> SUFFICES ASSUME NEW s \in Seq(Flowing), NEW x \in Flowing, s \in T PROVE Append(s, x) \in T
    OBVIOUS
  <2>1. PICK old, new, more : /\ old = Told(s, active) /\ more = Append(s, x)
                              /\ new = Translated(x, active)
    OBVIOUS
  <2>2. /\ old \in Seq(ExactEvents) /\ Flow(old) = Flow(s)
        /\ s \in Seq(Open) => old \in Seq(CalmEvents)
    BY <2>1
  <2>3. more \in Seq(Flowing) /\ Longer(more, s, x)
    BY <2>1 DEF Longer
  <2> HIDE DEF T
  <2>4. Told(more, active) = old \o new
    BY <2>1, ToldAppend
  <2>5. /\ new \in Seq(ExactEvents) /\ Flow(new) = Carried(x)
        /\ x \in Open => new \in Seq(CalmEvents)
    BY <2>1, TranslatedFaithful
  <2>6. old \o new \in Seq(ExactEvents)
    BY <2>2, <2>5, ConcatProperties
  <2>7. Flow(old \o new) = Flow(s) \o Carried(x)
    <3>1. old \in Seq(Things) /\ new \in Seq(Things)
      BY <2>2, <2>5, SeqMonotonic DEF ExactEvents, Things
    <3>2. Flow(old \o new) = Flow(old) \o Flow(new)
      BY <3>1, FlowConcat
    <3> QED
      BY <2>2, <2>5, <3>2
  <2>8. Flow(more) = Flow(s) \o Carried(x)
    <3>1. s \in Seq(Things) /\ x \in Things
      BY SeqMonotonic DEF Flowing, Things, Items
    <3> QED
      BY <2>1, <3>1, FlowAppend
  <2>9. ASSUME more \in Seq(Open) PROVE old \o new \in Seq(CalmEvents)
    <3>1. s \in Seq(Open) /\ x \in Open
      BY <2>3, <2>9, AppendIn
    <3>2. old \in Seq(CalmEvents) /\ new \in Seq(CalmEvents)
      BY <2>2, <2>5, <3>1
    <3> QED
      BY <3>2, ConcatProperties
  <2>10. more \in T
    BY <2>3, <2>4, <2>6, <2>7, <2>8, <2>9, Zenon DEF T
  <2> QED
    BY <2>1, <2>10
<1> HIDE DEF T
<1>3. q \in T
  BY <1>1, <1>2, SeqInduction
<1> QED
  BY <1>3 DEF T

(* The events of a batch with the last result end with the finish.         *)
LEMMA ToldEnds ==
  ASSUME NEW q, Closing(q), NEW active \in BOOLEAN, provenance \in BOOLEAN
  PROVE  EndsAs(Told(q, active), active)
<1>1. PICK f \in Seq(Open), x \in Flowing \ Open : Longer(q, f, x)
  BY DEF Closing
<1>2. f \in Seq(Flowing)
  BY SeqMonotonic DEF Open
<1>3. Told(f, active) \in Seq(CalmEvents) /\ Told(q, active) = Told(f, active) \o Translated(x, active)
  BY <1>1, <1>2, ToldFaithful, ToldAppend DEF Longer
<1>4. PICK g \in Seq(CalmEvents) : Translated(x, active) = Append(g, Finished(active))
  BY TranslatedFaithful DEF EndsAs
<1>5. PICK h, fin : h = Told(f, active) /\ fin = Finished(active) /\ h \in Seq(CalmEvents)
  BY <1>3
<1>6. fin \in Events
  BY <1>5 DEF Finished, Events
<1>7. h \o Append(g, fin) = Append(h \o g, fin) /\ h \o g \in Seq(CalmEvents)
  <2>1. h \in Seq(Events) /\ g \in Seq(Events)
    BY <1>4, <1>5, SeqMonotonic DEF CalmEvents
  <2>2. h \o g \in Seq(CalmEvents) /\ h \o g \in Seq(Events)
    BY <1>4, <1>5, <2>1, ConcatProperties
  <2>3. PICK one : one = <<fin>> /\ one \in Seq(Events)
    <3>1. <<fin>> \in Seq(Events)
      BY <1>6
    <3> QED
      BY <3>1
  <2>4. Append(g, fin) = g \o one /\ Append(h \o g, fin) = (h \o g) \o one
    BY <1>6, <2>1, <2>2, <2>3, AppendIsConcat
  <2>5. (h \o g) \o one = h \o (g \o one)
    BY <2>1, <2>3, ConcatAssociative
  <2> QED
    BY <2>2, <2>4, <2>5
<1> QED
  BY <1>3, <1>4, <1>5, <1>7, Zenon DEF EndsAs

(* One result in place of several.                                         *)
LEMMA MergedFaithful ==
  ASSUME NEW q \in Seq(Flowing), q # <<>>, Len(q) > 1 => q \in Seq(Results)
  PROVE  /\ Merged(q) \in Flowing
         /\ Carried(Merged(q)) = Flow(q)
         /\ IsLast(Merged(q)) = IsLast(q[Len(q)])
<1>0. Len(q) \in Nat /\ Len(q) > 0
  OBVIOUS
<1>1. CASE Len(q) = 1
  <2>1. q = <<q[1]>> /\ q[1] \in Flowing /\ Merged(q) = q[1]
    BY <1>1 DEF Merged
  <2>2. q[1] \in Things
    BY <2>1 DEF Flowing, Things, Items
  <2>3. Flow(<<q[1]>>) = Carried(q[1])
    BY <2>2, FlowOne
  <2> QED
    BY <1>1, <2>1, <2>3
<1>2. CASE Len(q) # 1
  <2>1. q \in Seq(Results)
    <3>1. PICK n : n = Len(q)
      OBVIOUS
    <3>2. n \in Nat /\ n > 0 /\ n # 1
      BY <1>0, <1>2, <3>1
    <3>3. n > 1
      BY <3>2
    <3> QED
      BY <3>1, <3>3
  <2>2. [i \in DOMAIN q |-> q[i].pieces] = [i \in DOMAIN q |-> Carried(q[i])]
    <3>1. \A i \in DOMAIN q : q[i] \in Results
      BY <2>1
    <3>2. \A i \in DOMAIN q : Carried(q[i]) = q[i].pieces
      BY <3>1 DEF Results, Carried
    <3> QED
      BY <3>2
  <2>3. Concat([i \in DOMAIN q |-> q[i].pieces]) = Flow(q)
    BY <2>2 DEF Flow
  <2>4. PICK text : text = Flow(q) /\ text \in Seq(Pieces)
    <3>1. q \in Seq(Things)
      BY <2>1, SeqMonotonic DEF Things, Items
    <3>2. Flow(q) \in Seq(Pieces)
      BY <3>1, FlowConcat
    <3> QED
      BY <3>2
  <2>5. PICK m : m = Merged(q)
    OBVIOUS
  <2>6. m = Streaming(text, FALSE, q[Len(q)].eos)
    BY <1>2, <2>3, <2>4, <2>5, Zenon DEF Merged
  <2>7. q[Len(q)] \in Results
    BY <1>0, <2>1
  <2>8. q[Len(q)].kind = "streaming" /\ q[Len(q)].eos \in BOOLEAN
    BY <2>7 DEF Results
  <2>9. m.kind = "streaming" /\ m.pieces = text /\ m.eos = q[Len(q)].eos /\ m \in Results
    BY <2>4, <2>6, <2>8 DEF Streaming, Results
  <2>10. m \in Flowing /\ Carried(m) = text
    BY <2>9 DEF Flowing, Carried
  <2>11. IsLast(m) = IsLast(q[Len(q)])
    BY <2>8, <2>9, Zenon DEF IsLast, IsStreaming
  <2> QED
    BY <2>4, <2>5, <2>10, <2>11
<1> QED
  BY <1>1, <1>2

(* A batch of events says what its results say, and ends if they do.       *)
LEMMA BatchFaithful ==
  ASSUME NEW q \in Seq(Flowing), q # <<>>, Len(q) > 1 => q \in Seq(Results),
         q \in Seq(Open) \/ Closing(q), NEW active \in BOOLEAN, provenance \in BOOLEAN
  PROVE  /\ BatchEvents(q, active) \in Seq(ExactEvents)
         /\ Flow(BatchEvents(q, active)) = Flow(q)
         /\ q \in Seq(Open) => BatchEvents(q, active) \in Seq(CalmEvents)
         /\ Closing(q) => EndsAs(BatchEvents(q, active), active)
<1>1. CASE provenance
  <2>1. PICK told : told = Told(q, active)
    OBVIOUS
  <2>2. BatchEvents(q, active) = Coalesced(told)
    BY <1>1, <2>1, Zenon DEF BatchEvents, Told
  <2>3. /\ told \in Seq(ExactEvents) /\ Flow(told) = Flow(q)
        /\ q \in Seq(Open) => told \in Seq(CalmEvents)
        /\ Closing(q) => EndsAs(told, active)
    BY <2>1, ToldFaithful, ToldEnds
  <2>4. told \in Seq(Events)
    BY <2>3, SeqMonotonic DEF ExactEvents
  <2>5. /\ Coalesced(told) \in Seq(ExactEvents) /\ Flow(Coalesced(told)) = Flow(told)
        /\ told \in Seq(CalmEvents) => Coalesced(told) \in Seq(CalmEvents)
        /\ EndsAs(told, active) => EndsAs(Coalesced(told), active)
    BY <2>3, <2>4, CoalescedFaithful, CoalescedEnds
  <2> QED
    BY <2>2, <2>3, <2>5
<1>2. CASE ~provenance
  <2>1. PICK m : m = Merged(q)
    OBVIOUS
  <2>2. BatchEvents(q, active) = Translated(m, active)
    BY <1>2, <2>1, Zenon DEF BatchEvents
  <2>3. m \in Flowing /\ Carried(m) = Flow(q) /\ IsLast(m) = IsLast(q[Len(q)])
    BY <2>1, MergedFaithful
  <2>4. ASSUME q \in Seq(Open) PROVE m \in Open
    <3>1. q[Len(q)] \in Open
      BY <2>4
    <3> QED
      BY <2>3, <3>1 DEF Open
  <2>5. ASSUME Closing(q) PROVE m \notin Open
    <3>1. PICK f \in Seq(Open), x \in Flowing \ Open : Longer(q, f, x)
      BY <2>5 DEF Closing
    <3>2. q[Len(q)] = x
      BY <3>1 DEF Longer
    <3> QED
      BY <2>3, <3>1, <3>2 DEF Open
  <2> QED
    BY <2>2, <2>3, <2>4, <2>5, TranslatedFaithful
<1> QED
  BY <1>1, <1>2

(* What stops the reading of results, and the order it keeps: only         *)
(* sentinels come behind it.                                               *)
Ends(item) == IsStop(item) \/ IsLast(item)
Ordered(q) == \A i, j \in DOMAIN q : i < j /\ Ends(q[i]) => q[j] = Sentinel
Small(q) == \A i \in DOMAIN q : Len(Carried(q[i])) <= 1

(* What is drained with a streaming result.                                *)
LEMMA ReadyFaithful ==
  ASSUME NEW first \in Results, ~IsLast(first), Len(Carried(first)) <= 1,
         NEW items \in Seq(Items), Ordered(items), Small(items)
  PROVE  LET results == Ready(first, items)
         IN  /\ results \in Seq(Results) /\ results # <<>>
             /\ Flow(results) = Carried(first) \o Flow(items)
             /\ Len(results) <= 1 + Len(items) /\ Small(results)
             /\ results \in Seq(Open) \/ (Closing(results) /\ \E i \in DOMAIN items : IsLast(items[i]))
<1> DEFINE Right(results, s) ==
             /\ results \in Seq(Results) /\ results # <<>>
             /\ Flow(results) = Carried(first) \o Flow(s)
             /\ Len(results) <= 1 + Len(s) /\ Small(results)
             /\ results \in Seq(Open) \/ (Closing(results) /\ \E i \in DOMAIN s : IsLast(s[i]))
           T == {s \in Seq(Items) : Ordered(s) /\ Small(s) => Right(Ready(first, s), s)}
<1>0. first \in Items /\ first \in Open /\ first \in Things /\ Carried(first) \in Seq(Pieces)
  BY CarriedType DEF Items, Open, Flowing, Things
<1>1. <<>> \in T
  <2>1. /\ <<>> \in Seq(Items) /\ <<first>> \in Seq(Results) /\ <<first>> # <<>>
        /\ <<first>> \in Seq(Open) /\ Len(<<first>>) = 1 /\ Len(<<>>) = 0
        /\ DOMAIN <<first>> = {1} /\ <<first>>[1] = first
    BY <1>0
  <2>2. Small(<<first>>)
    BY <2>1 DEF Small
  <2>3. Flow(<<first>>) = Carried(first) \o Flow(<<>>)
    <3>1. Carried(first) \o <<>> = Carried(first)
      BY <1>0, ConcatEmptySeq
    <3> QED
      BY <1>0, <3>1, FlowOne, FlowEmpty
  <2>4. PICK results : results = <<first>>
    OBVIOUS
  <2>5. Right(results, <<>>)
    BY <2>1, <2>2, <2>3, <2>4
  <2> HIDE DEF Right
  <2> QED
    BY <1>0, <2>1, <2>4, <2>5, ReadyEmpty
<1>2. \A s \in Seq(Items), x \in Items : s \in T => Append(s, x) \in T
  <2> SUFFICES ASSUME NEW s \in Seq(Items), NEW x \in Items, s \in T PROVE Append(s, x) \in T
    OBVIOUS
  <2>1. PICK old, more, new : /\ old = Ready(first, s) /\ more = Append(s, x)
                              /\ new = Ready(first, more)
    OBVIOUS
  <2>2. more \in Seq(Items) /\ Longer(more, s, x)
    BY <2>1 DEF Longer
  <2>3. /\ DOMAIN s = 1..Len(s) /\ Len(s) \in Nat /\ DOMAIN more = 1..(Len(s) + 1)
        /\ Len(more) = Len(s) + 1 /\ more[Len(s) + 1] = x /\ \A i \in 1..Len(s) : more[i] = s[i]
    BY <2>1
  <2>4. SUFFICES ASSUME Ordered(more), Small(more) PROVE Right(new, more)
    <3> HIDE DEF Right
    <3> QED
      BY <2>1, <2>2
  <2>5. Ordered(s) /\ Small(s) /\ Len(Carried(x)) <= 1
    <3>1. Len(s) + 1 \in DOMAIN more /\ \A i \in DOMAIN s : i \in DOMAIN more /\ i < Len(s) + 1
      BY <2>3
    <3> QED
      BY <2>3, <2>4, <3>1 DEF Ordered, Small
  <2>6. Right(old, s)
    <3> HIDE DEF Right
    <3> QED
      BY <2>1, <2>5
  <2>7. new = IF IsStreaming(x) THEN Append(old, x) ELSE old
    BY <1>0, <2>1, ReadyAppend
  <2>8. s \in Seq(Things) /\ x \in Things /\ old \in Seq(Things)
    BY <2>6, SeqMonotonic DEF Things, Items
  <2>9. /\ Flow(more) = Flow(s) \o Carried(x) /\ Flow(s) \in Seq(Pieces)
        /\ Carried(x) \in Seq(Pieces)
    BY <2>1, <2>8, FlowAppend, CarriedType
  <2>10. Flow(old) \o Carried(x) = Carried(first) \o Flow(more)
    <3>1. (Carried(first) \o Flow(s)) \o Carried(x) = Carried(first) \o (Flow(s) \o Carried(x))
      BY <1>0, <2>9, ConcatAssociative
    <3> QED
      BY <2>6, <2>9, <3>1
  <2>11. CASE ~IsStreaming(x)
    <3>1. new = old
      BY <2>7, <2>11
    <3>2. Carried(x) = <<>>
      <4>1. x \in {Started, Exception, Sentinel}
        BY <2>11 DEF Items, Results, IsStreaming
      <4> QED
        BY <4>1 DEF Started, Exception, Sentinel, Carried
    <3>3. Flow(old) \o <<>> = Flow(old)
      <4>1. Flow(old) \in Seq(Pieces)
        BY <2>8, FlowConcat
      <4> QED
        BY <4>1, ConcatEmptySeq
    <3>4. Flow(new) = Carried(first) \o Flow(more)
      BY <2>10, <3>1, <3>2, <3>3
    <3>5. Len(new) <= 1 + Len(more)
      <4>1. Len(old) \in Nat
        BY <2>6
      <4> QED
        BY <2>3, <2>6, <3>1, <4>1
    <3>6. (\E i \in DOMAIN s : IsLast(s[i])) => \E i \in DOMAIN more : IsLast(more[i])
      BY <2>3
    <3> QED
      BY <2>6, <3>1, <3>4, <3>5, <3>6
  <2>12. CASE IsStreaming(x)
    <3>1. new = Append(old, x) /\ Longer(new, old, x)
      BY <2>7, <2>12 DEF Longer
    <3>2. x \in Results
      BY <2>12 DEF Items, IsStreaming, Started, Exception, Sentinel
    <3>3. new \in Seq(Results) /\ new # <<>> /\ Len(new) = Len(old) + 1 /\ Len(old) \in Nat
      <4>1. old \in Seq(Results)
        BY <2>6
      <4>2. new = Append(old, x)
        BY <3>1
      <4> QED
        BY <3>2, <4>1, <4>2
    <3>4. Flow(new) = Carried(first) \o Flow(more)
      <4>1. Flow(new) = Flow(old) \o Carried(x)
        BY <2>8, <3>1, FlowAppend
      <4> QED
        BY <2>10, <4>1
    <3>5. Small(new)
      <4>1. /\ DOMAIN old = 1..Len(old) /\ DOMAIN new = 1..(Len(old) + 1)
            /\ new[Len(old) + 1] = x /\ \A i \in 1..Len(old) : new[i] = old[i]
        BY <2>6, <3>1, <3>2, AppendProperties, LenProperties, <3>3
      <4>2. \A i \in 1..Len(old) : Len(Carried(old[i])) <= 1
        BY <2>6, <4>1 DEF Small
      <4>3. \A i \in 1..(Len(old) + 1) : i \in 1..Len(old) \/ i = Len(old) + 1
        BY <3>3
      <4>4. \A i \in 1..(Len(old) + 1) : Len(Carried(new[i])) <= 1
        BY <2>5, <4>1, <4>2, <4>3
      <4> QED
        BY <4>1, <4>4 DEF Small
    <3>6. x # Sentinel
      BY <2>12 DEF IsStreaming, Sentinel
    <3>7. \A i \in DOMAIN s : ~IsLast(s[i])
      <4> SUFFICES ASSUME NEW i \in DOMAIN s, IsLast(s[i]) PROVE FALSE
        OBVIOUS
      <4>1. i \in DOMAIN more /\ Len(s) + 1 \in DOMAIN more /\ i < Len(s) + 1 /\ more[i] = s[i]
        BY <2>3
      <4>2. more[Len(s) + 1] = Sentinel
        BY <2>4, <4>1 DEF Ordered, Ends
      <4> QED
        BY <2>3, <3>6, <4>2
    <3>8. old \in Seq(Open)
      BY <2>6, <3>7
    <3>9. CASE IsLast(x)
      <4>1. x \in Flowing \ Open
        BY <3>2, <3>9 DEF Flowing, Open
      <4>2. Closing(new)
        BY <3>1, <3>8, <4>1, Zenon DEF Closing
      <4>3. Len(s) + 1 \in DOMAIN more /\ IsLast(more[Len(s) + 1])
        BY <2>3, <3>9
      <4>4. Len(new) <= 1 + Len(more)
        BY <2>3, <2>6, <3>3
      <4> QED
        BY <3>3, <3>4, <3>5, <4>2, <4>3, <4>4
    <3>10. CASE ~IsLast(x)
      <4>1. x \in Open
        BY <3>2, <3>10 DEF Flowing, Open
      <4>2. new \in Seq(Open)
        BY <3>1, <3>8, <4>1, AppendProperties
      <4>3. Len(new) <= 1 + Len(more)
        BY <2>3, <2>6, <3>3
      <4> QED
        BY <3>3, <3>4, <3>5, <4>2, <4>3
    <3> QED
      BY <3>9, <3>10
  <2> HIDE DEF Right
  <2> QED
    BY <2>11, <2>12
<1> HIDE DEF T, Right
<1>3. items \in T
  BY <1>1, <1>2, SeqInduction
<1> QED
  BY <1>3 DEF T, Right

(* Whether some piece is a native marker.                                  *)
HasNative(text) == \E i \in DOMAIN text : text[i].native

(* The native markers of a concatenation.                                  *)
LEMMA NativeConcat ==
  ASSUME NEW p \in Seq(Pieces), NEW q \in Seq(Pieces)
  PROVE  HasNative(p \o q) = (HasNative(p) \/ HasNative(q))
<1>1. PICK r : r = p \o q
  OBVIOUS
<1>2. /\ DOMAIN p = 1..Len(p) /\ DOMAIN q = 1..Len(q) /\ Len(p) \in Nat /\ Len(q) \in Nat
      /\ DOMAIN r = 1..(Len(p) + Len(q))
  BY <1>1
<1>3. \A i \in 1..(Len(p) + Len(q)) : r[i] = IF i <= Len(p) THEN p[i] ELSE q[i - Len(p)]
  BY <1>1
<1>4. ASSUME NEW i \in DOMAIN p, p[i].native PROVE HasNative(r)
  <2>1. i \in DOMAIN r /\ r[i] = p[i]
    BY <1>2, <1>3
  <2> QED
    BY <1>4, <2>1 DEF HasNative
<1>5. ASSUME NEW i \in DOMAIN q, q[i].native PROVE HasNative(r)
  <2>1. i + Len(p) \in 1..(Len(p) + Len(q)) /\ ~(i + Len(p) <= Len(p)) /\ (i + Len(p)) - Len(p) = i
    BY <1>2
  <2>2. r[i + Len(p)] = q[i] /\ i + Len(p) \in DOMAIN r
    BY <1>2, <1>3, <2>1
  <2> QED
    BY <1>5, <2>2 DEF HasNative
<1>6. ASSUME NEW i \in DOMAIN r, r[i].native PROVE HasNative(p) \/ HasNative(q)
  <2>1. CASE i <= Len(p)
    <3>1. i \in DOMAIN p /\ r[i] = p[i]
      BY <1>2, <1>3, <2>1
    <3> QED
      BY <1>6, <3>1 DEF HasNative
  <2>2. CASE ~(i <= Len(p))
    <3>1. i - Len(p) \in DOMAIN q /\ r[i] = q[i - Len(p)]
      BY <1>2, <1>3, <2>2
    <3> QED
      BY <1>6, <3>1 DEF HasNative
  <2> QED
    BY <2>1, <2>2
<1>7. HasNative(p) \/ HasNative(q) => HasNative(r)
  BY <1>4, <1>5 DEF HasNative
<1>8. HasNative(r) => HasNative(p) \/ HasNative(q)
  BY <1>6 DEF HasNative
<1>9. HasNative(r) \in BOOLEAN /\ HasNative(p) \in BOOLEAN /\ HasNative(q) \in BOOLEAN
  BY DEF HasNative
<1> QED
  BY <1>1, <1>7, <1>8, <1>9

(* The native markers of what is carried.                                  *)
LEMMA FlowNative ==
  ASSUME NEW q \in Seq(Things)
  PROVE  HasNative(Flow(q)) = \E i \in DOMAIN q : HasNative(Carried(q[i]))
<1> DEFINE Some(s) == \E i \in DOMAIN s : HasNative(Carried(s[i]))
           T == {s \in Seq(Things) : HasNative(Flow(s)) = Some(s)}
<1>1. <<>> \in T
  <2>1. <<>> \in Seq(Things) /\ DOMAIN <<>> = {}
    OBVIOUS
  <2>2. ~HasNative(<<>>) /\ ~Some(<<>>)
    BY <2>1 DEF HasNative
  <2>3. HasNative(<<>>) \in BOOLEAN /\ Some(<<>>) \in BOOLEAN
    BY DEF HasNative
  <2> HIDE DEF Some
  <2> QED
    BY <2>1, <2>2, <2>3, FlowEmpty
<1>2. \A s \in Seq(Things), x \in Things : s \in T => Append(s, x) \in T
  <2> SUFFICES ASSUME NEW s \in Seq(Things), NEW x \in Things, s \in T PROVE Append(s, x) \in T
    OBVIOUS
  <2>1. PICK more : more = Append(s, x)
    OBVIOUS
  <2>2. /\ more \in Seq(Things) /\ DOMAIN s = 1..Len(s) /\ Len(s) \in Nat
        /\ DOMAIN more = 1..(Len(s) + 1)
        /\ more[Len(s) + 1] = x /\ \A i \in 1..Len(s) : more[i] = s[i]
    BY <2>1
  <2>3. /\ Flow(s) \in Seq(Pieces) /\ Carried(x) \in Seq(Pieces)
        /\ Flow(more) = Flow(s) \o Carried(x)
    BY <2>1, CarriedType, FlowAppend
  <2>4. HasNative(Flow(more)) = (HasNative(Flow(s)) \/ HasNative(Carried(x)))
    BY <2>3, NativeConcat
  <2>5. Some(more) = (Some(s) \/ HasNative(Carried(x)))
    <3>1. \A i \in 1..(Len(s) + 1) : i \in 1..Len(s) \/ i = Len(s) + 1
      BY <2>2
    <3>2. Len(s) + 1 \in 1..(Len(s) + 1) /\ \A i \in 1..Len(s) : i \in 1..(Len(s) + 1)
      BY <2>2
    <3>3. Some(more) => Some(s) \/ HasNative(Carried(x))
      BY <2>2, <3>1
    <3>4. Some(s) \/ HasNative(Carried(x)) => Some(more)
      BY <2>2, <3>2
    <3>5. Some(more) \in BOOLEAN /\ Some(s) \in BOOLEAN /\ HasNative(Carried(x)) \in BOOLEAN
      BY DEF HasNative
    <3> HIDE DEF Some
    <3> QED
      BY <3>3, <3>4, <3>5
  <2> HIDE DEF Some
  <2> QED
    BY <2>1, <2>2, <2>4, <2>5
<1> HIDE DEF T
<1>3. q \in T
  BY <1>1, <1>2, SeqInduction
<1> QED
  BY <1>3 DEF T

(* A nonempty set of positions has a least one.                            *)
LEMMA LeastOfPart ==
  ASSUME NEW n \in Nat, NEW s \in SUBSET (1..n), s # {}
  PROVE  \E x \in s : \A y \in s : x <= y
<1> DEFINE R == OpToRel(<, Nat)
<1>1. \A x, y \in Nat : y < x => <<y, x>> \in R
  BY DEF OpToRel
<1>2. IsWellFoundedOn(R, Nat)
  BY NatLessThanWellFounded
<1>3. s \in SUBSET Nat
  OBVIOUS
<1> HIDE DEF R
<1>4. PICK x \in s : \A y \in s : ~(<<y, x>> \in R)
  BY <1>2, <1>3, WFMin
<1>5. \A y \in s : ~(y < x) /\ x \in Nat /\ y \in Nat
  BY <1>1, <1>3, <1>4
<1>6. \A y \in s : x <= y
  BY <1>5
<1> QED
  BY <1>6

-----------------------------------------------------------------------------
(* The inductive invariant.                                                *)
Over == backend \in {"over", "ended"}
(* Events with right spans and no more pieces than one drain takes; items  *)
(* that only wake the consumer.                                            *)
Deliverable == {event \in ExactEvents : Len(Carried(event)) <= DrainMax}
Silent(q) == q \in Seq({Sentinel})

(* The types that the argument uses.                                       *)
TypeInv ==
  /\ provenance \in BOOLEAN /\ genError \in BOOLEAN /\ cancelEvent \in BOOLEAN
  /\ terminal \in BOOLEAN /\ activated \in BOOLEAN
  /\ backend \in {"queued", "running", "over", "ended"}
  /\ pc \in {"idle", "waiting", "gone"}
  /\ cancelPc \in {"idle", "requested", "cancelling", "done"}
  /\ produced \in Seq(Pieces) /\ Len(produced) <= MaxPieces
  /\ queue \in Seq(Items) /\ taken \in Seq(Items) /\ Len(taken) <= 1
  /\ pending \in Seq(Deliverable) /\ events \in Seq(Deliverable)

(* Behind what ends the results only sentinels come, and a job that has    *)
(* queued such an item is over.                                            *)
QueueInv ==
  /\ Ordered(queue) /\ Small(queue) /\ Small(taken)
  /\ \A i \in DOMAIN queue : Ends(queue[i]) => Over
  /\ \A i \in DOMAIN taken : Ends(taken[i]) => Over /\ Silent(queue)

(* What was generated is what was delivered, is pending, was taken and is  *)
(* queued, in this order, until the stream ends.                           *)
TextInv ==
  /\ \E rest \in Seq(Pieces) : produced = Flow(events) \o rest
  /\ ~terminal /\ pc # "gone" =>
       produced = (Flow(events) \o Flow(pending)) \o (Flow(taken) \o Flow(queue))

(* A finish is pending only when there is nothing more to come.            *)
PendingInv ==
  pending \in Seq(CalmEvents) \/ (EndsAs(pending, activated) /\ Over /\ Silent(queue))

(* The consumer knows of the markers it was or will be told.               *)
ActiveInv ==
  ~terminal /\ pc # "gone" =>
    activated = (Constrained /\ HasNative(Flow(events) \o Flow(pending)))

(* What a finish reports.                                                  *)
FinishRight(event) ==
  event.kind = "finished" =>
    /\ Over /\ produced = Flow(events)
    /\ event.activated = (Constrained /\ HasNative(produced))

(* Before the end no event ends the stream, and the last one is right.     *)
EventsInv ==
  /\ ~terminal => events \in Seq(CalmEvents)
  /\ terminal => \E f \in Seq(CalmEvents), event \in Events \ CalmEvents :
                   Longer(events, f, event) /\ FinishRight(event)

(* What the consumer holds at each of its places.                          *)
ReaderInv ==
  /\ terminal \/ pc # "idle" => pending = <<>>
  /\ pc # "idle" => ~terminal
  /\ pc # "waiting" => taken = <<>>

(* The inductive invariant of a runtime session.                           *)
SessionInv ==
  /\ TypeInv /\ QueueInv /\ TextInv /\ PendingInv /\ ActiveInv /\ EventsInv /\ ReaderInv

(* The invariant holds before the session starts.                          *)
LEMMA SessionInit == Init => SessionInv
<1> SUFFICES ASSUME Init PROVE SessionInv
  OBVIOUS
<1>1. /\ queue = <<>> /\ taken = <<>> /\ pending = <<>> /\ events = <<>> /\ produced = <<>>
      /\ ~terminal /\ pc = "idle" /\ activated = FALSE /\ Constrained \in BOOLEAN
  BY FlagAssumption DEF Init
<1>2. /\ <<>> \in Seq(Pieces) /\ <<>> \in Seq(Items) /\ <<>> \in Seq(Deliverable)
      /\ <<>> \in Seq(CalmEvents) /\ Len(<<>>) = 0 /\ DOMAIN <<>> = {} /\ <<>> \o <<>> = <<>>
  OBVIOUS
<1>3. TypeInv
  <2>1. Len(produced) <= MaxPieces /\ Len(taken) <= 1
    BY <1>1, <1>2, BoundAssumption
  <2>2. /\ provenance \in BOOLEAN /\ genError \in BOOLEAN /\ cancelEvent \in BOOLEAN
        /\ terminal \in BOOLEAN /\ activated \in BOOLEAN
        /\ backend = "queued" /\ cancelPc = "idle"
    BY DEF Init
  <2> QED
    BY <1>1, <1>2, <2>1, <2>2 DEF TypeInv
<1>4. QueueInv
  BY <1>1, <1>2 DEF QueueInv, Ordered, Small
<1>5. TextInv
  BY <1>1, <1>2, FlowEmpty DEF TextInv
<1>6. ActiveInv
  BY <1>1, <1>2, FlowEmpty DEF ActiveInv, HasNative
<1> QED
  BY <1>1, <1>2, <1>3, <1>4, <1>5, <1>6 DEF SessionInv, PendingInv, EventsInv, ReaderInv

(* Text is concatenated in any grouping.                                   *)
Grouped(p, q, r) == (p \o q) \o r = p \o (q \o r)

(* It may be.                                                             *)
LEMMA TextAssociative ==
  ASSUME NEW p \in Seq(Pieces), NEW q \in Seq(Pieces), NEW r \in Seq(Pieces)
  PROVE  Grouped(p, q, r)
<1> QED
  BY ConcatAssociative DEF Grouped

(* Text that is appended at the end of four parts is at the end of the     *)
(* last.                                                                   *)
Lengthened(e, p, t, q, c) ==
  ((e \o p) \o (t \o q)) \o c = (e \o p) \o (t \o (q \o c))

(* It is, in any grouping.                                                 *)
LEMMA TextGrows ==
  ASSUME NEW e \in Seq(Pieces), NEW p \in Seq(Pieces), NEW t \in Seq(Pieces),
         NEW q \in Seq(Pieces), NEW c \in Seq(Pieces)
  PROVE  Lengthened(e, p, t, q, c)
<1>1. PICK a, b : a = e \o p /\ b = t \o q /\ a \in Seq(Pieces) /\ b \in Seq(Pieces)
  BY ConcatProperties
<1>2. Grouped(a, b, c) /\ Grouped(t, q, c)
  BY <1>1, TextAssociative
<1> QED
  BY <1>1, <1>2, Zenon DEF Grouped, Lengthened

consumed == <<taken, pending, pc, terminal, activated, events>>

(* The job puts one more item in the queue.                                *)
LEMMA QueueStep ==
  ASSUME SessionInv, NEW x \in Items, queue' = Append(queue, x), UNCHANGED consumed,
         UNCHANGED provenance, cancelEvent' \in BOOLEAN, genError' \in BOOLEAN,
         backend' \in {"queued", "running", "over", "ended"},
         cancelPc' \in {"idle", "requested", "cancelling", "done"},
         produced' = produced \o Carried(x), produced' \in Seq(Pieces), Len(produced') <= MaxPieces,
         Len(Carried(x)) <= 1, x = Sentinel \/ ~Over, Over => Over', Ends(x) => Over'
  PROVE  SessionInv'
<1> USE DEF SessionInv
<1>1. /\ taken' = taken /\ pending' = pending /\ pc' = pc /\ terminal' = terminal
      /\ activated' = activated /\ events' = events
  BY DEF consumed
<1>2. queue \in Seq(Items) /\ queue' \in Seq(Items)
  BY DEF TypeInv
<1>3. /\ DOMAIN queue = 1..Len(queue) /\ Len(queue) \in Nat /\ DOMAIN queue' = 1..(Len(queue) + 1)
      /\ queue'[Len(queue) + 1] = x /\ \A i \in 1..Len(queue) : queue'[i] = queue[i]
  BY <1>2
<1>3a. \A i \in 1..(Len(queue) + 1) : i \in 1..Len(queue) \/ i = Len(queue) + 1
  BY <1>3
<1>4. TypeInv'
  <2>1. provenance' \in BOOLEAN
    BY DEF TypeInv
  <2> QED
    BY <1>1, <1>2, <2>1, ZenonT(30) DEF TypeInv
<1>5. Silent(queue) /\ Over => Silent(queue')
  BY DEF Silent
<1>6. QueueInv'
  <2>1. Ordered(queue')
    <3> SUFFICES ASSUME NEW i \in DOMAIN queue', NEW j \in DOMAIN queue', i < j, Ends(queue'[i])
                 PROVE  queue'[j] = Sentinel
      BY DEF Ordered
    <3>1. i \in 1..Len(queue) /\ queue'[i] = queue[i]
      BY <1>3
    <3>2. Over
      BY <1>3, <3>1 DEF QueueInv
    <3>3. CASE j \in 1..Len(queue)
      BY <1>3, <3>1, <3>3 DEF QueueInv, Ordered
    <3>4. CASE j = Len(queue) + 1
      BY <1>3, <3>2, <3>4
    <3> QED
      BY <1>3, <1>3a, <3>3, <3>4
  <2>2. Small(queue')
    <3>1. \A i \in 1..Len(queue) : Len(Carried(queue[i])) <= 1
      BY <1>3 DEF QueueInv, Small
    <3>2. \A i \in 1..(Len(queue) + 1) : Len(Carried(queue'[i])) <= 1
      BY <1>3, <1>3a, <3>1
    <3> QED
      BY <1>3, <3>2 DEF Small
  <2>3. ASSUME NEW i \in DOMAIN queue', Ends(queue'[i]) PROVE Over'
    <3>1. CASE i \in 1..Len(queue)
      BY <1>3, <2>3, <3>1 DEF QueueInv
    <3>2. CASE i = Len(queue) + 1
      BY <1>3, <2>3, <3>2
    <3> QED
      BY <1>3, <1>3a, <3>1, <3>2
  <2>4. \A i \in DOMAIN taken : Ends(taken[i]) => Over' /\ Silent(queue')
    BY <1>5 DEF QueueInv
  <2>5. Small(taken')
    BY <1>1 DEF QueueInv
  <2> QED
    BY <1>1, <2>1, <2>2, <2>3, <2>4, <2>5 DEF QueueInv
<1>7. /\ Flow(events) \in Seq(Pieces) /\ Flow(pending) \in Seq(Pieces)
      /\ Flow(taken) \in Seq(Pieces) /\ Flow(queue) \in Seq(Pieces) /\ Carried(x) \in Seq(Pieces)
      /\ Flow(queue') = Flow(queue) \o Carried(x)
  <2>1. /\ events \in Seq(Things) /\ pending \in Seq(Things) /\ taken \in Seq(Things)
        /\ queue \in Seq(Things) /\ x \in Things
    BY SeqMonotonic DEF TypeInv, Things, Deliverable, ExactEvents
  <2> QED
    BY <2>1, FlowAppend, CarriedType, FlowConcat
<1>8. TextInv'
  <2>1. PICK rest \in Seq(Pieces) : produced = Flow(events) \o rest
    BY DEF TextInv
  <2>2. produced' = Flow(events') \o (rest \o Carried(x)) /\ rest \o Carried(x) \in Seq(Pieces)
    <3>1. Grouped(Flow(events), rest, Carried(x))
      BY <1>7, TextAssociative
    <3>2. rest \o Carried(x) \in Seq(Pieces)
      BY <1>7, ConcatProperties
    <3> QED
      BY <1>1, <2>1, <3>1, <3>2, Zenon DEF Grouped
  <2>3. ASSUME ~terminal, pc # "gone"
        PROVE  produced' = (Flow(events') \o Flow(pending')) \o (Flow(taken') \o Flow(queue'))
    <3>1. produced = (Flow(events) \o Flow(pending)) \o (Flow(taken) \o Flow(queue))
      BY <2>3 DEF TextInv
    <3>2. Lengthened(Flow(events), Flow(pending), Flow(taken), Flow(queue), Carried(x))
      BY <1>7, TextGrows
    <3> QED
      BY <1>1, <1>7, <3>1, <3>2, Zenon DEF Lengthened
  <2> QED
    BY <1>1, <2>2, <2>3, Zenon DEF TextInv
<1>9. PendingInv'
  BY <1>1, <1>5 DEF PendingInv, EndsAs
<1>10. ActiveInv' /\ ReaderInv'
  BY <1>1 DEF ActiveInv, ReaderInv
<1>11. Over => produced' = produced
  <2>1. ASSUME Over PROVE Carried(x) = <<>>
    <3>1. x = Sentinel
      BY <2>1
    <3> QED
      BY <3>1 DEF Sentinel, Carried
  <2>2. produced \o <<>> = produced
    BY ConcatEmptySeq DEF TypeInv
  <2> QED
    BY <2>1, <2>2
<1>12. EventsInv'
  <2>1. CASE ~terminal
    BY <1>1, <2>1 DEF EventsInv
  <2>2. CASE terminal
    <3>1. PICK f \in Seq(CalmEvents), event \in Events \ CalmEvents :
                 Longer(events, f, event) /\ FinishRight(event)
      BY <2>2 DEF EventsInv
    <3>2. FinishRight(event)'
      BY <1>1, <1>11, <3>1 DEF FinishRight
    <3> QED
      BY <1>1, <2>2, <3>1, <3>2, Zenon DEF EventsInv
  <2> QED
    BY <2>1, <2>2
<1> QED
  BY <1>4, <1>6, <1>8, <1>9, <1>10, <1>12

(* What is left of a sequence when its beginning is read.                  *)
LEMMA RestOfSeq ==
  ASSUME NEW X, NEW q \in Seq(X), NEW k \in 0..Len(q), NEW r, r = SubSeq(q, k + 1, Len(q))
  PROVE  /\ r \in Seq(X) /\ Len(r) = Len(q) - k /\ Len(q) \in Nat /\ k \in Nat /\ k <= Len(q)
         /\ DOMAIN r = 1..(Len(q) - k) /\ \A i \in 1..(Len(q) - k) : r[i] = q[k + i]
<1>1. PICK n, m : n = Len(q) /\ m = k + 1
  OBVIOUS
<1>2. n \in Nat /\ k \in Nat /\ k <= n /\ m \in Int /\ n \in Int /\ m >= 1
  BY <1>1
<1>3. \A i \in m..n : q[i] \in X
  BY <1>1, <1>2
<1>4. /\ r \in Seq(X) /\ Len(r) = IF m <= n THEN n - m + 1 ELSE 0
      /\ \A i \in 1..(n - m + 1) : r[i] = q[m + i - 1]
  BY <1>1, <1>2, <1>3, SubSeqProperties
<1>5. /\ (IF m <= n THEN n - m + 1 ELSE 0) = n - k /\ n - m + 1 = n - k
      /\ \A i \in 1..(n - k) : m + i - 1 = k + i
  BY <1>1, <1>2
<1>6. Len(r) = n - k /\ \A i \in 1..(n - k) : r[i] = q[k + i]
  BY <1>4, <1>5
<1>7. DOMAIN r = 1..(n - k)
  BY <1>4, <1>6, LenProperties
<1> QED
  BY <1>1, <1>2, <1>4, <1>6, <1>7

(* r is left of the ordered queue q when k items are read.                 *)
RestOf(q, k, r) ==
  q \in Seq(Items) /\ Ordered(q) /\ k \in 0..Len(q) /\ r = SubSeq(q, k + 1, Len(q))

(* The rest of the queue is ordered.                                       *)
LEMMA OrderedRest ==
  ASSUME NEW q, NEW k, NEW r, RestOf(q, k, r)
  PROVE  /\ r \in Seq(Items) /\ Ordered(r)
         /\ \A i \in DOMAIN r : \E j \in DOMAIN q : r[i] = q[j]
         /\ (\E i \in 1..k : Ends(q[i])) => Silent(r)
<1> DEFINE n == Len(q)
<1>0. q \in Seq(Items) /\ Ordered(q) /\ k \in 0..Len(q) /\ r = SubSeq(q, k + 1, Len(q))
  BY DEF RestOf
<1>1. /\ r \in Seq(Items) /\ Len(r) = n - k /\ n \in Nat /\ k \in Nat /\ k <= n
      /\ DOMAIN r = 1..(n - k) /\ \A i \in 1..(n - k) : r[i] = q[k + i]
  BY <1>0, RestOfSeq
<1>2. DOMAIN q = 1..n
  BY <1>0
<1> HIDE DEF n
<1>3. \A i \in 1..(n - k) : k + i \in 1..n
  BY <1>1
<1>4. Ordered(r)
  <2> SUFFICES ASSUME NEW i \in DOMAIN r, NEW j \in DOMAIN r, i < j, Ends(r[i])
               PROVE  r[j] = Sentinel
    BY DEF Ordered
  <2>1. k + i \in DOMAIN q /\ k + j \in DOMAIN q /\ k + i < k + j
    BY <1>1, <1>2, <1>3
  <2>2. r[i] = q[k + i] /\ r[j] = q[k + j]
    BY <1>1
  <2> QED
    BY <1>0, <2>1, <2>2 DEF Ordered
<1>5. ASSUME NEW i \in 1..k, Ends(q[i]) PROVE Silent(r)
  <2>1. i \in DOMAIN q
    BY <1>1, <1>2
  <2>2. \A j \in 1..(n - k) : r[j] \in {Sentinel}
    <3> SUFFICES ASSUME NEW j \in 1..(n - k) PROVE q[k + j] = Sentinel
      BY <1>1
    <3>1. k + j \in DOMAIN q /\ i < k + j
      BY <1>1, <1>2, <1>3
    <3> QED
      BY <1>0, <1>5, <2>1, <3>1 DEF Ordered
  <2>3. PICK m : m = n - k
    OBVIOUS
  <2>4. m \in Nat /\ Len(r) = m /\ \A j \in 1..m : r[j] \in {Sentinel}
    BY <1>1, <2>2, <2>3
  <2>5. r = [j \in 1..m |-> r[j]]
    BY <1>1, <2>4
  <2>6. r \in Seq({Sentinel})
    BY <2>4, <2>5
  <2> QED
    BY <2>6 DEF Silent
<1> QED
  BY <1>1, <1>2, <1>3, <1>4, <1>5

(* What is known of the queue holds of the rest of it.                     *)
LEMMA QueueRest ==
  ASSUME SessionInv, NEW k \in 0..Len(queue), UNCHANGED backend,
         queue' = SubSeq(queue, k + 1, Len(queue)), taken' = <<>>
  PROVE  /\ queue' \in Seq(Items) /\ QueueInv'
         /\ Silent(queue) => Silent(queue')
         /\ (\E i \in 1..k : Ends(queue[i])) => Over /\ Silent(queue')
<1> USE DEF SessionInv
<1>0. queue \in Seq(Items) /\ Ordered(queue)
  BY DEF TypeInv, QueueInv
<1>1. PICK q, r : q = queue /\ r = queue'
  OBVIOUS
<1>2. /\ q \in Seq(Items) /\ Ordered(q) /\ k \in 0..Len(q) /\ r = SubSeq(q, k + 1, Len(q))
      /\ DOMAIN q = 1..Len(q) /\ Len(q) \in Nat
  BY <1>0, <1>1
<1>3. /\ r \in Seq(Items) /\ Ordered(r)
      /\ \A i \in DOMAIN r : \E j \in DOMAIN q : r[i] = q[j]
      /\ (\E i \in 1..k : Ends(q[i])) => Silent(r)
  <2>1. RestOf(q, k, r)
    BY <1>2 DEF RestOf
  <2> QED
    BY <2>1, OrderedRest
<1>4. Small(q) /\ \A i \in DOMAIN q : Ends(q[i]) => Over
  BY <1>1 DEF QueueInv
<1>5. Small(r) /\ \A i \in DOMAIN r : Ends(r[i]) => Over'
  BY <1>3, <1>4 DEF Small, Over
<1>6. DOMAIN taken' = {}
  OBVIOUS
<1>7. QueueInv'
  BY <1>1, <1>3, <1>5, <1>6 DEF QueueInv, Small
<1>8. Silent(q) => Silent(r)
  BY <1>2, RestOfSeq DEF Silent
<1>9. (\E i \in 1..k : Ends(q[i])) => Over
  <2>1. \A i \in 1..k : i \in DOMAIN q
    BY <1>2
  <2> QED
    BY <1>4, <2>1
<1> QED
  BY <1>1, <1>3, <1>7, <1>8, <1>9

(* Sentinels carry no text.                                                *)
LEMMA SilentFlow ==
  ASSUME NEW q, Silent(q)
  PROVE  Flow(q) = <<>>
<1>1. q \in Seq({Sentinel})
  BY DEF Silent
<1>2. q \in Seq(Things)
  BY <1>1, SeqMonotonic DEF Things, Items
<1>3. \A i \in DOMAIN q : q[i] = Sentinel
  BY <1>1
<1>4. Carried(Sentinel) = <<>>
  BY DEF Sentinel, Carried
<1> QED
  BY <1>2, <1>3, <1>4, FlowNone

(* Delivering the first pending event.                                     *)
LEMMA EndsHead ==
  ASSUME NEW active, NEW q, EndsAs(q, active)
  PROVE  \/ Head(q) \in CalmEvents /\ EndsAs(Tail(q), active)
         \/ Head(q) = Finished(active) /\ Tail(q) = <<>>
<1>1. PICK f \in Seq(CalmEvents) : q = Append(f, Finished(active))
  BY DEF EndsAs
<1>2. PICK fin : fin = Finished(active)
  OBVIOUS
<1>3. CASE f = <<>>
  <2>1. q = <<fin>>
    BY <1>1, <1>2, <1>3
  <2>2. Head(q) = fin /\ Tail(q) = <<>>
    BY <2>1
  <2> QED
    BY <1>2, <2>2
<1>4. CASE f # <<>>
  <2>1. Head(f) \in CalmEvents /\ Tail(f) \in Seq(CalmEvents)
    BY <1>4
  <2>2. Head(Append(f, fin)) = Head(f) /\ Tail(Append(f, fin)) = Append(Tail(f), fin)
    <3>1. f \in Seq(CalmEvents \cup {fin}) /\ fin \in CalmEvents \cup {fin}
      BY SeqMonotonic
    <3> QED
      BY <1>4, <3>1, HeadTailAppend
  <2>3. q = Append(f, fin)
    BY <1>1, <1>2
  <2> QED
    BY <1>2, <2>1, <2>2, <2>3, Zenon DEF EndsAs
<1> QED
  BY <1>3, <1>4

(* The types of what a step of the consumer leaves alone.                  *)
LEMMA SharedTypes ==
  ASSUME SessionInv
  PROVE  /\ events \in Seq(Things) /\ pending \in Seq(Things) /\ taken \in Seq(Things)
         /\ queue \in Seq(Things) /\ queue \in Seq(Items) /\ taken \in Seq(Items)
         /\ Flow(events) \in Seq(Pieces) /\ Flow(pending) \in Seq(Pieces)
         /\ Flow(taken) \in Seq(Pieces) /\ Flow(queue) \in Seq(Pieces)
         /\ events \in Seq(Deliverable) /\ pending \in Seq(Deliverable)
<1>1. /\ events \in Seq(Things) /\ pending \in Seq(Things) /\ taken \in Seq(Things)
      /\ queue \in Seq(Things)
  BY SeqMonotonic DEF SessionInv, TypeInv, Things, Deliverable, ExactEvents
<1> QED
  BY <1>1, FlowConcat DEF SessionInv, TypeInv

(* The consumer is told that the session was cancelled or has failed.      *)
LEMMA StopStep ==
  ASSUME SessionInv, ~terminal, pc # "gone", NEW k \in 0..Len(queue),
         queue' = SubSeq(queue, k + 1, Len(queue)), taken' = <<>>, pc' = "idle", UNCHANGED shared,
         UNCHANGED activated, NEW event \in {Cancelled, Failed}, pending' = <<>>, Deliver(event)
  PROVE  SessionInv'
<1> USE DEF SessionInv
<1>1. /\ provenance' = provenance /\ backend' = backend /\ genError' = genError
      /\ produced' = produced /\ cancelPc' = cancelPc /\ cancelEvent' = cancelEvent
  BY DEF shared
<1>2. queue' \in Seq(Items) /\ QueueInv'
  BY <1>1, QueueRest
<1>3. /\ event \in Events /\ event \in Deliverable /\ event.kind \in Terminals
      /\ event.kind # "finished" /\ Carried(event) = <<>> /\ event \notin CalmEvents
  <2>1. /\ event.kind \in {"cancelled", "failed"} /\ event \in Events
    BY DEF Cancelled, Failed, Events
  <2>2. Carried(event) = <<>> /\ Len(<<>>) = 0
    BY <2>1 DEF Carried
  <2>3. Exact(event)
    BY <2>1 DEF Exact
  <2> QED
    BY <2>1, <2>2, <2>3, BoundAssumption DEF Deliverable, ExactEvents, Terminals, CalmEvents
<1>4. events' = Append(events, event) /\ terminal' = TRUE
  BY <1>3 DEF Deliver
<1>5. events' \in Seq(Deliverable) /\ Flow(events') = Flow(events)
  <2>1. event \in Things
    BY <1>3 DEF Things
  <2>2. Flow(events') = Flow(events) \o <<>>
    BY <1>3, <1>4, <2>1, SharedTypes, FlowAppend
  <2>3. Flow(events) \o <<>> = Flow(events)
    BY SharedTypes, ConcatEmptySeq
  <2>4. events \in Seq(Deliverable)
    BY DEF TypeInv
  <2> QED
    BY <1>3, <1>4, <2>2, <2>3, <2>4, AppendProperties
<1>6. TypeInv'
  <2>1. /\ <<>> \in Seq(Deliverable) /\ <<>> \in Seq(Items) /\ Len(<<>>) = 0
    OBVIOUS
  <2>2. Len(taken') <= 1 /\ taken' \in Seq(Items) /\ pending' \in Seq(Deliverable)
    BY <2>1
  <2> QED
    BY <1>1, <1>2, <1>4, <1>5, <2>2 DEF TypeInv
<1>7. TextInv'
  BY <1>1, <1>4, <1>5 DEF TextInv
<1>8. PendingInv' /\ ActiveInv' /\ ReaderInv'
  <2>1. <<>> \in Seq(CalmEvents)
    OBVIOUS
  <2> QED
    BY <1>4, <2>1 DEF PendingInv, ActiveInv, ReaderInv
<1>9. EventsInv'
  <2>1. events \in Seq(CalmEvents) /\ Longer(events', events, event)
    BY <1>4 DEF EventsInv, Longer
  <2>2. FinishRight(event)'
    BY <1>3 DEF FinishRight
  <2> QED
    BY <1>3, <1>4, <2>1, <2>2 DEF EventsInv
<1> QED
  BY <1>2, <1>6, <1>7, <1>8, <1>9

(* The consumer is given the first of some events, the others are pending. *)
LEMMA DeliverStep ==
  ASSUME SessionInv, ~terminal, pc # "gone", NEW k \in 0..Len(queue),
         queue' = SubSeq(queue, k + 1, Len(queue)), taken' = <<>>, pc' = "idle", UNCHANGED shared,
         activated' \in BOOLEAN,
         NEW q \in Seq(Deliverable), q # <<>>, pending' = Tail(q), Deliver(Head(q)),
         q \in Seq(CalmEvents) \/ (EndsAs(q, activated') /\ Over /\ Silent(queue')),
         produced = (Flow(events) \o Flow(q)) \o Flow(queue'),
         activated' = (Constrained /\ HasNative(Flow(events) \o Flow(q)))
  PROVE  SessionInv'
<1> USE DEF SessionInv
<1>1. /\ provenance' = provenance /\ backend' = backend /\ genError' = genError
      /\ produced' = produced /\ cancelPc' = cancelPc /\ cancelEvent' = cancelEvent
  BY DEF shared
<1>2. queue' \in Seq(Items) /\ QueueInv'
  BY <1>1, QueueRest
<1>3. PICK e, r : e = Head(q) /\ r = Tail(q)
  OBVIOUS
<1>4. e \in Deliverable /\ r \in Seq(Deliverable) /\ e \in Events /\ e \in Things
  BY <1>3 DEF Deliverable, ExactEvents, Things
<1>5. /\ events' = Append(events, e) /\ terminal' = (e.kind \in Terminals) /\ pending' = r
  BY <1>3 DEF Deliver
<1>6. q \in Seq(Things) /\ r \in Seq(Things) /\ queue' \in Seq(Things)
  BY <1>2, <1>4, SeqMonotonic DEF Deliverable, ExactEvents, Things
<1>7. /\ Flow(events') = Flow(events) \o Carried(e) /\ Flow(q) = Carried(e) \o Flow(r)
      /\ Flow(events) \in Seq(Pieces) /\ Flow(r) \in Seq(Pieces) /\ Carried(e) \in Seq(Pieces)
      /\ Flow(queue') \in Seq(Pieces)
  <2>1. events \in Seq(Things) /\ Flow(events) \in Seq(Pieces)
    BY SharedTypes
  <2>2. Flow(events') = Flow(events) \o Carried(e)
    BY <1>4, <1>5, <2>1, FlowAppend
  <2>3. Flow(q) = Carried(e) \o Flow(r)
    BY <1>3, <1>6, FlowHead
  <2> QED
    BY <1>4, <1>6, <2>1, <2>2, <2>3, FlowConcat, CarriedType
<1>8. Flow(events') \o Flow(r) = Flow(events) \o Flow(q)
  <2>1. Grouped(Flow(events), Carried(e), Flow(r))
    BY <1>7, TextAssociative
  <2> QED
    BY <1>7, <2>1, Zenon DEF Grouped
<1>9. TypeInv'
  <2>1. <<>> \in Seq(Items) /\ Len(<<>>) = 0
    OBVIOUS
  <2>2. Len(taken') <= 1 /\ taken' \in Seq(Items)
    BY <2>1
  <2>3. events' \in Seq(Deliverable)
    BY <1>4, <1>5, AppendProperties, SharedTypes
  <2> QED
    BY <1>1, <1>2, <1>4, <1>5, <2>2, <2>3 DEF TypeInv
<1>10. Flow(events') \in Seq(Pieces)
  BY <1>7, ConcatProperties
<1>11. produced' = (Flow(events') \o Flow(pending')) \o (Flow(taken') \o Flow(queue'))
  <2>1. <<>> \o Flow(queue') = Flow(queue')
    BY <1>7, ConcatEmptySeq
  <2> QED
    BY <1>1, <1>5, <1>8, <2>1, FlowEmpty
<1>12. TextInv'
  <2>1. produced' = Flow(events') \o (Flow(r) \o Flow(queue'))
    <3>1. Grouped(Flow(events'), Flow(r), Flow(queue'))
      BY <1>7, <1>10, TextAssociative
    <3>2. produced' = (Flow(events') \o Flow(r)) \o Flow(queue')
      BY <1>1, <1>8
    <3> QED
      BY <3>1, <3>2, Zenon DEF Grouped
  <2>2. Flow(r) \o Flow(queue') \in Seq(Pieces)
    BY <1>7, ConcatProperties
  <2> QED
    BY <1>11, <2>1, <2>2, Zenon DEF TextInv
<1>13. ActiveInv'
  BY <1>5, <1>8 DEF ActiveInv
<1>14. CASE q \in Seq(CalmEvents)
  <2>1. e \in CalmEvents /\ r \in Seq(CalmEvents)
    BY <1>3, <1>14
  <2>2. ~terminal'
    BY <1>5, <2>1 DEF CalmEvents
  <2>3. events' \in Seq(CalmEvents)
    BY <1>5, <2>1, AppendProperties DEF EventsInv
  <2> QED
    BY <1>2, <1>5, <1>9, <1>12, <1>13, <2>1, <2>2, <2>3 DEF PendingInv, EventsInv, ReaderInv
<1>15. CASE EndsAs(q, activated') /\ Over /\ Silent(queue')
  <2>1. CASE e \in CalmEvents /\ EndsAs(r, activated')
    <3>1. ~terminal'
      BY <1>5, <2>1 DEF CalmEvents
    <3>2. events' \in Seq(CalmEvents)
      BY <1>5, <2>1, AppendProperties DEF EventsInv
    <3>3. PendingInv'
      BY <1>1, <1>5, <1>15, <2>1 DEF PendingInv, EndsAs, Over, Silent
    <3> QED
      BY <1>2, <1>9, <1>12, <1>13, <3>1, <3>2, <3>3 DEF EventsInv, ReaderInv
  <2>2. CASE e = Finished(activated') /\ r = <<>>
    <3>1. e.kind = "finished" /\ e.activated = activated' /\ e \notin CalmEvents
      BY <2>2 DEF Finished, CalmEvents, Terminals
    <3>2. terminal' = TRUE
      BY <1>5, <3>1 DEF Terminals
    <3>3. Flow(queue') = <<>> /\ Flow(r) = <<>>
      BY <1>15, <2>2, SilentFlow, FlowEmpty
    <3>4. Flow(events') = Flow(events) \o Flow(q) /\ produced' = Flow(events')
      <4>1. Flow(events') \o <<>> = Flow(events')
        BY <1>10, ConcatEmptySeq
      <4>2. produced' = (Flow(events') \o <<>>) \o <<>>
        BY <1>1, <1>8, <3>3
      <4> QED
        BY <1>8, <3>3, <4>1, <4>2
    <3>5. FinishRight(e)'
      BY <1>1, <1>15, <3>1, <3>4 DEF FinishRight, Over
    <3>6. events \in Seq(CalmEvents) /\ Longer(events', events, e)
      BY <1>5 DEF EventsInv, Longer
    <3>7. EventsInv'
      BY <1>4, <3>1, <3>2, <3>5, <3>6 DEF EventsInv
    <3>8. PendingInv' /\ ReaderInv'
      <4>1. <<>> \in Seq(CalmEvents)
        OBVIOUS
      <4> QED
        BY <1>5, <2>2, <4>1 DEF PendingInv, ReaderInv
    <3> QED
      BY <1>2, <1>9, <1>12, <1>13, <3>7, <3>8
  <2> QED
    BY <1>3, <1>15, <2>1, <2>2, EndsHead
<1> QED
  BY <1>14, <1>15

(* Draining stays within the queue and the limit, and nothing is drained   *)
(* behind the last result.                                                 *)
LEMMA DrainedBounds ==
  ASSUME queue \in Seq(Items), NEW first
  PROVE  /\ Drained(first) \in 0..Len(queue) /\ Drained(first) <= DrainMax - 1
         /\ ~IsStreaming(first) \/ IsLast(first) => Drained(first) = 0
<1> DEFINE limit == IF Len(queue) < DrainMax - 1 THEN Len(queue) ELSE DrainMax - 1
           stops == {n \in 1..limit : DrainStops(queue, n)}
<1>1. PICK len : len = Len(queue) /\ len \in Nat
  OBVIOUS
<1>2. limit \in 0..len /\ limit <= DrainMax - 1 /\ limit \in Nat
  BY <1>1, BoundAssumption
<1>3. CASE ~IsStreaming(first) \/ IsLast(first)
  <2>1. Drained(first) = 0
    BY <1>3 DEF Drained
  <2> QED
    BY <1>1, <1>3, <2>1, BoundAssumption
<1>4. CASE ~(~IsStreaming(first) \/ IsLast(first))
  <2>1. Drained(first) = IF stops = {} THEN limit
                         ELSE CHOOSE n \in stops : \A m \in stops : n <= m
    BY <1>4, Zenon DEF Drained
  <2>2. stops \in SUBSET (1..limit)
    OBVIOUS
  <2> HIDE DEF stops, limit
  <2>3. CASE stops = {}
    BY <1>1, <1>2, <1>4, <2>1, <2>3
  <2>4. CASE stops # {}
    <3>1. \E n \in stops : \A m \in stops : n <= m
      BY <1>2, <2>2, <2>4, LeastOfPart
    <3>2. Drained(first) \in stops
      BY <2>1, <2>4, <3>1, Zenon
    <3>3. Drained(first) \in 1..limit
      BY <2>2, <3>2
    <3>4. PICK d : d = Drained(first)
      OBVIOUS
    <3>5. d \in 0..Len(queue) /\ d <= DrainMax - 1
      BY <1>1, <1>2, <3>3, <3>4, BoundAssumption
    <3> QED
      BY <1>4, <3>4, <3>5, Zenon
  <2> QED
    BY <2>3, <2>4
<1> QED
  BY <1>3, <1>4, Zenon

(* The results of a batch: all the text up to where the draining stopped,  *)
(* and the end of the generation only with all of it.                      *)
BatchRight(results, rest) ==
  /\ results \in Seq(Flowing) /\ results # <<>>
  /\ Len(results) > 1 => results \in Seq(Results)
  /\ results \in Seq(Open) \/ (Closing(results) /\ Over /\ Silent(rest))
  /\ Flow(results) \o Flow(rest) = Flow(taken) \o Flow(queue)
  /\ Flow(results) \in Seq(Pieces) /\ Len(Flow(results)) <= DrainMax

(* The results that are read with a taken one are right.                   *)
LEMMA ResultsFaithful ==
  ASSUME SessionInv, NEW first, taken = <<first>>, ~IsStop(first)
  PROVE  BatchRight(ReadyResults(first), SubSeq(queue, Drained(first) + 1, Len(queue)))
<1> USE DEF SessionInv
<1> DEFINE k == Drained(first)
           part == SubSeq(queue, 1, k)
           rest == SubSeq(queue, k + 1, Len(queue))
           results == ReadyResults(first)
<1> SUFFICES BatchRight(results, rest)
  OBVIOUS
<1>1. /\ k \in 0..Len(queue) /\ k <= DrainMax - 1
      /\ ~IsStreaming(first) \/ IsLast(first) => k = 0
  BY DrainedBounds DEF TypeInv
<1>2. first \in Items /\ Len(Carried(first)) <= 1
  <2>1. <<first>> \in Seq(Items) /\ DOMAIN <<first>> = {1} /\ <<first>>[1] = first
    BY DEF TypeInv
  <2>2. Small(<<first>>)
    BY DEF QueueInv
  <2>3. first \in Items
    BY <2>1
  <2> QED
    BY <2>1, <2>2, <2>3 DEF Small
<1>3. Ends(first) => Over /\ Silent(queue)
  <2>1. DOMAIN <<first>> = {1} /\ <<first>>[1] = first
    OBVIOUS
  <2>2. \A i \in DOMAIN <<first>> : Ends(<<first>>[i]) => Over /\ Silent(queue)
    BY DEF QueueInv
  <2> QED
    BY <2>1, <2>2
<1>4. first \in Things /\ Flow(taken) = Carried(first) /\ Carried(first) \in Seq(Pieces)
  BY <1>2, FlowOne, CarriedType DEF Things
<1>5. results = Ready(first, part)
  BY Zenon DEF ReadyResults, Ready
<1>6. queue \in Seq(Items) /\ queue \in Seq(Things) /\ Flow(queue) \in Seq(Pieces)
  BY SharedTypes
<1> HIDE DEF k
<1>7. /\ part \in Seq(Things) /\ rest \in Seq(Things)
      /\ Flow(queue) = Flow(part) \o Flow(rest)
      /\ Flow(part) \in Seq(Pieces) /\ Flow(rest) \in Seq(Pieces)
  <2>1. /\ part \in Seq(Things) /\ rest \in Seq(Things)
        /\ Flow(queue) = Flow(part) \o Flow(rest)
    BY <1>1, <1>6, FlowSplit
  <2> QED
    BY <2>1, FlowConcat
<1>8. CASE k = 0
  <2>1. part = <<>> /\ rest = queue
    <3>1. SubSeq(queue, 1, 0) = <<>> /\ SubSeq(queue, 1, Len(queue)) = queue /\ 0 + 1 = 1
      BY <1>6
    <3> QED
      BY <1>8, <3>1
  <2>2. results = <<first>>
    BY <1>2, <1>5, <2>1, ReadyEmpty
  <2>3. first \in Flowing
    <3>1. first # Exception /\ first # Sentinel
      BY DEF IsStop, Exception, Sentinel
    <3> QED
      BY <1>2, <3>1 DEF Items, Flowing
  <2>4. <<first>> \in Seq(Flowing) /\ <<first>> # <<>> /\ Len(<<first>>) = 1
    BY <2>3
  <2>5. <<first>> \in Seq(Open) \/ (Closing(<<first>>) /\ Over /\ Silent(rest))
    <3>1. CASE first \in Open
      BY <3>1
    <3>2. CASE first \notin Open
      <4>1. <<>> \in Seq(Open) /\ Longer(<<first>>, <<>>, first)
        BY DEF Longer
      <4>2. Closing(<<first>>)
        BY <2>3, <3>2, <4>1 DEF Closing
      <4>3. Ends(first)
        BY <2>3, <3>2 DEF Open, Ends
      <4> QED
        BY <1>3, <2>1, <4>2, <4>3
    <3> QED
      BY <3>1, <3>2
  <2>6. Len(Flow(results)) <= DrainMax /\ Flow(results) = Carried(first)
    <3>1. Len(Carried(first)) \in Nat
      BY <1>4
    <3> QED
      BY <1>2, <1>4, <2>2, <3>1, BoundAssumption
  <2> HIDE DEF part, rest, results
  <2> QED
    BY <1>4, <2>1, <2>2, <2>4, <2>5, <2>6 DEF BatchRight
<1>9. CASE k # 0
  <2>1. first \in Results /\ ~IsLast(first)
    <3>1. IsStreaming(first) /\ ~IsLast(first)
      BY <1>1, <1>9
    <3> QED
      BY <1>2, <3>1 DEF Items, IsStreaming, Started, Exception, Sentinel
  <2>2. /\ part \in Seq(Items) /\ Ordered(part) /\ Small(part) /\ Len(part) = k
        /\ \A i \in DOMAIN part : i \in 1..k /\ part[i] = queue[i]
    <3>1. PICK q, n : q = queue /\ n = k
      OBVIOUS
    <3>2. q \in Seq(Items) /\ n \in 0..Len(q) /\ Len(q) \in Nat /\ DOMAIN q = 1..Len(q)
      BY <1>1, <1>6, <3>1
    <3>3. PICK r : r = SubSeq(q, 1, n)
      OBVIOUS
    <3>4. /\ r \in Seq(Items) /\ Len(r) = n /\ DOMAIN r = 1..n
          /\ \A i \in 1..n : r[i] = q[i] /\ i \in DOMAIN q
      BY <3>2, <3>3
    <3>5. Ordered(q) /\ Small(q)
      BY <3>1 DEF QueueInv
    <3>6. Ordered(r) /\ Small(r)
      BY <3>4, <3>5 DEF Ordered, Small
    <3> QED
      BY <3>1, <3>3, <3>4, <3>6
  <2>3. /\ results \in Seq(Results) /\ results # <<>>
        /\ Flow(results) = Carried(first) \o Flow(part)
        /\ Len(results) <= 1 + Len(part) /\ Small(results)
        /\ results \in Seq(Open) \/ (Closing(results) /\ \E i \in DOMAIN part : IsLast(part[i]))
    BY <1>2, <1>5, <2>1, <2>2, ReadyFaithful
  <2>4. ASSUME NEW i \in DOMAIN part, IsLast(part[i]) PROVE Over /\ Silent(rest)
    <3>1. i \in 1..k /\ Ends(queue[i])
      BY <2>2, <2>4 DEF Ends
    <3>2. RestOf(queue, k, rest)
      BY <1>1, <1>6 DEF RestOf, QueueInv
    <3>3. Silent(rest)
      BY <3>1, <3>2, OrderedRest
    <3>4. i \in DOMAIN queue
      BY <1>1, <1>6, <3>1
    <3> QED
      BY <3>1, <3>3, <3>4 DEF QueueInv
  <2>5. results \in Seq(Flowing)
    BY <2>3, SeqMonotonic DEF Flowing
  <2>6. results \in Seq(Things) /\ Flow(results) \in Seq(Pieces)
    <3>1. results \in Seq(Things)
      BY <2>3, SeqMonotonic DEF Things, Items
    <3> QED
      BY <3>1, FlowConcat
  <2>7. Len(Flow(results)) <= DrainMax
    <3>1. Len(Flow(results)) <= Len(results)
      BY <2>3, <2>6, FlowShort DEF Small
    <3>2. Len(results) <= 1 + k /\ Len(results) \in Nat /\ Len(Flow(results)) \in Nat /\ k \in Nat
      BY <1>1, <2>2, <2>3, <2>6
    <3> QED
      BY <1>1, <3>1, <3>2, BoundAssumption
  <2>8. Flow(results) \o Flow(rest) = Flow(taken) \o Flow(queue)
    <3>1. Grouped(Carried(first), Flow(part), Flow(rest))
      BY <1>4, <1>7, TextAssociative
    <3> QED
      BY <1>4, <1>7, <2>3, <3>1, Zenon DEF Grouped
  <2> HIDE DEF part, rest, results
  <2> QED
    BY <1>7, <2>3, <2>4, <2>5, <2>6, <2>7, <2>8 DEF BatchRight
<1> QED
  BY <1>8, <1>9

(* The trigger is among the results exactly when their text has a native   *)
(* piece.                                                                  *)
LEMMA TriggersText ==
  ASSUME NEW q \in Seq(Flowing)
  PROVE  Triggers(q) = (Constrained /\ HasNative(Flow(q)))
<1>1. q \in Seq(Things) /\ \A i \in DOMAIN q : q[i] \in Flowing
  BY SeqMonotonic DEF Flowing, Things, Items
<1>2. ASSUME NEW i \in DOMAIN q
      PROVE  (IsStreaming(q[i]) /\ HasNative(q[i].pieces)) = HasNative(Carried(q[i]))
  <2>1. CASE q[i] = Started
    <3>1. ~IsStreaming(q[i]) /\ Carried(q[i]) = <<>> /\ DOMAIN <<>> = {}
      BY <2>1 DEF IsStreaming, Started, Carried
    <3> QED
      BY <3>1 DEF HasNative
  <2>2. CASE q[i] \in Results
    <3>1. IsStreaming(q[i]) /\ Carried(q[i]) = q[i].pieces
      BY <2>2 DEF Results, IsStreaming, Carried
    <3> QED
      BY <3>1 DEF HasNative
  <2> QED
    BY <1>1, <2>1, <2>2 DEF Flowing
<1>3. HasNative(Flow(q)) = \E i \in DOMAIN q : HasNative(Carried(q[i]))
  BY <1>1, FlowNative
<1>4. HasNative(Flow(q)) = \E i \in DOMAIN q : IsStreaming(q[i]) /\ HasNative(q[i].pieces)
  BY <1>2, <1>3
<1> QED
  BY <1>4, Zenon DEF Triggers, HasNative

(* No delta of a batch is longer than the drain limit.                     *)
LEMMA BatchDeliverable ==
  ASSUME NEW q \in Seq(ExactEvents), Flow(q) \in Seq(Pieces), Len(Flow(q)) <= DrainMax
  PROVE  q \in Seq(Deliverable)
<1>1. q \in Seq(Things)
  BY SeqMonotonic DEF ExactEvents, Things
<1>2. \A i \in DOMAIN q : q[i] \in ExactEvents /\ q[i] \in Things
  BY <1>1
<1>3. ASSUME NEW i \in DOMAIN q PROVE q[i] \in Deliverable
  <2>1. Len(Carried(q[i])) <= Len(Flow(q))
    BY <1>1, FlowLonger
  <2>2. Len(Carried(q[i])) \in Nat /\ Len(Flow(q)) \in Nat
    BY <1>2, CarriedType
  <2>3. Len(Carried(q[i])) <= DrainMax
    BY <2>1, <2>2, BoundAssumption
  <2> QED
    BY <1>2, <2>3 DEF Deliverable
<1>4. PICK n : n = Len(q)
  OBVIOUS
<1>5. n \in Nat /\ DOMAIN q = 1..n /\ q = [i \in 1..n |-> q[i]]
  BY <1>4
<1>6. \A i \in 1..n : q[i] \in Deliverable
  BY <1>3, <1>5
<1> HIDE DEF Deliverable
<1> QED
  BY <1>5, <1>6

(* A batch that is processed: with its results and what is ready behind    *)
(* them, the consumer has all the text up to there.                        *)
LEMMA BatchStep ==
  ASSUME SessionInv, pc = "waiting", NEW first, taken = <<first>>, ~IsStop(first),
         taken' = <<>>, ProcessBatch(first), UNCHANGED shared
  PROVE  SessionInv'
<1> USE DEF SessionInv
<1>1. ~terminal /\ pending = <<>> /\ pc # "gone" /\ pc # "idle"
  BY DEF ReaderInv
<1>2. PICK k : k = Drained(first)
  OBVIOUS
<1>3. k \in 0..Len(queue) /\ queue' = SubSeq(queue, k + 1, Len(queue))
  BY <1>2, DrainedBounds DEF TypeInv, ProcessBatch
<1>4. CASE DrainRaises(first) \/ genError
  <2>1. pc' = "idle" /\ Deliver(Failed) /\ pending' = <<>> /\ UNCHANGED activated
    BY <1>1, <1>4 DEF ProcessBatch
  <2> QED
    BY <1>1, <1>3, <2>1, StopStep
<1>5. CASE ~(DrainRaises(first) \/ genError)
  <2>1. PICK results, active, batch : /\ results = ReadyResults(first)
                                      /\ active = (activated \/ Triggers(results))
                                      /\ batch = BatchEvents(results, active)
    OBVIOUS
  <2>2. /\ activated' = active
        /\ IF batch = <<>>
             THEN UNCHANGED <<pc, pending, events, terminal>>
             ELSE pc' = "idle" /\ pending' = Tail(batch) /\ Deliver(Head(batch))
    BY <1>5, <2>1, Zenon DEF ProcessBatch
  <2>3. BatchRight(results, queue')
    BY <1>2, <1>3, <2>1, ResultsFaithful
  <2>4. /\ results \in Seq(Flowing) /\ results # <<>>
        /\ Len(results) > 1 => results \in Seq(Results)
        /\ results \in Seq(Open) \/ (Closing(results) /\ Over /\ Silent(queue'))
        /\ Flow(results) \o Flow(queue') = Flow(taken) \o Flow(queue)
        /\ Flow(results) \in Seq(Pieces) /\ Len(Flow(results)) <= DrainMax
    BY <2>3 DEF BatchRight
  <2>5. Triggers(results) = (Constrained /\ HasNative(Flow(results)))
    BY <2>4, TriggersText
  <2>6. activated = (Constrained /\ HasNative(Flow(events)))
    <3>1. Flow(events) \o <<>> = Flow(events)
      BY SharedTypes, ConcatEmptySeq
    <3> QED
      BY <1>1, <3>1, FlowEmpty DEF ActiveInv
  <2>7. active = (Constrained /\ HasNative(Flow(events) \o Flow(results))) /\ active \in BOOLEAN
    <3>1. HasNative(Flow(events) \o Flow(results)) = (HasNative(Flow(events)) \/ HasNative(Flow(results)))
      BY <2>4, SharedTypes, NativeConcat
    <3>2. /\ HasNative(Flow(events)) \in BOOLEAN /\ HasNative(Flow(results)) \in BOOLEAN
          /\ HasNative(Flow(events) \o Flow(results)) \in BOOLEAN
      BY DEF HasNative
    <3> QED
      BY <2>1, <2>5, <2>6, <3>1, <3>2, FlagAssumption
  <2>8. /\ batch \in Seq(ExactEvents) /\ Flow(batch) = Flow(results)
        /\ results \in Seq(Open) => batch \in Seq(CalmEvents)
        /\ Closing(results) => EndsAs(batch, active)
    <3>1. provenance \in BOOLEAN
      BY DEF TypeInv
    <3>2. results \in Seq(Open) \/ Closing(results)
      BY <2>4
    <3> QED
      BY <2>1, <2>4, <2>7, <3>1, <3>2, BatchFaithful
  <2>9. batch \in Seq(Deliverable)
    BY <2>4, <2>8, BatchDeliverable
  <2>10. produced = (Flow(events) \o Flow(batch)) \o Flow(queue')
    <3>1. produced = (Flow(events) \o Flow(pending)) \o (Flow(taken) \o Flow(queue))
      BY <1>1 DEF TextInv
    <3>2. Flow(events) \o <<>> = Flow(events) /\ Flow(pending) = <<>>
      BY <1>1, SharedTypes, ConcatEmptySeq, FlowEmpty
    <3>3. Flow(queue') \in Seq(Pieces)
      <4>1. queue' \in Seq(Items)
        BY <1>3, QueueRest DEF shared
      <4>2. queue' \in Seq(Things)
        BY <4>1, SeqMonotonic DEF Things
      <4> QED
        BY <4>2, FlowConcat
    <3>4. Grouped(Flow(events), Flow(batch), Flow(queue'))
      BY <2>4, <2>8, <3>3, SharedTypes, TextAssociative
    <3>5. produced = Flow(events) \o (Flow(batch) \o Flow(queue'))
      BY <2>4, <2>8, <3>1, <3>2
    <3> QED
      BY <3>4, <3>5, Zenon DEF Grouped
  <2>11. batch \in Seq(CalmEvents) \/ (EndsAs(batch, activated') /\ Over /\ Silent(queue'))
    BY <2>2, <2>4, <2>8
  <2>12. activated' = (Constrained /\ HasNative(Flow(events) \o Flow(batch))) /\ activated' \in BOOLEAN
    BY <2>2, <2>7, <2>8
  <2>13. CASE batch # <<>>
    <3>1. pc' = "idle" /\ pending' = Tail(batch) /\ Deliver(Head(batch))
      BY <2>2, <2>13
    <3> QED
      BY <1>1, <1>3, <2>9, <2>10, <2>11, <2>12, <2>13, <3>1, DeliverStep
  <2>14. CASE batch = <<>>
    <3>1. /\ pc' = pc /\ pending' = <<>> /\ events' = events /\ terminal' = terminal
          /\ provenance' = provenance /\ backend' = backend /\ genError' = genError
          /\ produced' = produced /\ cancelPc' = cancelPc /\ cancelEvent' = cancelEvent
      BY <1>1, <2>2, <2>14 DEF shared
    <3>2. queue' \in Seq(Items) /\ QueueInv'
      BY <1>3, <3>1, QueueRest
    <3>3. /\ <<>> \in Seq(Deliverable) /\ <<>> \in Seq(Items) /\ <<>> \in Seq(CalmEvents)
          /\ Len(<<>>) = 0
      OBVIOUS
    <3>4. Len(taken') <= 1 /\ taken' \in Seq(Items)
      BY <3>3
    <3>5. TypeInv'
      BY <2>12, <3>1, <3>2, <3>3, <3>4 DEF TypeInv
    <3>6. Flow(pending') = <<>> /\ Flow(taken') = <<>> /\ Flow(batch) = <<>>
      BY <2>14, <3>1, FlowEmpty
    <3>7. Flow(queue') \in Seq(Pieces) /\ <<>> \o Flow(queue') = Flow(queue')
      <4>1. queue' \in Seq(Things)
        BY <3>2, SeqMonotonic DEF Things
      <4> QED
        BY <4>1, FlowConcat, ConcatEmptySeq
    <3>8. produced' = (Flow(events') \o Flow(pending')) \o (Flow(taken') \o Flow(queue'))
      BY <2>10, <3>1, <3>6, <3>7
    <3>9. TextInv'
      <4>1. \E rest \in Seq(Pieces) : produced = Flow(events) \o rest
        BY DEF TextInv
      <4> QED
        BY <3>1, <3>8, <4>1 DEF TextInv
    <3>10. PendingInv' /\ ReaderInv'
      BY <1>1, <3>1, <3>3 DEF PendingInv, ReaderInv
    <3>11. ActiveInv'
      BY <2>12, <3>1, <3>6 DEF ActiveInv
    <3>12. EventsInv'
      BY <1>1, <3>1 DEF EventsInv
    <3> QED
      BY <3>2, <3>5, <3>9, <3>10, <3>11, <3>12
  <2> QED
    BY <2>13, <2>14
<1> QED
  BY <1>4, <1>5

-----------------------------------------------------------------------------
(* Every step keeps the invariant.                                         *)

(* A step that leaves what the consumer reads as it is.                    *)
LEMMA ApartStep ==
  ASSUME SessionInv, UNCHANGED <<provenance, produced, queue, consumed>>,
         backend' \in {"queued", "running", "over", "ended"}, Over => Over', genError' \in BOOLEAN,
         cancelPc' \in {"idle", "requested", "cancelling", "done"}, cancelEvent' \in BOOLEAN
  PROVE  SessionInv'
<1> USE DEF SessionInv
<1>1. /\ provenance' = provenance /\ produced' = produced /\ queue' = queue
      /\ taken' = taken /\ pending' = pending /\ pc' = pc /\ terminal' = terminal
      /\ activated' = activated /\ events' = events
  BY DEF consumed
<1>2. TypeInv'
  BY <1>1 DEF TypeInv
<1>3. QueueInv'
  BY <1>1 DEF QueueInv
<1>4. TextInv' /\ ActiveInv' /\ ReaderInv'
  BY <1>1 DEF TextInv, ActiveInv, ReaderInv
<1>5. PendingInv'
  BY <1>1 DEF PendingInv
<1>6. EventsInv'
  <2>1. \A event : FinishRight(event) => FinishRight(event)'
    BY <1>1 DEF FinishRight
  <2> QED
    BY <1>1, <2>1 DEF EventsInv
<1> QED
  BY <1>2, <1>3, <1>4, <1>5, <1>6

(* Every step of the job and its generator keeps the invariant.            *)
LEMMA QueueSteps ==
  ASSUME SessionInv,
         \/ JobStarts \/ \E native, verified, eos \in BOOLEAN : JobGenerates(native, verified, eos)
         \/ JobHoldsText \/ JobStops \/ GeneratorFails \/ JobCancelled
  PROVE  SessionInv'
<1>1. TypeInv
  BY DEF SessionInv
<1>2. produced \in Seq(Pieces) /\ Len(produced) <= MaxPieces /\ produced \o <<>> = produced
  BY <1>1, ConcatEmptySeq DEF TypeInv
<1>3. Len(<<>>) = 0 /\ MaxPieces \in Nat
  BY BoundAssumption
<1>4. CASE JobStarts
  <2>1. Started \in Items /\ Carried(Started) = <<>> /\ ~Ends(Started)
    BY DEF Items, Started, Carried, Ends, IsStop, IsLast, IsStreaming
  <2>2. /\ queue' = Append(queue, Started) /\ UNCHANGED consumed /\ provenance' = provenance
        /\ cancelEvent' = cancelEvent /\ genError' = genError /\ backend' = "running" /\ ~Over
        /\ cancelPc' = cancelPc /\ produced' = produced
    BY <1>4 DEF JobStarts, consumer, consumed, Over
  <2>3. cancelEvent' \in BOOLEAN /\ genError' \in BOOLEAN /\ cancelPc' \in {"idle", "requested", "cancelling", "done"}
    BY <1>1, <2>2 DEF TypeInv
  <2> QED
    BY <1>2, <1>3, <2>1, <2>2, <2>3, QueueStep
<1>5. ASSUME NEW native \in BOOLEAN, NEW verified \in BOOLEAN, NEW eos \in BOOLEAN,
             JobGenerates(native, verified, eos)
      PROVE  SessionInv'
  <2>1. PICK p, x : p = Piece(Len(produced) + 1, native) /\ x = Streaming(<<p>>, verified, eos)
    OBVIOUS
  <2>2. Len(produced) \in Nat /\ Len(produced) < MaxPieces
    BY <1>2, <1>5 DEF JobGenerates
  <2>3. p \in Pieces
    <3>1. Len(produced) + 1 \in 1..MaxPieces
      BY <1>3, <2>2
    <3> QED
      BY <2>1, <3>1 DEF Piece, Pieces
  <2>4. /\ x \in Items /\ Carried(x) = <<p>> /\ Len(<<p>>) = 1 /\ <<p>> \in Seq(Pieces)
        /\ (Ends(x) => eos)
    <3>1. <<p>> \in Seq(Pieces) /\ Len(<<p>>) = 1
      BY <2>3
    <3>2. x = [kind |-> "streaming", pieces |-> <<p>>, verified |-> verified, eos |-> eos]
      BY <2>1 DEF Streaming
    <3> QED
      BY <3>1, <3>2 DEF Items, Results, Carried, Ends, IsStop, IsLast, IsStreaming
  <2>5. /\ queue' = Append(queue, x) /\ UNCHANGED consumed /\ provenance' = provenance
        /\ cancelEvent' = cancelEvent /\ genError' = genError
        /\ backend' = (IF eos THEN "over" ELSE "running") /\ ~Over
        /\ cancelPc' = cancelPc /\ produced' = Append(produced, p)
    BY <1>5, <2>1 DEF JobGenerates, consumer, consumed, Over
  <2>6. produced' = produced \o Carried(x) /\ produced' \in Seq(Pieces) /\ Len(produced') <= MaxPieces
    <3>1. Append(produced, p) = produced \o <<p>>
      BY <1>2, <2>3, AppendIsConcat
    <3>2. Append(produced, p) \in Seq(Pieces) /\ Len(Append(produced, p)) = Len(produced) + 1
      BY <1>2, <2>3
    <3> QED
      BY <1>3, <2>2, <2>4, <2>5, <3>1, <3>2
  <2>7. /\ cancelEvent' \in BOOLEAN /\ genError' \in BOOLEAN
        /\ cancelPc' \in {"idle", "requested", "cancelling", "done"}
        /\ backend' \in {"queued", "running", "over", "ended"} /\ (Ends(x) => Over')
    BY <1>1, <2>4, <2>5 DEF TypeInv, Over
  <2>8. Len(Carried(x)) <= 1
    BY <2>4
  <2> QED
    BY <2>4, <2>5, <2>6, <2>7, <2>8, QueueStep
<1>6. ASSUME JobHoldsText \/ JobStops PROVE SessionInv'
  <2>0. PICK eos \in BOOLEAN :
          /\ queue' = Append(queue, Streaming(<<>>, TRUE, eos))
          /\ backend' = (IF eos THEN "over" ELSE "running") /\ backend = "running"
          /\ UNCHANGED <<genError, produced, consumer>>
    BY <1>6 DEF JobHoldsText, JobStops
  <2>1. PICK x :
          /\ x = Streaming(<<>>, TRUE, eos) /\ queue' = Append(queue, x)
          /\ backend' = (IF eos THEN "over" ELSE "running") /\ backend = "running"
          /\ UNCHANGED <<genError, produced, consumer>>
    BY <2>0
  <2>2. x \in Items /\ Carried(x) = <<>> /\ (Ends(x) => eos)
    <3>1. <<>> \in Seq(Pieces)
      OBVIOUS
    <3>2. x = [kind |-> "streaming", pieces |-> <<>>, verified |-> TRUE, eos |-> eos]
      BY <2>1 DEF Streaming
    <3> QED
      BY <3>1, <3>2 DEF Items, Results, Carried, Ends, IsStop, IsLast, IsStreaming
  <2>3. /\ UNCHANGED consumed /\ provenance' = provenance /\ cancelEvent' = cancelEvent
        /\ genError' = genError /\ ~Over /\ cancelPc' = cancelPc /\ produced' = produced
    BY <2>1 DEF consumer, consumed, Over
  <2>4. /\ cancelEvent' \in BOOLEAN /\ genError' \in BOOLEAN
        /\ cancelPc' \in {"idle", "requested", "cancelling", "done"}
        /\ backend' \in {"queued", "running", "over", "ended"} /\ (Ends(x) => Over')
    BY <1>1, <2>1, <2>2, <2>3 DEF TypeInv, Over
  <2>5. produced' = produced \o Carried(x) /\ produced' \in Seq(Pieces) /\ Len(produced') <= MaxPieces
    BY <1>2, <2>2, <2>3
  <2>6. Len(Carried(x)) <= 1
    BY <1>3, <2>2
  <2>7. queue' = Append(queue, x)
    BY <2>1
  <2> QED
    BY <2>2, <2>3, <2>4, <2>5, <2>6, <2>7, QueueStep
<1>7. CASE GeneratorFails /\ backend \in {"queued", "running"}
  <2>1. Exception \in Items /\ Carried(Exception) = <<>>
    BY DEF Items, Exception, Carried
  <2>2. /\ queue' = Append(queue, Exception) /\ UNCHANGED consumed /\ provenance' = provenance
        /\ cancelEvent' = cancelEvent /\ genError' = TRUE /\ backend' = "over" /\ ~Over /\ Over'
        /\ cancelPc' = cancelPc /\ produced' = produced
    BY <1>7 DEF GeneratorFails, consumer, consumed, Over
  <2>3. cancelEvent' \in BOOLEAN /\ genError' \in BOOLEAN /\ cancelPc' \in {"idle", "requested", "cancelling", "done"}
    BY <1>1, <2>2 DEF TypeInv
  <2> QED
    BY <1>2, <1>3, <2>1, <2>2, <2>3, QueueStep
<1>8. CASE JobCancelled
  <2>1. Sentinel \in Items /\ Carried(Sentinel) = <<>>
    BY DEF Items, Sentinel, Carried
  <2>2. /\ queue' = Append(queue, Sentinel) /\ UNCHANGED consumed /\ provenance' = provenance
        /\ cancelEvent' = cancelEvent /\ genError' = genError /\ backend' = "over" /\ Over'
        /\ cancelPc' = "cancelling" /\ produced' = produced
    BY <1>8 DEF JobCancelled, consumed, Over
  <2>3. cancelEvent' \in BOOLEAN /\ genError' \in BOOLEAN
    BY <1>1, <2>2 DEF TypeInv
  <2> QED
    BY <1>2, <1>3, <2>1, <2>2, <2>3, QueueStep
<1>9. CASE \E native, verified, eos \in BOOLEAN : JobGenerates(native, verified, eos)
  <2>1. PICK native \in BOOLEAN, verified \in BOOLEAN, eos \in BOOLEAN :
               JobGenerates(native, verified, eos)
    BY <1>9
  <2> QED
    BY <1>5, <2>1
<1>10. CASE GeneratorFails /\ backend \notin {"queued", "running"}
  <2>1. /\ UNCHANGED <<provenance, produced, queue, consumed, backend>> /\ genError' = TRUE
        /\ cancelPc' = cancelPc /\ cancelEvent' = cancelEvent
    BY <1>10 DEF GeneratorFails, consumer, consumed
  <2> QED
    BY <1>1, <2>1, ApartStep DEF Over, TypeInv
<1> QED
  BY <1>4, <1>6, <1>7, <1>8, <1>9, <1>10

(* The next event of an earlier batch, or the failure that drops it.       *)
LEMMA PendingStep ==
  ASSUME SessionInv, NextPending
  PROVE  SessionInv'
<1> USE DEF SessionInv
<1>1. ~terminal /\ pc = "idle" /\ taken = <<>> /\ pending # <<>>
  BY DEF ReaderInv, NextPending
<1>2. /\ queue \in Seq(Items) /\ pending \in Seq(Deliverable) /\ 0 \in 0..Len(queue)
      /\ queue = SubSeq(queue, 0 + 1, Len(queue))
  <2>1. queue \in Seq(Items) /\ pending \in Seq(Deliverable)
    BY DEF TypeInv
  <2>2. Len(queue) \in Nat /\ queue = SubSeq(queue, 1, Len(queue)) /\ 0 + 1 = 1
    BY <2>1
  <2> QED
    BY <2>1, <2>2
<1>3. UNCHANGED shared /\ queue' = queue /\ taken' = <<>> /\ pc' = "idle" /\ UNCHANGED activated
  BY <1>1 DEF NextPending
<1>4. PICK k, rest : k = 0 /\ k \in 0..Len(queue) /\ rest = SubSeq(queue, k + 1, Len(queue)) /\ queue' = rest
  BY <1>2, <1>3
<1>5. CASE ~cancelEvent /\ genError
  <2>1. pending' = <<>> /\ Deliver(Failed)
    BY <1>5 DEF NextPending
  <2> QED
    BY <1>1, <1>3, <1>4, <2>1, StopStep
<1>6. CASE ~(~cancelEvent /\ genError)
  <2>1. pending' = Tail(pending) /\ Deliver(Head(pending))
    BY <1>6 DEF NextPending
  <2>2. produced = (Flow(events) \o Flow(pending)) \o Flow(queue')
    <3>1. produced = (Flow(events) \o Flow(pending)) \o (Flow(taken) \o Flow(queue))
      BY <1>1 DEF TextInv
    <3>2. <<>> \o Flow(queue) = Flow(queue) /\ Flow(taken) = <<>>
      BY <1>1, SharedTypes, ConcatEmptySeq, FlowEmpty
    <3> QED
      BY <1>3, <3>1, <3>2
  <2>3. activated' = (Constrained /\ HasNative(Flow(events) \o Flow(pending))) /\ activated' \in BOOLEAN
    BY <1>1, <1>3 DEF ActiveInv, TypeInv
  <2>4. pending \in Seq(CalmEvents) \/ (EndsAs(pending, activated') /\ Over /\ Silent(queue'))
    BY <1>3 DEF PendingInv
  <2> QED
    BY <1>1, <1>2, <1>3, <1>4, <2>1, <2>2, <2>3, <2>4, DeliverStep
<1> QED
  BY <1>5, <1>6

(* Nothing is pending: the consumer is told of a cancellation or a failure, *)
(* or waits.                                                               *)
LEMMA WaitStep ==
  ASSUME SessionInv, NextWaits
  PROVE  SessionInv'
<1> USE DEF SessionInv
<1>1. ~terminal /\ pc = "idle" /\ taken = <<>> /\ pending = <<>>
  BY DEF ReaderInv, NextWaits
<1>2. queue \in Seq(Items) /\ 0 \in 0..Len(queue) /\ queue = SubSeq(queue, 0 + 1, Len(queue))
  <2>1. queue \in Seq(Items)
    BY DEF TypeInv
  <2>2. Len(queue) \in Nat /\ queue = SubSeq(queue, 1, Len(queue)) /\ 0 + 1 = 1
    BY <2>1
  <2> QED
    BY <2>1, <2>2
<1>3. UNCHANGED shared /\ queue' = queue /\ taken' = <<>> /\ pending' = <<>> /\ UNCHANGED activated
  BY <1>1 DEF NextWaits
<1>4. PICK k, rest : k = 0 /\ k \in 0..Len(queue) /\ rest = SubSeq(queue, k + 1, Len(queue)) /\ queue' = rest
  BY <1>2, <1>3
<1>5. CASE cancelEvent \/ genError
  <2>1. PICK event \in {Cancelled, Failed} : pc' = pc /\ Deliver(event)
    BY <1>5 DEF NextWaits
  <2> QED
    BY <1>1, <1>3, <1>4, <2>1, StopStep
<1>6. CASE ~(cancelEvent \/ genError)
  <2>1. pc' = "waiting" /\ events' = events /\ terminal' = terminal
    BY <1>6 DEF NextWaits
  <2>2. /\ provenance' = provenance /\ backend' = backend /\ genError' = genError
        /\ produced' = produced /\ cancelPc' = cancelPc /\ cancelEvent' = cancelEvent
        /\ queue' = queue /\ taken' = taken /\ pending' = pending /\ activated' = activated
    BY <1>1, <1>3 DEF shared
  <2>3. TypeInv'
    BY <2>1, <2>2 DEF TypeInv
  <2>4. QueueInv' /\ PendingInv'
    BY <2>2 DEF QueueInv, PendingInv, Over
  <2>5. TextInv' /\ ActiveInv'
    BY <1>1, <2>1, <2>2 DEF TextInv, ActiveInv
  <2>6. EventsInv' /\ ReaderInv'
    BY <1>1, <2>1, <2>2 DEF EventsInv, ReaderInv
  <2> QED
    BY <2>3, <2>4, <2>5, <2>6
<1> QED
  BY <1>5, <1>6

(* The next result of the queue, or the end of the iteration.              *)
LEMMA TakeStep ==
  ASSUME SessionInv, ResultTaken
  PROVE  SessionInv'
<1> USE DEF SessionInv
<1>1. ~terminal /\ pc = "waiting" /\ taken = <<>> /\ pending = <<>>
  BY DEF ReaderInv, ResultTaken
<1>2. /\ provenance' = provenance /\ backend' = backend /\ genError' = genError
      /\ produced' = produced /\ cancelPc' = cancelPc /\ cancelEvent' = cancelEvent
      /\ pending' = pending /\ pc' = pc /\ terminal' = terminal /\ activated' = activated
      /\ events' = events
  BY DEF ResultTaken, shared
<1>3. PICK x : x = IF queue # <<>> THEN Head(queue) ELSE Sentinel
  OBVIOUS
<1>4. /\ taken' = <<x>> /\ x \in Items /\ Len(Carried(x)) <= 1
      /\ queue' \in Seq(Items) /\ Ordered(queue') /\ Small(queue')
      /\ \A i \in DOMAIN queue' : Ends(queue'[i]) => Over
      /\ Ends(x) => Over /\ Silent(queue')
      /\ Carried(x) \o Flow(queue') = Flow(queue) /\ Flow(queue') \in Seq(Pieces)
      /\ Silent(queue) => Silent(queue')
  <2>0. queue \in Seq(Items) /\ queue \in Seq(Things) /\ Ordered(queue) /\ Small(queue)
    BY SharedTypes DEF QueueInv
  <2>1. CASE queue # <<>>
    <3>1. taken' = <<Head(queue)>> /\ queue' = Tail(queue) /\ x = Head(queue)
      BY <1>3, <2>1 DEF ResultTaken
    <3>2. /\ Len(queue) \in Nat /\ Len(queue) >= 1 /\ DOMAIN queue = 1..Len(queue)
          /\ Head(queue) = queue[1] /\ Tail(queue) = SubSeq(queue, 1 + 1, Len(queue))
      BY <2>0, <2>1
    <3>3. 1 \in DOMAIN queue /\ 1 \in 0..Len(queue) /\ 1 \in 1..1
      BY <3>2
    <3>4. RestOf(queue, 1, queue')
      BY <2>0, <3>1, <3>2, <3>3 DEF RestOf
    <3>5. /\ queue' \in Seq(Items) /\ Ordered(queue')
          /\ \A i \in DOMAIN queue' : \E j \in DOMAIN queue : queue'[i] = queue[j]
          /\ (\E i \in 1..1 : Ends(queue[i])) => Silent(queue')
      BY <3>4, OrderedRest
    <3>6. Small(queue') /\ \A i \in DOMAIN queue' : Ends(queue'[i]) => Over
      BY <2>0, <3>5 DEF Small, QueueInv
    <3>7. x \in Items /\ Len(Carried(x)) <= 1 /\ (Ends(x) => Over /\ Silent(queue'))
      <4>1. x = queue[1]
        BY <3>1, <3>2
      <4>2. x \in Items /\ Len(Carried(x)) <= 1
        BY <2>0, <3>3, <4>1 DEF Small
      <4> QED
        BY <3>3, <3>5, <4>1, <4>2 DEF QueueInv
    <3>8. Flow(queue) = Carried(Head(queue)) \o Flow(Tail(queue)) /\ Tail(queue) \in Seq(Things)
      BY <2>0, <2>1, FlowHead
    <3>9. Flow(queue') \in Seq(Pieces)
      BY <3>1, <3>8, FlowConcat
    <3>10. Silent(queue) => Silent(queue')
      BY <2>1, <3>1 DEF Silent
    <3> QED
      BY <3>1, <3>5, <3>6, <3>7, <3>8, <3>9, <3>10
  <2>2. CASE queue = <<>>
    <3>1. /\ taken' = <<x>> /\ x = Sentinel /\ queue' = <<>> /\ Over
      BY <1>2, <1>3, <2>2 DEF ResultTaken, Over
    <3>2. x \in Items /\ Carried(x) = <<>>
      BY <3>1 DEF Sentinel, Items, Carried
    <3>3. Len(<<>>) = 0 /\ DOMAIN <<>> = {} /\ <<>> \in Seq({Sentinel}) /\ <<>> \o <<>> = <<>>
      OBVIOUS
    <3>4. Silent(<<>>)
      BY <3>3 DEF Silent
    <3>5. Flow(queue) = <<>> /\ Flow(queue') = <<>> /\ <<>> \in Seq(Pieces)
      BY <2>2, <3>1, FlowEmpty
    <3>6. Len(Carried(x)) <= 1
      BY <3>2, <3>3
    <3>7. Ordered(queue') /\ Small(queue') /\ \A i \in DOMAIN queue' : Ends(queue'[i]) => Over
      BY <2>0, <2>2, <3>1, <3>3
    <3>8. queue' \in Seq(Items)
      BY <3>1
    <3> QED
      BY <3>1, <3>2, <3>3, <3>4, <3>5, <3>6, <3>7, <3>8
  <2> QED
    BY <2>1, <2>2
<1>5. x \in Things
  BY <1>4 DEF Things
<1>6. /\ taken' \in Seq(Items) /\ Len(taken') = 1 /\ DOMAIN taken' = {1} /\ taken'[1] = x
      /\ Flow(taken') = Carried(x)
  BY <1>4, <1>5, FlowOne
<1>7. TypeInv'
  BY <1>2, <1>4, <1>6 DEF TypeInv
<1>8. QueueInv'
  <2>1. Small(taken')
    BY <1>4, <1>6 DEF Small
  <2>2. \A i \in DOMAIN taken' : Ends(taken'[i]) => Over /\ Silent(queue')
    BY <1>4, <1>6
  <2> QED
    BY <1>2, <1>4, <2>1, <2>2 DEF QueueInv, Over
<1>9. TextInv'
  <2>1. <<>> \o Flow(queue) = Flow(queue) /\ Flow(taken) = <<>>
    BY <1>1, SharedTypes, ConcatEmptySeq, FlowEmpty
  <2>2. produced = (Flow(events) \o Flow(pending)) \o Flow(queue)
    BY <1>1, <2>1 DEF TextInv
  <2>3. produced' = (Flow(events') \o Flow(pending')) \o (Flow(taken') \o Flow(queue'))
    BY <1>2, <1>4, <1>6, <2>2
  <2>4. \E rest \in Seq(Pieces) : produced = Flow(events) \o rest
    BY DEF TextInv
  <2> QED
    BY <1>2, <2>3, <2>4 DEF TextInv
<1>10. ActiveInv' /\ EventsInv' /\ ReaderInv'
  BY <1>1, <1>2 DEF ActiveInv, EventsInv, ReaderInv
<1>11. PendingInv'
  BY <1>2, <1>4 DEF PendingInv, Over
<1> QED
  BY <1>7, <1>8, <1>9, <1>10, <1>11

(* The wait returns: the cancellation, a failure or a batch.               *)
LEMMA ReturnStep ==
  ASSUME SessionInv, WaitReturns
  PROVE  SessionInv'
<1>1. ~terminal /\ pc = "waiting" /\ pending = <<>> /\ pc # "gone"
  BY DEF SessionInv, ReaderInv, WaitReturns
<1>2. queue \in Seq(Items) /\ 0 \in 0..Len(queue) /\ queue = SubSeq(queue, 0 + 1, Len(queue))
  <2>1. queue \in Seq(Items)
    BY DEF SessionInv, TypeInv
  <2>2. Len(queue) \in Nat /\ queue = SubSeq(queue, 1, Len(queue)) /\ 0 + 1 = 1
    BY <2>1
  <2> QED
    BY <2>1, <2>2
<1>3. UNCHANGED shared /\ taken' = <<>>
  BY DEF WaitReturns
<1>4. ASSUME NEW event \in {Cancelled, Failed}, pc' = "idle", Deliver(event),
             UNCHANGED <<queue, pending, activated>>
      PROVE  SessionInv'
  <2>1. PICK k, rest : k = 0 /\ k \in 0..Len(queue) /\ rest = SubSeq(queue, k + 1, Len(queue)) /\ queue' = rest
    BY <1>2, <1>4
  <2>2. pending' = <<>> /\ UNCHANGED activated
    BY <1>1, <1>4
  <2> QED
    BY <1>1, <1>3, <1>4, <2>1, <2>2, StopStep
<1>5. CASE cancelEvent \/ IsStop(taken[1])
  <2>1. \E event \in {Cancelled, Failed} :
          pc' = "idle" /\ Deliver(event) /\ UNCHANGED <<queue, pending, activated>>
    BY <1>5, Zenon DEF WaitReturns
  <2> QED
    BY <1>4, <2>1
<1>6. CASE ~(cancelEvent \/ IsStop(taken[1]))
  <2>1. taken # <<>> /\ ProcessBatch(taken[1])
    BY <1>6 DEF WaitReturns
  <2>2. PICK first : first = taken[1] /\ taken = <<first>>
    <3>1. taken \in Seq(Items) /\ Len(taken) <= 1
      BY DEF SessionInv, TypeInv
    <3>4. Len(taken) \in Nat /\ (Len(taken) = 0 => taken = <<>>)
      BY <3>1
    <3>5. taken # <<>>
      BY <2>1
    <3>6. PICK n : n = Len(taken)
      OBVIOUS
    <3>7. n \in Nat /\ n <= 1
      BY <3>1, <3>4, <3>6
    <3>8. n # 0
      BY <3>4, <3>5, <3>6
    <3>2. Len(taken) = 1
      BY <3>6, <3>7, <3>8
    <3>3. taken = <<taken[1]>>
      BY <3>1, <3>2
    <3> QED
      BY <3>3
  <2>3. ProcessBatch(first) /\ ~IsStop(first)
    BY <1>6, <2>1, <2>2
  <2> QED
    BY <1>1, <1>3, <2>2, <2>3, BatchStep
<1> QED
  BY <1>5, <1>6

(* The consumer leaves: it is given nothing more.                          *)
LEMMA LeaveStep ==
  ASSUME SessionInv, ConsumerCancelled
  PROVE  SessionInv'
<1> USE DEF SessionInv
<1>1. ~terminal /\ pending = <<>>
  BY DEF ReaderInv, ConsumerCancelled
<1>2. /\ provenance' = provenance /\ backend' = backend /\ genError' = genError
      /\ produced' = produced /\ cancelEvent' = cancelEvent /\ queue' = queue
      /\ pending' = pending /\ terminal' = terminal /\ activated' = activated /\ events' = events
      /\ pc' = "gone" /\ taken' = <<>>
      /\ cancelPc' = IF cancelPc = "idle" THEN "requested" ELSE cancelPc
  BY DEF ConsumerCancelled
<1>3. <<>> \in Seq(Items) /\ Len(<<>>) = 0 /\ DOMAIN <<>> = {}
  OBVIOUS
<1>4. TypeInv'
  <2>1. taken' \in Seq(Items) /\ Len(taken') <= 1
    BY <1>2, <1>3
  <2> QED
    BY <1>2, <2>1 DEF TypeInv
<1>5. QueueInv'
  <2>1. DOMAIN taken' = {}
    BY <1>2, <1>3
  <2> QED
    BY <1>2, <2>1 DEF QueueInv, Small, Over
<1>6. TextInv' /\ ActiveInv' /\ EventsInv' /\ ReaderInv'
  BY <1>1, <1>2 DEF TextInv, ActiveInv, EventsInv, ReaderInv
<1>7. PendingInv'
  BY <1>2 DEF PendingInv, Over
<1> QED
  BY <1>4, <1>5, <1>6, <1>7

(* Every step of the session keeps the invariant.                          *)
LEMMA SessionNext == SessionInv /\ [Next]_vars => SessionInv'
<1> SUFFICES ASSUME SessionInv, [Next]_vars PROVE SessionInv'
  OBVIOUS
<1>0. TypeInv
  BY DEF SessionInv
<1>1. CASE \/ JobStarts \/ \E native, verified, eos \in BOOLEAN : JobGenerates(native, verified, eos)
           \/ JobHoldsText \/ JobStops \/ GeneratorFails \/ JobCancelled
  BY <1>1, QueueSteps
<1>2. CASE JobEndsEarly
  BY <1>0, <1>2, ApartStep DEF JobEndsEarly, consumer, consumed, Over, TypeInv
<1>3. CASE CancelBegins
  BY <1>0, <1>3, ApartStep DEF CancelBegins, consumed, Over, TypeInv
<1>4. CASE CancelEnds
  BY <1>0, <1>4, ApartStep DEF CancelEnds, consumed, Over, TypeInv
<1>5. CASE UNCHANGED vars
  BY <1>0, <1>5, ApartStep DEF vars, consumed, Over, TypeInv
<1>6. CASE NextPending \/ NextWaits \/ ResultTaken \/ WaitReturns \/ ConsumerCancelled
  BY <1>6, PendingStep, WaitStep, TakeStep, ReturnStep, LeaveStep
<1>7. CASE Idle
  BY <1>5, <1>7 DEF Idle
<1> QED
  BY <1>1, <1>2, <1>3, <1>4, <1>5, <1>6, <1>7 DEF Next, Backend, Consumer

(* The invariant of the session.                                           *)
LEMMA SessionInvariant == Spec => []SessionInv
<1> QED
  BY SessionInit, SessionNext, PTL DEF Spec

-----------------------------------------------------------------------------
(* What the invariant says of the consumer's events.                       *)

(* The text of the events is what they carry.                              *)
LEMMA TextIsFlow ==
  ASSUME NEW es \in Seq(Deliverable)
  PROVE  Text(es) = Flow(es)
<1>1. ASSUME NEW i \in DOMAIN es
      PROVE  (IF es[i].kind = "text" THEN es[i].pieces ELSE <<>>) = Carried(es[i])
  <2>1. es[i] \in Events
    BY DEF Deliverable, ExactEvents
  <2>2. es[i].kind # "streaming"
    BY <2>1 DEF Events, TextEvents, Started, Cancelled, Failed
  <2> QED
    BY <2>2 DEF Carried
<1>2. [i \in DOMAIN es |-> IF es[i].kind = "text" THEN es[i].pieces ELSE <<>>]
        = [i \in DOMAIN es |-> Carried(es[i])]
  BY <1>1
<1> QED
  BY <1>2, Zenon DEF Text, Flow

(* A sequence is a prefix of what it is continued to.                      *)
LEMMA PrefixOfConcat ==
  ASSUME NEW p \in Seq(Pieces), NEW q \in Seq(Pieces), NEW r, r = p \o q
  PROVE  IsPrefix(p, r)
<1>1. /\ r \in Seq(Pieces) /\ Len(p) \in Nat /\ Len(q) \in Nat /\ Len(r) = Len(p) + Len(q)
      /\ \A i \in 1..Len(p) : r[i] = p[i]
  OBVIOUS
<1>2. Len(p) <= Len(r)
  BY <1>1
<1>3. PICK n, a, b : n = Len(p) /\ a = SubSeq(p, 1, n) /\ b = SubSeq(r, 1, n)
  OBVIOUS
<1>4. /\ a \in Seq(Pieces) /\ Len(a) = n /\ \A i \in 1..n : a[i] = p[i]
      /\ b \in Seq(Pieces) /\ Len(b) = n /\ \A i \in 1..n : b[i] = r[i]
  BY <1>1, <1>2, <1>3
<1>5. \A i \in 1..n : a[i] = b[i]
  BY <1>1, <1>3, <1>4
<1>6. a = b
  BY <1>4, <1>5, SeqEqual
<1> QED
  BY <1>2, <1>3, <1>6 DEF IsPrefix

(* The end of the events of a finished session.                            *)
LEMMA FinishedLast ==
  ASSUME SessionInv, NEW i \in DOMAIN events, events[i].kind \in Terminals
  PROVE  terminal /\ i = Len(events) /\ FinishRight(events[i])
<1>1. events \in Seq(Deliverable)
  BY SharedTypes
<1>2. events \notin Seq(CalmEvents)
  BY DEF CalmEvents
<1>3. terminal
  BY <1>2 DEF SessionInv, EventsInv
<1>4. PICK f \in Seq(CalmEvents), event \in Events \ CalmEvents :
             Longer(events, f, event) /\ FinishRight(event)
  BY <1>3 DEF SessionInv, EventsInv
<1>5. /\ Len(f) \in Nat /\ Len(events) = Len(f) + 1 /\ events[Len(f) + 1] = event
      /\ \A j \in 1..Len(f) : events[j] = f[j] /\ f[j] \in CalmEvents
  BY <1>4 DEF Longer
<1>6. i \in 1..Len(f) \/ i = Len(f) + 1
  BY <1>1, <1>5
<1>7. i \notin 1..Len(f)
  BY <1>5 DEF CalmEvents
<1> QED
  BY <1>3, <1>4, <1>5, <1>6, <1>7

(* The invariant says what the property says.                              *)
LEMMA DeliveredIsExact == SessionInv => DeliveryIsExact
<1> SUFFICES ASSUME SessionInv PROVE DeliveryIsExact
  OBVIOUS
<1>1. events \in Seq(Deliverable) /\ Text(events) = Flow(events) /\ Flow(events) \in Seq(Pieces)
  BY SharedTypes, TextIsFlow
<1>2. IsPrefix(Text(events), produced)
  <2>1. PICK rest \in Seq(Pieces) : produced = Flow(events) \o rest
    BY DEF SessionInv, TextInv
  <2> QED
    BY <1>1, <2>1, PrefixOfConcat
<1>3. ASSUME NEW i \in DOMAIN events
      PROVE  /\ Verified(events[i]) => events[i].spans = NativeSpans(events[i].pieces)
             /\ events[i].kind = "text" => Len(events[i].pieces) <= DrainMax
  <2>1. Exact(events[i]) /\ Len(Carried(events[i])) <= DrainMax
    BY <1>1 DEF Deliverable, ExactEvents
  <2> QED
    BY <2>1 DEF Exact, Verified, Carried
<1>4. ASSUME NEW i \in DOMAIN events, events[i].kind = "finished"
      PROVE  /\ Text(events) = produced
             /\ events[i].activated = (Constrained /\ \E j \in DOMAIN produced : produced[j].native)
  <2>1. FinishRight(events[i])
    BY <1>4, FinishedLast DEF Terminals
  <2> QED
    BY <1>1, <1>4, <2>1 DEF FinishRight, HasNative
<1> QED
  BY <1>2, <1>3, <1>4 DEF DeliveryIsExact

(* Whatever was drained, merged, held back or dropped, the consumer has a  *)
(* prefix of the generated text with the right spans, and a session that   *)
(* reports a finished generation has delivered all of it.                  *)
THEOREM DeliveryCorrect == Spec => []DeliveryIsExact
<1> QED
  BY SessionInvariant, DeliveredIsExact, PTL

(* The invariant contains the types.                                       *)
LEMMA TypeHolds == SessionInv => TypeOK
<1> QED
  BY DEF SessionInv, TypeInv, TypeOK, ReaderInv

(* Every variable of a runtime session has its type.                       *)
THEOREM SessionTypeCorrect == Spec => []TypeOK
<1> QED
  BY SessionInvariant, TypeHolds, PTL

-----------------------------------------------------------------------------
(* The session is a terminal stream.                                       *)

(* What a step is for the consumer: nothing, its leaving, or one event.    *)
Quiet == UNCHANGED <<events, terminal>> /\ (pc' = "gone" <=> pc = "gone")
Leaves == UNCHANGED <<events, terminal>> /\ ~terminal /\ pc # "gone" /\ pc' = "gone"
Delivers(event) == ~terminal /\ pc # "gone" /\ pc' # "gone" /\ events' = Append(events, event)

(* Every step of the session is of one of these kinds.                     *)
LEMMA StepKinds ==
  ASSUME SessionInv, [Next]_vars
  PROVE  Quiet \/ Leaves \/ \E event : Delivers(event)
<1>0. ReaderInv
  BY DEF SessionInv
<1>1. CASE \/ Backend \/ JobHoldsText \/ GeneratorFails \/ JobEndsEarly
           \/ CancelBegins \/ JobCancelled \/ CancelEnds \/ UNCHANGED vars \/ Idle
  <2>1. UNCHANGED <<events, terminal, pc>>
    BY <1>1 DEF Backend, JobStarts, JobGenerates, JobStops, JobHoldsText, GeneratorFails,
                JobEndsEarly, CancelBegins, JobCancelled, CancelEnds, Idle, vars, consumer
  <2> QED
    BY <2>1 DEF Quiet
<1>2. CASE NextPending
  <2>1. \E event : Deliver(event)
    BY <1>2 DEF NextPending
  <2>2. pc = "idle" /\ pc' = "idle" /\ ~terminal
    BY <1>0, <1>2 DEF NextPending, ReaderInv
  <2> QED
    BY <2>1, <2>2 DEF Deliver, Delivers
<1>3. CASE NextWaits
  <2>1. pc = "idle" /\ ~terminal /\ (pc' = "idle" \/ pc' = "waiting")
    BY <1>3 DEF NextWaits
  <2>2. (\E event : Deliver(event)) \/ UNCHANGED <<events, terminal>>
    BY <1>3 DEF NextWaits
  <2>3. pc # "gone" /\ pc' # "gone"
    BY <2>1
  <2> QED
    BY <2>1, <2>2, <2>3 DEF Deliver, Delivers, Quiet
<1>4. CASE ResultTaken
  BY <1>4 DEF ResultTaken, Quiet
<1>5. CASE WaitReturns
  <2>1. pc = "waiting" /\ ~terminal
    BY <1>0, <1>5 DEF WaitReturns, ReaderInv
  <2>2. \/ pc' = "idle" /\ \E event : Deliver(event)
        \/ pc' = pc /\ UNCHANGED <<events, terminal>>
    <3>1. CASE cancelEvent \/ IsStop(taken[1])
      BY <1>5, <3>1, Zenon DEF WaitReturns
    <3>2. CASE ~(cancelEvent \/ IsStop(taken[1]))
      <4>1. ProcessBatch(taken[1])
        BY <1>5, <3>2, Zenon DEF WaitReturns
      <4> QED
        BY <4>1, Zenon DEF ProcessBatch
    <3> QED
      BY <3>1, <3>2
  <2>3. pc # "gone" /\ (pc' = "idle" \/ pc' = pc => pc' # "gone")
    BY <2>1
  <2> QED
    BY <2>1, <2>2, <2>3 DEF Deliver, Delivers, Quiet
<1>6. CASE ConsumerCancelled
  BY <1>0, <1>6 DEF ConsumerCancelled, ReaderInv, Leaves
<1> QED
  BY <1>1, <1>2, <1>3, <1>4, <1>5, <1>6 DEF Next, Consumer

(* The consumer's view of some events.                                     *)
Seen(es) == [i \in DOMAIN es |-> [kind |-> es[i].kind, source |-> 1]]

(* One more event, with which the stream goes on or ends.                  *)
LEMMA SeenLonger ==
  ASSUME SessionInv, SessionInv', NEW event, Delivers(event)
  PROVE  LET s == Seen(events)
             t == Seen(events')
         IN  /\ \A i \in DOMAIN s : i \in DOMAIN t /\ t[i] = s[i]
             /\ t # s /\ \A i \in DOMAIN t : t[i].source = 1
             /\ ~terminal' => \A i \in DOMAIN t : t[i].kind \notin Terminals
             /\ terminal' => {i \in DOMAIN t : t[i].kind \in Terminals} = {Len(t)}
<1> DEFINE s == Seen(events)
           t == Seen(events')
<1>1. PICK old, new : old = events /\ new = events'
  OBVIOUS
<1>2. old \in Seq(Deliverable) /\ new \in Seq(Deliverable) /\ new = Append(old, event)
  BY <1>1 DEF SessionInv, TypeInv, Delivers
<1>3. PICK n : n = Len(old)
  OBVIOUS
<1>4. /\ n \in Nat /\ DOMAIN old = 1..n /\ DOMAIN new = 1..(n + 1) /\ Len(new) = n + 1
      /\ \A i \in 1..n : new[i] = old[i]
  BY <1>2, <1>3
<1>5. /\ DOMAIN s = 1..n /\ DOMAIN t = 1..(n + 1) /\ n + 1 \in DOMAIN t /\ n + 1 \notin DOMAIN s
      /\ \A i \in 1..n : s[i].kind = old[i].kind /\ s[i] = [kind |-> old[i].kind, source |-> 1]
      /\ \A i \in 1..(n + 1) : /\ t[i] = [kind |-> new[i].kind, source |-> 1]
                               /\ t[i].kind = new[i].kind /\ t[i].source = 1
  BY <1>1, <1>4 DEF Seen
<1>6. Len(t) = n + 1
  <2>1. t \in Seq({[kind |-> new[i].kind, source |-> 1] : i \in 1..(n + 1)})
    BY <1>1, <1>4, <1>5 DEF Seen
  <2> QED
    BY <1>4, <1>5, <2>1
<1> HIDE DEF s, t
<1>7. (\A i \in DOMAIN s : i \in DOMAIN t /\ t[i] = s[i]) /\ t # s
  BY <1>4, <1>5
<1>8. ASSUME ~terminal' PROVE \A i \in DOMAIN t : t[i].kind \notin Terminals
  <2>1. new \in Seq(CalmEvents)
    BY <1>1, <1>8 DEF SessionInv, EventsInv
  <2> QED
    BY <1>4, <1>5, <2>1 DEF CalmEvents
<1>9. ASSUME terminal' PROVE {i \in DOMAIN t : t[i].kind \in Terminals} = {Len(t)}
  <2>1. PICK f \in Seq(CalmEvents), final \in Events \ CalmEvents : Longer(new, f, final)
    BY <1>1, <1>9 DEF SessionInv, EventsInv
  <2>2. /\ Len(f) \in Nat /\ Len(new) = Len(f) + 1 /\ new[Len(f) + 1] = final
        /\ \A i \in 1..Len(f) : new[i] \in CalmEvents
    BY <2>1 DEF Longer
  <2>3. Len(f) = n
    BY <1>4, <2>2
  <2>4. \A i \in 1..n : t[i].kind \notin Terminals
    <3>1. \A x \in CalmEvents : x.kind \notin Terminals
      BY DEF CalmEvents
    <3>2. \A i \in 1..n : new[i] \in CalmEvents /\ i \in 1..(n + 1)
      BY <1>4, <2>2, <2>3
    <3>3. \A i \in 1..n : t[i].kind = new[i].kind
      BY <1>5, <3>2
    <3> QED
      BY <3>1, <3>2, <3>3, Zenon
  <2>5. t[n + 1].kind \in Terminals
    BY <1>4, <1>5, <2>1, <2>2, <2>3 DEF CalmEvents
  <2>6. \A i \in DOMAIN t : i \in 1..n \/ i = n + 1
    BY <1>4, <1>5
  <2> QED
    BY <1>5, <1>6, <2>4, <2>5, <2>6
<1> QED
  BY <1>5, <1>7, <1>8, <1>9 DEF s, t

(* The runtime session gives its consumer one growing stream, ended by     *)
(* exactly one terminal event, unless the consumer leaves first.           *)
THEOREM RuntimeStream == Spec => Stream!Safety
<1>1. Init => Stream!Init
  <2> SUFFICES ASSUME Init PROVE Stream!Init
    OBVIOUS
  <2>1. events = <<>> /\ ~terminal /\ pc = "idle"
    BY DEF Init
  <2>2. [i \in DOMAIN events |-> [kind |-> events[i].kind, source |-> 1]] = <<>> /\ Reader = "reading"
    BY <2>1 DEF Reader
  <2> QED
    BY <2>2 DEF Stream!Init
<1>2. ASSUME SessionInv, SessionInv', [Next]_vars
      PROVE  [Stream!Next]_(Stream!vars)
  <2>1. CASE Quiet
    <3>1. events' = events /\ Reader' = Reader
      BY <2>1 DEF Quiet, Reader
    <3> QED
      BY <3>1 DEF Stream!vars
  <2>2. CASE Leaves
    <3>1. events' = events /\ Reader = "reading" /\ Reader' = "left"
      BY <2>2 DEF Leaves, Reader
    <3> QED
      BY <3>1 DEF Stream!Next, Stream!Leave
  <2>3. ASSUME NEW event, Delivers(event) PROVE Stream!Next
    <3>1. PICK s, t : s = Seen(events) /\ t = Seen(events')
      OBVIOUS
    <3>2. /\ \A i \in DOMAIN s : i \in DOMAIN t /\ t[i] = s[i]
          /\ t # s /\ \A i \in DOMAIN t : t[i].source = 1
          /\ ~terminal' => \A i \in DOMAIN t : t[i].kind \notin Terminals
          /\ terminal' => {i \in DOMAIN t : t[i].kind \in Terminals} = {Len(t)}
      BY <1>2, <2>3, <3>1, SeenLonger
    <3>3. /\ Reader = "reading" /\ (terminal' => Reader' = "ended")
          /\ (~terminal' => Reader' = Reader)
      BY <2>3 DEF Delivers, Reader
    <3>4. /\ s = [i \in DOMAIN events |-> [kind |-> events[i].kind, source |-> 1]]
          /\ t = [i \in DOMAIN events |-> [kind |-> events[i].kind, source |-> 1]]'
      BY <3>1 DEF Seen
    <3>5. Stream!OneSource(t)
      BY <3>2 DEF Stream!OneSource, Stream!OfKind
    <3>6. Stream!Given
      BY <3>2, <3>3, <3>4, <3>5 DEF Stream!Given
    <3>7. CASE terminal'
      <4>1. Stream!OfKind(t, Terminals) = {Len(t)}
        BY <3>2, <3>7 DEF Stream!OfKind
      <4> QED
        BY <3>3, <3>4, <3>6, <3>7, <4>1 DEF Stream!End, Stream!Next
    <3>8. CASE ~terminal'
      <4>1. Stream!OfKind(t, Terminals) = {}
        BY <3>2, <3>8 DEF Stream!OfKind
      <4> QED
        BY <3>3, <3>4, <3>6, <3>8, <4>1 DEF Stream!Continue, Stream!Next
    <3> QED
      BY <3>7, <3>8
  <2> QED
    BY <1>2, <2>1, <2>2, <2>3, StepKinds
<1> QED
  BY <1>1, <1>2, SessionInvariant, PTL DEF Spec, Stream!Safety

-----------------------------------------------------------------------------
(* The cache of image embeddings: the keys whose embedding may be cached,  *)
(* and the folds of a commit, one key at a time.                           *)
Safe == {k \in Keys : Size[k] # Unsafe}

(* An embedding that may be cached has a known size.                       *)
LEMMA SafeSizes ==
  \A k \in Safe : Size[k] \in Nat
<1> QED
  BY VisionAssumption DEF Safe

(* One key of a sum of sizes.                                              *)
Weighs == [n \in Nat |-> [k \in Safe |-> n + Size[k]]]

(* The bytes of some keys.                                                 *)
LEMMA BytesRuns ==
  ASSUME NEW keys \in Seq(Safe)
  PROVE  FoldsTo(Nat, 0, Weighs, keys, Bytes(keys))
<1> DEFINE V == Nat
           E == Safe
           a == 0
           g == Weighs
           Eq(F) == F = [p \in SUBSET DOMAIN keys |->
                          IF p = {} THEN a
                          ELSE F[p \ {Max(p)}] + Size[keys[Max(p)]]]
           C == CHOOSE F : Eq(F)
<1>1. a \in V
  OBVIOUS
<1>2. /\ g \in [V -> [E -> V]]
      /\ \A v \in V, x \in E : g[v][x] = v + Size[x]
  <2>1. \A v \in V, x \in E : (v + Size[x]) \in V
    BY SafeSizes
  <2> QED
    BY <2>1 DEF Weighs
<1>3. Bytes(keys) = C[DOMAIN keys]
  BY Zenon DEF Bytes, FoldLeft, MapThenFoldSet, Max
<1>4. keys \in Seq(E)
  OBVIOUS
<1> HIDE DEF V, E, a, g, C
<1>5. PICK F : FoldOver(F, V, E, a, g, keys)
  BY <1>1, <1>2, <1>4, FoldOverExists
<1>6. Eq(F)
  <2>1. \A p \in SUBSET DOMAIN keys :
           F[p] = IF p = {} THEN a
                  ELSE F[p \ {Max(p)}] + Size[keys[Max(p)]]
    <3> SUFFICES ASSUME NEW p \in SUBSET DOMAIN keys, p # {}
                 PROVE  F[p] = F[p \ {Max(p)}] + Size[keys[Max(p)]]
      BY <1>5, Zenon DEF FoldOver
    <3>1. /\ F[p \ {Max(p)}] \in V /\ keys[Max(p)] \in E
          /\ F[p] = g[F[p \ {Max(p)}]][keys[Max(p)]]
      BY <1>5, Zenon DEF FoldOver
    <3> QED
      BY <1>2, <3>1, Zenon
  <2>2. F = [p \in SUBSET DOMAIN keys |-> F[p]]
    BY <1>5 DEF FoldOver
  <2> QED
    BY <2>1, <2>2, Zenon
<1>7. \A p \in SUBSET DOMAIN keys :
        C[p] = IF p = {} THEN a
               ELSE C[p \ {Max(p)}] + Size[keys[Max(p)]]
  <2>1. Eq(C)
    BY <1>6, Zenon DEF C
  <2> QED
    BY <2>1, Zenon
<1>8. Folds(C, V, a, g, keys)
  <2>1. C[{}] = a
    BY <1>7, Zenon
  <2>2. ASSUME NEW p \in SUBSET DOMAIN keys, p # {}, C[p \ {Max(p)}] \in V
        PROVE  C[p] = g[C[p \ {Max(p)}]][keys[Max(p)]]
    <3>1. keys[Max(p)] \in E
      BY <1>5, <2>2, Zenon DEF FoldOver
    <3> QED
      BY <1>2, <1>7, <2>2, <3>1, Zenon
  <2> QED
    BY <2>1, <2>2, Zenon DEF Folds
<1>9. FoldsTo(V, a, g, keys, Bytes(keys))
  <2>1. PICK K, result : K = C /\ result = Bytes(keys)
    OBVIOUS
  <2>2. Folds(K, V, a, g, keys) /\ result = K[DOMAIN keys]
    BY <1>3, <1>8, <2>1
  <2>3. FoldsTo(V, a, g, keys, result)
    BY <1>1, <1>2, <1>4, <2>2, FoldRuns
  <2> QED
    BY <2>1, <2>3
<1> QED
  BY <1>9 DEF V, E, a, g

(* The bytes with one more key.                                            *)
LEMMA BytesAppend ==
  ASSUME NEW keys \in Seq(Safe), NEW k \in Safe
  PROVE  /\ Bytes(<<>>) = 0
         /\ Bytes(keys) \in Nat
         /\ Bytes(Append(keys, k)) = Bytes(keys) + Size[k]
<1> DEFINE V == Nat
           E == Safe
           a == 0
           g == Weighs
<1>1. a \in V /\ keys \in Seq(E) /\ k \in E /\ Append(keys, k) \in Seq(E) /\ <<>> \in Seq(E)
  OBVIOUS
<1>2. /\ g \in [V -> [E -> V]]
      /\ \A v \in V, y \in E : g[v][y] = v + Size[y]
  <2>1. \A v \in V, y \in E : (v + Size[y]) \in V
    BY SafeSizes
  <2> QED
    BY <2>1 DEF Weighs
<1>3. PICK r, q, more, none : /\ r = Bytes(keys) /\ more = Append(keys, k)
                              /\ q = Bytes(Append(keys, k)) /\ none = Bytes(<<>>)
  OBVIOUS
<1>4. FoldsTo(V, a, g, keys, r) /\ FoldsTo(V, a, g, more, q) /\ FoldsTo(V, a, g, <<>>, none)
  BY <1>1, <1>3, BytesRuns
<1> HIDE DEF V, E, a, g
<1>5. Continues(V, E, a, g, keys, k, more)
  BY <1>1, <1>2, <1>3, Zenon DEF Continues, Longer
<1>6. r \in V /\ q = g[r][k]
  BY <1>4, <1>5, FoldAppend
<1>7. q = r + Size[k]
  BY <1>1, <1>2, <1>6, Zenon
<1>8. none = a
  BY <1>4, FoldEmpty
<1> QED
  BY <1>3, <1>6, <1>7, <1>8, Zenon DEF V, a

(* A selection of keys and the bytes used with it.                         *)
Selections == [kept : Seq(Safe), used : Nat]

(* One key of a selection.                                                 *)
Chooses(v, k, skipped) ==
  IF k \notin skipped /\ Fits(k, v.used)
  THEN [kept |-> Append(v.kept, k), used |-> v.used + Size[k]]
  ELSE v

(* A selection stays a selection.                                          *)
LEMMA ChoosesType ==
  ASSUME NEW v \in Selections, NEW k \in Keys, NEW skipped
  PROVE  Chooses(v, k, skipped) \in Selections
<1>1. v.kept \in Seq(Safe) /\ v.used \in Nat
  BY DEF Selections
<1>2. CASE k \notin skipped /\ Fits(k, v.used)
  <2>1. k \in Safe /\ Size[k] \in Nat
    BY <1>2, SafeSizes DEF Safe, Fits
  <2>2. Append(v.kept, k) \in Seq(Safe) /\ v.used + Size[k] \in Nat
    BY <1>1, <2>1
  <2>3. [kept |-> Append(v.kept, k), used |-> v.used + Size[k]] \in Selections
    BY <2>2 DEF Selections
  <2> QED
    BY <1>2, <2>3, Zenon DEF Chooses
<1>3. CASE ~(k \notin skipped /\ Fits(k, v.used))
  BY <1>3, Zenon DEF Chooses
<1> QED
  BY <1>2, <1>3

(* The same as a function.                                                 *)
Selects(skipped) == [v \in Selections |-> [k \in Keys |-> Chooses(v, k, skipped)]]

(* The keys that fit.                                                      *)
LEMMA GreedyRuns ==
  ASSUME NEW keys \in Seq(Keys), NEW skipped, NEW used \in Nat
  PROVE  FoldsTo(Selections, [kept |-> <<>>, used |-> used], Selects(skipped), keys, Greedy(keys, skipped, used))
<1> DEFINE V == Selections
           E == Keys
           a == [kept |-> <<>>, used |-> used]
           g == Selects(skipped)
           Eq(F) == F = [p \in SUBSET DOMAIN keys |->
                          IF p = {} THEN a
                          ELSE Chooses(F[p \ {Max(p)}], keys[Max(p)], skipped)]
           C == CHOOSE F : Eq(F)
<1>1. a \in V
  BY DEF Selections
<1>2. /\ g \in [V -> [E -> V]]
      /\ \A v \in V, x \in E : g[v][x] = Chooses(v, x, skipped)
  <2>1. \A v \in V, x \in E : (Chooses(v, x, skipped)) \in V
    BY ChoosesType
  <2> QED
    BY <2>1 DEF Selects
<1>3. Greedy(keys, skipped, used) = C[DOMAIN keys]
  BY Zenon DEF Greedy, Chooses, FoldLeft, MapThenFoldSet, Max
<1>4. keys \in Seq(E)
  OBVIOUS
<1> HIDE DEF V, E, a, g, C
<1>5. PICK F : FoldOver(F, V, E, a, g, keys)
  BY <1>1, <1>2, <1>4, FoldOverExists
<1>6. Eq(F)
  <2>1. \A p \in SUBSET DOMAIN keys :
           F[p] = IF p = {} THEN a
                  ELSE Chooses(F[p \ {Max(p)}], keys[Max(p)], skipped)
    <3> SUFFICES ASSUME NEW p \in SUBSET DOMAIN keys, p # {}
                 PROVE  F[p] = Chooses(F[p \ {Max(p)}], keys[Max(p)], skipped)
      BY <1>5, Zenon DEF FoldOver
    <3>1. /\ F[p \ {Max(p)}] \in V /\ keys[Max(p)] \in E
          /\ F[p] = g[F[p \ {Max(p)}]][keys[Max(p)]]
      BY <1>5, Zenon DEF FoldOver
    <3> QED
      BY <1>2, <3>1, Zenon
  <2>2. F = [p \in SUBSET DOMAIN keys |-> F[p]]
    BY <1>5 DEF FoldOver
  <2> QED
    BY <2>1, <2>2, Zenon
<1>7. \A p \in SUBSET DOMAIN keys :
        C[p] = IF p = {} THEN a
               ELSE Chooses(C[p \ {Max(p)}], keys[Max(p)], skipped)
  <2>1. Eq(C)
    BY <1>6, Zenon DEF C
  <2> QED
    BY <2>1, Zenon
<1>8. Folds(C, V, a, g, keys)
  <2>1. C[{}] = a
    BY <1>7, Zenon
  <2>2. ASSUME NEW p \in SUBSET DOMAIN keys, p # {}, C[p \ {Max(p)}] \in V
        PROVE  C[p] = g[C[p \ {Max(p)}]][keys[Max(p)]]
    <3>1. keys[Max(p)] \in E
      BY <1>5, <2>2, Zenon DEF FoldOver
    <3> QED
      BY <1>2, <1>7, <2>2, <3>1, Zenon
  <2> QED
    BY <2>1, <2>2, Zenon DEF Folds
<1>9. FoldsTo(V, a, g, keys, Greedy(keys, skipped, used))
  <2>1. PICK K, result : K = C /\ result = Greedy(keys, skipped, used)
    OBVIOUS
  <2>2. Folds(K, V, a, g, keys) /\ result = K[DOMAIN keys]
    BY <1>3, <1>8, <2>1
  <2>3. FoldsTo(V, a, g, keys, result)
    BY <1>1, <1>2, <1>4, <2>2, FoldRuns
  <2> QED
    BY <2>1, <2>3
<1> QED
  BY <1>9 DEF V, E, a, g

(* Selecting from one more key.                                            *)
LEMMA GreedyAppend ==
  ASSUME NEW keys \in Seq(Keys), NEW k \in Keys, NEW skipped, NEW used \in Nat
  PROVE  /\ Greedy(<<>>, skipped, used) = [kept |-> <<>>, used |-> used]
         /\ Greedy(keys, skipped, used) \in Selections
         /\ Greedy(Append(keys, k), skipped, used) = Chooses(Greedy(keys, skipped, used), k, skipped)
<1> DEFINE V == Selections
           E == Keys
           a == [kept |-> <<>>, used |-> used]
           g == Selects(skipped)
<1>1. a \in V /\ keys \in Seq(E) /\ k \in E /\ Append(keys, k) \in Seq(E) /\ <<>> \in Seq(E)
  BY DEF Selections
<1>2. /\ g \in [V -> [E -> V]]
      /\ \A v \in V, y \in E : g[v][y] = Chooses(v, y, skipped)
  <2>1. \A v \in V, y \in E : (Chooses(v, y, skipped)) \in V
    BY ChoosesType
  <2> QED
    BY <2>1 DEF Selects
<1>3. PICK r, q, more, none : /\ r = Greedy(keys, skipped, used) /\ more = Append(keys, k)
                              /\ q = Greedy(Append(keys, k), skipped, used) /\ none = Greedy(<<>>, skipped, used)
  OBVIOUS
<1>4. FoldsTo(V, a, g, keys, r) /\ FoldsTo(V, a, g, more, q) /\ FoldsTo(V, a, g, <<>>, none)
  BY <1>1, <1>3, GreedyRuns
<1> HIDE DEF V, E, a, g
<1>5. Continues(V, E, a, g, keys, k, more)
  BY <1>1, <1>2, <1>3, Zenon DEF Continues, Longer
<1>6. r \in V /\ q = g[r][k]
  BY <1>4, <1>5, FoldAppend
<1>7. q = Chooses(r, k, skipped)
  BY <1>1, <1>2, <1>6, Zenon
<1>8. none = a
  BY <1>4, FoldEmpty
<1> QED
  BY <1>3, <1>6, <1>7, <1>8, Zenon DEF V, a

(* How far the beginning of a request goes that fits.                      *)
Scans == [n : Nat, used : Nat, open : BOOLEAN]

(* One key of a scan of the beginning.                                     *)
Extends(v, k) ==
  IF v.open /\ Fits(k, v.used)
  THEN [n |-> v.n + 1, used |-> v.used + Size[k], open |-> TRUE]
  ELSE [v EXCEPT !.open = FALSE]

(* A scan stays a scan.                                                    *)
LEMMA ExtendsType ==
  ASSUME NEW v \in Scans, NEW k \in Keys
  PROVE  Extends(v, k) \in Scans
<1>1. v.n \in Nat /\ v.used \in Nat /\ [v EXCEPT !.open = FALSE] \in Scans
  BY DEF Scans
<1>2. CASE v.open /\ Fits(k, v.used)
  <2>1. Size[k] \in Nat
    BY <1>2, SafeSizes DEF Safe, Fits
  <2>2. [n |-> v.n + 1, used |-> v.used + Size[k], open |-> TRUE] \in Scans
    BY <1>1, <2>1 DEF Scans
  <2> QED
    BY <1>2, <2>2, Zenon DEF Extends
<1>3. CASE ~(v.open /\ Fits(k, v.used))
  BY <1>1, <1>3, Zenon DEF Extends
<1> QED
  BY <1>2, <1>3

(* The same as a function.                                                 *)
Advances == [v \in Scans |-> [k \in Keys |-> Extends(v, k)]]

(* The beginning of a request that fits.                                   *)
LEMMA PrefixRuns ==
  ASSUME NEW keys \in Seq(Keys)
  PROVE  FoldsTo(Scans, [n |-> 0, used |-> 0, open |-> TRUE], Advances, keys, PrefixScan(keys))
<1> DEFINE V == Scans
           E == Keys
           a == [n |-> 0, used |-> 0, open |-> TRUE]
           g == Advances
           Eq(F) == F = [p \in SUBSET DOMAIN keys |->
                          IF p = {} THEN a
                          ELSE Extends(F[p \ {Max(p)}], keys[Max(p)])]
           C == CHOOSE F : Eq(F)
<1>1. a \in V
  BY DEF Scans
<1>2. /\ g \in [V -> [E -> V]]
      /\ \A v \in V, x \in E : g[v][x] = Extends(v, x)
  <2>1. \A v \in V, x \in E : (Extends(v, x)) \in V
    BY ExtendsType
  <2> QED
    BY <2>1 DEF Advances
<1>3. PrefixScan(keys) = C[DOMAIN keys]
  BY Zenon DEF PrefixScan, Extends, FoldLeft, MapThenFoldSet, Max
<1>4. keys \in Seq(E)
  OBVIOUS
<1> HIDE DEF V, E, a, g, C
<1>5. PICK F : FoldOver(F, V, E, a, g, keys)
  BY <1>1, <1>2, <1>4, FoldOverExists
<1>6. Eq(F)
  <2>1. \A p \in SUBSET DOMAIN keys :
           F[p] = IF p = {} THEN a
                  ELSE Extends(F[p \ {Max(p)}], keys[Max(p)])
    <3> SUFFICES ASSUME NEW p \in SUBSET DOMAIN keys, p # {}
                 PROVE  F[p] = Extends(F[p \ {Max(p)}], keys[Max(p)])
      BY <1>5, Zenon DEF FoldOver
    <3>1. /\ F[p \ {Max(p)}] \in V /\ keys[Max(p)] \in E
          /\ F[p] = g[F[p \ {Max(p)}]][keys[Max(p)]]
      BY <1>5, Zenon DEF FoldOver
    <3> QED
      BY <1>2, <3>1, Zenon
  <2>2. F = [p \in SUBSET DOMAIN keys |-> F[p]]
    BY <1>5 DEF FoldOver
  <2> QED
    BY <2>1, <2>2, Zenon
<1>7. \A p \in SUBSET DOMAIN keys :
        C[p] = IF p = {} THEN a
               ELSE Extends(C[p \ {Max(p)}], keys[Max(p)])
  <2>1. Eq(C)
    BY <1>6, Zenon DEF C
  <2> QED
    BY <2>1, Zenon
<1>8. Folds(C, V, a, g, keys)
  <2>1. C[{}] = a
    BY <1>7, Zenon
  <2>2. ASSUME NEW p \in SUBSET DOMAIN keys, p # {}, C[p \ {Max(p)}] \in V
        PROVE  C[p] = g[C[p \ {Max(p)}]][keys[Max(p)]]
    <3>1. keys[Max(p)] \in E
      BY <1>5, <2>2, Zenon DEF FoldOver
    <3> QED
      BY <1>2, <1>7, <2>2, <3>1, Zenon
  <2> QED
    BY <2>1, <2>2, Zenon DEF Folds
<1>9. FoldsTo(V, a, g, keys, PrefixScan(keys))
  <2>1. PICK K, result : K = C /\ result = PrefixScan(keys)
    OBVIOUS
  <2>2. Folds(K, V, a, g, keys) /\ result = K[DOMAIN keys]
    BY <1>3, <1>8, <2>1
  <2>3. FoldsTo(V, a, g, keys, result)
    BY <1>1, <1>2, <1>4, <2>2, FoldRuns
  <2> QED
    BY <2>1, <2>3
<1> QED
  BY <1>9 DEF V, E, a, g

(* Scanning one more key.                                                  *)
LEMMA PrefixAppend ==
  ASSUME NEW keys \in Seq(Keys), NEW k \in Keys
  PROVE  /\ PrefixScan(<<>>) = [n |-> 0, used |-> 0, open |-> TRUE]
         /\ PrefixScan(keys) \in Scans
         /\ PrefixScan(Append(keys, k)) = Extends(PrefixScan(keys), k)
<1> DEFINE V == Scans
           E == Keys
           a == [n |-> 0, used |-> 0, open |-> TRUE]
           g == Advances
<1>1. a \in V /\ keys \in Seq(E) /\ k \in E /\ Append(keys, k) \in Seq(E) /\ <<>> \in Seq(E)
  BY DEF Scans
<1>2. /\ g \in [V -> [E -> V]]
      /\ \A v \in V, y \in E : g[v][y] = Extends(v, y)
  <2>1. \A v \in V, y \in E : (Extends(v, y)) \in V
    BY ExtendsType
  <2> QED
    BY <2>1 DEF Advances
<1>3. PICK r, q, more, none : /\ r = PrefixScan(keys) /\ more = Append(keys, k)
                              /\ q = PrefixScan(Append(keys, k)) /\ none = PrefixScan(<<>>)
  OBVIOUS
<1>4. FoldsTo(V, a, g, keys, r) /\ FoldsTo(V, a, g, more, q) /\ FoldsTo(V, a, g, <<>>, none)
  BY <1>1, <1>3, PrefixRuns
<1> HIDE DEF V, E, a, g
<1>5. Continues(V, E, a, g, keys, k, more)
  BY <1>1, <1>2, <1>3, Zenon DEF Continues, Longer
<1>6. r \in V /\ q = g[r][k]
  BY <1>4, <1>5, FoldAppend
<1>7. q = Extends(r, k)
  BY <1>1, <1>2, <1>6, Zenon
<1>8. none = a
  BY <1>4, FoldEmpty
<1> QED
  BY <1>3, <1>6, <1>7, <1>8, Zenon DEF V, a

(* The bytes of some cached embeddings.                                    *)

(* No keys have no bytes.                                                  *)
LEMMA BytesEmpty ==
  Bytes(<<>>) = 0
<1>1. <<>> \in Seq(Safe)
  OBVIOUS
<1>2. FoldsTo(Nat, 0, Weighs, <<>>, Bytes(<<>>))
  BY <1>1, BytesRuns
<1> QED
  BY <1>2, FoldEmpty

(* The bytes of two groups of keys.                                        *)
LEMMA BytesConcat ==
  ASSUME NEW p \in Seq(Safe), NEW q \in Seq(Safe)
  PROVE  /\ p \o q \in Seq(Safe) /\ Bytes(p) \in Nat /\ Bytes(q) \in Nat
         /\ Bytes(p \o q) = Bytes(p) + Bytes(q)
<1> DEFINE T == {s \in Seq(Safe) : /\ Bytes(s) \in Nat /\ Bytes(p) \in Nat
                                   /\ Bytes(p \o s) = Bytes(p) + Bytes(s)}
<1>1. <<>> \in T
  <2>1. p \o <<>> = p /\ <<>> \in Seq(Safe)
    BY ConcatEmptySeq
  <2>2. CASE Safe = {}
    <3>1. p = <<>>
      BY <2>2
    <3>2. Bytes(<<>>) = 0
      BY BytesEmpty
    <3> QED
      BY <2>1, <3>1, <3>2
  <2>3. ASSUME NEW k \in Safe PROVE <<>> \in T
    <3>1. Bytes(<<>>) = 0 /\ Bytes(p) \in Nat
      BY BytesAppend
    <3> QED
      BY <2>1, <3>1
  <2> QED
    BY <2>2, <2>3
<1>2. \A s \in Seq(Safe), k \in Safe : s \in T => Append(s, k) \in T
  <2> SUFFICES ASSUME NEW s \in Seq(Safe), NEW k \in Safe, s \in T PROVE Append(s, k) \in T
    OBVIOUS
  <2>1. PICK r, more, long : r = p \o s /\ more = Append(s, k) /\ long = Append(r, k)
    OBVIOUS
  <2>2. r \in Seq(Safe) /\ more \in Seq(Safe) /\ p \o more = long
    <3>1. r \in Seq(Safe) /\ more \in Seq(Safe)
      BY <2>1
    <3>2. p \o Append(s, k) = Append(p \o s, k)
      <4>1. <<k>> \in Seq(Safe)
        OBVIOUS
      <4>2. Append(s, k) = s \o <<k>>
        BY AppendIsConcat
      <4>3. p \o (s \o <<k>>) = (p \o s) \o <<k>>
        BY <4>1, ConcatAssociative
      <4>4. Append(r, k) = r \o <<k>>
        BY <3>1, AppendIsConcat
      <4> QED
        BY <2>1, <4>2, <4>3, <4>4
    <3> QED
      BY <2>1, <3>1, <3>2
  <2>3. Bytes(more) = Bytes(s) + Size[k] /\ Bytes(long) = Bytes(r) + Size[k]
    BY <2>1, <2>2, BytesAppend
  <2>4. Bytes(s) \in Nat /\ Bytes(p) \in Nat /\ Bytes(r) = Bytes(p) + Bytes(s) /\ Size[k] \in Nat
    BY <2>1, SafeSizes
  <2>5. Bytes(more) \in Nat /\ Bytes(p \o more) = Bytes(p) + Bytes(more)
    BY <2>2, <2>3, <2>4
  <2> HIDE DEF T
  <2>6. more \in T
    BY <2>2, <2>4, <2>5 DEF T
  <2> QED
    BY <2>1, <2>6
<1> HIDE DEF T
<1>3. q \in T
  BY <1>1, <1>2, SeqInduction
<1> QED
  BY <1>3 DEF T

(* The bytes of one key.                                                   *)
LEMMA BytesOne ==
  ASSUME NEW k \in Safe
  PROVE  <<k>> \in Seq(Safe) /\ Bytes(<<k>>) = Size[k] /\ Bytes(<<>>) = 0
<1>1. <<>> \in Seq(Safe) /\ Append(<<>>, k) = <<k>>
  OBVIOUS
<1>2. Bytes(<<>>) = 0 /\ Bytes(Append(<<>>, k)) = Bytes(<<>>) + Size[k] /\ Size[k] \in Nat
  BY <1>1, BytesAppend, SafeSizes
<1> QED
  BY <1>1, <1>2

(* A reversed sequence, element by element.                                *)
LEMMA ReverseType ==
  ASSUME NEW X, NEW s \in Seq(X), NEW r, r = Reverse(s)
  PROVE  /\ r \in Seq(X) /\ Len(r) = Len(s)
         /\ \A i \in 1..Len(s) : r[i] = s[Len(s) - i + 1] /\ Len(s) - i + 1 \in 1..Len(s)
<1>1. PICK n : n = Len(s)
  OBVIOUS
<1>2. n \in Nat
  BY <1>1
<1>6. r = [i \in 1..n |-> s[n - i + 1]]
  BY <1>1, Zenon DEF Reverse
<1>3. \A i \in 1..n : n - i + 1 \in 1..n
  BY <1>2
<1>4. \A i \in 1..n : s[n - i + 1] \in X
  BY <1>1, <1>3
<1>5. r \in Seq(X) /\ Len(r) = n
  BY <1>2, <1>4, <1>6
<1> QED
  BY <1>1, <1>2, <1>3, <1>5, <1>6

(* The order of the keys does not matter for their bytes.                  *)
LEMMA ReverseAppend ==
  ASSUME NEW X, NEW s \in Seq(X), NEW x \in X
  PROVE  Reverse(Append(s, x)) = <<x>> \o Reverse(s)
<1>1. PICK n, more : n = Len(s) /\ more = Append(s, x)
  OBVIOUS
<1>2. /\ n \in Nat /\ Len(more) = n + 1 /\ more[n + 1] = x
      /\ \A i \in 1..n : more[i] = s[i]
  BY <1>1
<1>3. PICK a, b : a = Reverse(s) /\ b = Reverse(more)
  OBVIOUS
<1>4. a = [i \in 1..n |-> s[n - i + 1]] /\ b = [i \in 1..(n + 1) |-> more[(n + 1) - i + 1]]
  BY <1>1, <1>2, <1>3, Zenon DEF Reverse
<1>5. a \in Seq(X) /\ Len(a) = n /\ \A i \in 1..n : a[i] = s[n - i + 1]
  BY <1>1, <1>3, ReverseType
<1>6. PICK c : c = <<x>> \o a
  OBVIOUS
<1>7. c \in Seq(X) /\ Len(c) = n + 1 /\ c[1] = x /\ \A i \in 2..(n + 1) : c[i] = a[i - 1]
  BY <1>2, <1>5, <1>6
<1>8. \A i \in 1..(n + 1) : b[i] = c[i]
  <2> SUFFICES ASSUME NEW i \in 1..(n + 1) PROVE b[i] = c[i]
    OBVIOUS
  <2>1. b[i] = more[(n + 1) - i + 1]
    BY <1>4
  <2>2. CASE i = 1
    <3>1. (n + 1) - i + 1 = n + 1
      BY <1>2, <2>2
    <3> QED
      BY <1>2, <1>7, <2>1, <2>2, <3>1
  <2>3. CASE i # 1
    <3>1. /\ i \in 2..(n + 1) /\ i - 1 \in 1..n /\ n - (i - 1) + 1 = (n + 1) - i + 1
          /\ (n + 1) - i + 1 \in 1..n
      BY <1>2, <2>3
    <3> QED
      BY <1>2, <1>5, <1>7, <2>1, <3>1
  <2> QED
    BY <2>2, <2>3
<1>9. c = [i \in 1..(n + 1) |-> c[i]]
  BY <1>2, <1>7
<1>10. b = c
  BY <1>4, <1>8, <1>9
<1> QED
  BY <1>1, <1>3, <1>6, <1>10

(* Reversing does not change the bytes.                                    *)
LEMMA BytesReverse ==
  ASSUME NEW q \in Seq(Safe)
  PROVE  Bytes(Reverse(q)) = Bytes(q)
<1> DEFINE T == {s \in Seq(Safe) : Bytes(Reverse(s)) = Bytes(s)}
<1>1. <<>> \in T
  <2>1. Reverse(<<>>) = <<>>
    <3>1. Len(<<>>) = 0 /\ 1..0 = {}
      OBVIOUS
    <3> QED
      BY <3>1 DEF Reverse
  <2> QED
    BY <2>1
<1>2. \A s \in Seq(Safe), k \in Safe : s \in T => Append(s, k) \in T
  <2> SUFFICES ASSUME NEW s \in Seq(Safe), NEW k \in Safe, s \in T PROVE Append(s, k) \in T
    OBVIOUS
  <2>1. PICK r, more, one : r = Reverse(s) /\ more = Append(s, k) /\ one = <<k>>
    OBVIOUS
  <2>2. r \in Seq(Safe) /\ more \in Seq(Safe) /\ one \in Seq(Safe)
    BY <2>1, ReverseType
  <2>3. Reverse(more) = one \o r
    BY <2>1, ReverseAppend
  <2>4. Bytes(one \o r) = Bytes(one) + Bytes(r) /\ Bytes(one) = Size[k] /\ Bytes(r) \in Nat /\ Size[k] \in Nat
    BY <2>1, <2>2, BytesConcat, BytesOne, SafeSizes
  <2>5. Bytes(r) = Bytes(s) /\ Bytes(more) = Bytes(s) + Size[k]
    BY <2>1, BytesAppend
  <2>6. Bytes(Reverse(more)) = Bytes(more)
    BY <2>3, <2>4, <2>5
  <2> HIDE DEF T
  <2>7. more \in T
    BY <2>2, <2>6 DEF T
  <2> QED
    BY <2>1, <2>7
<1> HIDE DEF T
<1>3. q \in T
  BY <1>1, <1>2, SeqInduction
<1> QED
  BY <1>3 DEF T

(* What a selection is: some of the keys, none of those skipped, each at   *)
(* most once, and no more bytes than the budget.                           *)
Once(q) == \A i, j \in DOMAIN q : q[i] = q[j] => i = j
(* Elements of s, none of them skipped.                                    *)
Among(q, s, skipped) == \A i \in DOMAIN q : q[i] \notin skipped /\ \E j \in DOMAIN s : q[i] = s[j]

(* What a selection within the budget is.                                  *)
Selected(r, s, skipped, used) ==
  /\ r \in Selections /\ r.used = used + Bytes(r.kept) /\ r.used <= Budget
  /\ Among(r.kept, s, skipped) /\ (Once(s) => Once(r.kept))

(* Elements are each there once when the last is new.                      *)
LEMMA OnceAppend ==
  ASSUME NEW X, NEW s \in Seq(X), NEW x \in X, NEW more, Longer(more, s, x)
  PROVE  /\ more \in Seq(X) /\ DOMAIN s = 1..Len(s) /\ Len(s) \in Nat
         /\ DOMAIN more = 1..(Len(s) + 1) /\ Len(more) = Len(s) + 1 /\ more[Len(s) + 1] = x
         /\ \A i \in 1..Len(s) : more[i] = s[i]
         /\ Once(more) = (Once(s) /\ \A i \in DOMAIN s : s[i] # x)
<1>1. PICK n : n = Len(s)
  OBVIOUS
<1>2. /\ more \in Seq(X) /\ DOMAIN s = 1..n /\ n \in Nat /\ DOMAIN more = 1..(n + 1)
      /\ Len(more) = n + 1 /\ more[n + 1] = x /\ \A i \in 1..n : more[i] = s[i]
  BY <1>1 DEF Longer
<1>3. /\ \A i \in 1..n : i \in 1..(n + 1) /\ i # n + 1
      /\ n + 1 \in 1..(n + 1) /\ \A i \in 1..(n + 1) : i \in 1..n \/ i = n + 1
  BY <1>2
<1>4. ASSUME Once(more) PROVE Once(s) /\ \A i \in DOMAIN s : s[i] # x
  BY <1>2, <1>3, <1>4 DEF Once
<1>5. ASSUME Once(s), \A i \in DOMAIN s : s[i] # x PROVE Once(more)
  <2> SUFFICES ASSUME NEW i \in 1..(n + 1), NEW j \in 1..(n + 1), more[i] = more[j] PROVE i = j
    BY <1>2 DEF Once
  <2>1. CASE i \in 1..n /\ j \in 1..n
    BY <1>2, <1>5, <2>1 DEF Once
  <2>2. CASE i \in 1..n /\ j = n + 1
    BY <1>2, <1>5, <2>2
  <2>3. CASE i = n + 1 /\ j \in 1..n
    BY <1>2, <1>5, <2>3
  <2> QED
    BY <1>3, <2>1, <2>2, <2>3
<1>6. Once(more) \in BOOLEAN /\ Once(s) \in BOOLEAN
  BY DEF Once
<1> QED
  BY <1>1, <1>2, <1>4, <1>5, <1>6

(* Greedy selects within the budget.                                       *)
LEMMA GreedySelected ==
  ASSUME NEW keys \in Seq(Keys), NEW skipped, NEW used \in Nat, used <= Budget
  PROVE  Selected(Greedy(keys, skipped, used), keys, skipped, used)
<1> DEFINE T == {s \in Seq(Keys) : Selected(Greedy(s, skipped, used), s, skipped, used)}
<1>1. <<>> \in T
  <2>1. PICK r : r = Greedy(<<>>, skipped, used)
    OBVIOUS
  <2>2. /\ <<>> \in Seq(Keys) /\ <<>> \in Seq(Safe) /\ DOMAIN <<>> = {}
    OBVIOUS
  <2>3. r = [kept |-> <<>>, used |-> used]
    <3>1. FoldsTo(Selections, [kept |-> <<>>, used |-> used], Selects(skipped), <<>>, r)
      BY <2>1, <2>2, GreedyRuns
    <3> QED
      BY <3>1, FoldEmpty
  <2>4. Bytes(<<>>) = 0
    BY BytesEmpty
  <2>5. r \in Selections /\ r.kept = <<>> /\ r.used = used
    BY <2>2, <2>3 DEF Selections
  <2>6. Among(<<>>, <<>>, skipped) /\ Once(<<>>)
    BY <2>2 DEF Among, Once
  <2>7. Selected(r, <<>>, skipped, used)
    BY <2>4, <2>5, <2>6 DEF Selected
  <2> QED
    BY <2>1, <2>2, <2>7
<1>2. \A s \in Seq(Keys), k \in Keys : s \in T => Append(s, k) \in T
  <2> SUFFICES ASSUME NEW s \in Seq(Keys), NEW k \in Keys, s \in T PROVE Append(s, k) \in T
    OBVIOUS
  <2>1. PICK r, q, more : /\ r = Greedy(s, skipped, used) /\ more = Append(s, k)
                          /\ q = Greedy(more, skipped, used)
    OBVIOUS
  <2>2. Selected(r, s, skipped, used)
    BY <2>1
  <2> HIDE DEF T
  <2>3. q = Chooses(r, k, skipped)
    BY <2>1, GreedyAppend
  <2>4. Longer(more, s, k)
    BY <2>1 DEF Longer
  <2>5. /\ more \in Seq(Keys) /\ DOMAIN s = 1..Len(s) /\ Len(s) \in Nat
        /\ DOMAIN more = 1..(Len(s) + 1) /\ more[Len(s) + 1] = k
        /\ \A i \in 1..Len(s) : more[i] = s[i]
        /\ Once(more) = (Once(s) /\ \A i \in DOMAIN s : s[i] # k)
    BY <2>4, OnceAppend
  <2>5a. \A i \in 1..Len(s) : i \in 1..(Len(s) + 1)
    BY <2>5
  <2>5b. Len(s) + 1 \in 1..(Len(s) + 1)
    BY <2>5
  <2>6. /\ r \in Selections /\ r.used = used + Bytes(r.kept) /\ r.used <= Budget
        /\ Among(r.kept, s, skipped) /\ (Once(s) => Once(r.kept))
        /\ r.kept \in Seq(Safe) /\ r.used \in Nat
    BY <2>2 DEF Selected, Selections
  <2>7. Among(r.kept, more, skipped)
    BY <2>5, <2>5a, <2>6 DEF Among
  <2>8. ASSUME k \notin skipped, Fits(k, r.used) PROVE Selected(q, more, skipped, used)
    <3>1. k \in Safe /\ Size[k] \in Nat /\ r.used + Size[k] <= Budget
      BY <2>8, SafeSizes DEF Safe, Fits
    <3>2. PICK kept : kept = Append(r.kept, k) /\ Longer(kept, r.kept, k)
      BY DEF Longer
    <3>3. /\ kept \in Seq(Safe) /\ DOMAIN r.kept = 1..Len(r.kept) /\ Len(r.kept) \in Nat
          /\ DOMAIN kept = 1..(Len(r.kept) + 1) /\ kept[Len(r.kept) + 1] = k
          /\ \A i \in 1..Len(r.kept) : kept[i] = r.kept[i]
          /\ Once(kept) = (Once(r.kept) /\ \A i \in DOMAIN r.kept : r.kept[i] # k)
      BY <2>6, <3>1, <3>2, OnceAppend
    <3>4. q = [kept |-> kept, used |-> r.used + Size[k]]
      BY <2>3, <2>8, <3>2, Zenon DEF Chooses
    <3>5. q \in Selections /\ q.kept = kept /\ q.used = r.used + Size[k]
      BY <2>6, <3>1, <3>3, <3>4 DEF Selections
    <3>6. Bytes(kept) = Bytes(r.kept) + Size[k] /\ Bytes(r.kept) \in Nat
      BY <2>6, <3>1, <3>2, BytesAppend
    <3>7. q.used = used + Bytes(kept) /\ q.used <= Budget
      BY <2>6, <3>1, <3>5, <3>6
    <3>8. Among(kept, more, skipped)
      <4> SUFFICES ASSUME NEW i \in DOMAIN kept
                   PROVE  kept[i] \notin skipped /\ \E j \in DOMAIN more : kept[i] = more[j]
        BY DEF Among
      <4>1. CASE i \in 1..Len(r.kept)
        BY <2>7, <3>3, <4>1 DEF Among
      <4>2. CASE i = Len(r.kept) + 1
        BY <2>5, <2>5b, <2>8, <3>3, <4>2
      <4>3. i \in 1..Len(r.kept) \/ i = Len(r.kept) + 1
        <5>1. PICK m : m = Len(r.kept)
          OBVIOUS
        <5>2. m \in Nat /\ i \in 1..(m + 1)
          BY <3>3, <5>1
        <5> QED
          BY <5>1, <5>2
      <4> QED
        BY <4>1, <4>2, <4>3
    <3>9. Once(more) => Once(kept)
      <4> SUFFICES ASSUME Once(more), NEW i \in DOMAIN r.kept PROVE r.kept[i] # k
        BY <2>5, <2>6, <3>3, Zenon
      <4>1. \E j \in DOMAIN s : r.kept[i] = s[j]
        BY <2>6 DEF Among
      <4> QED
        BY <2>5, <4>1
    <3> QED
      BY <3>5, <3>7, <3>8, <3>9, Zenon DEF Selected
  <2>9. ASSUME ~(k \notin skipped /\ Fits(k, r.used)) PROVE Selected(q, more, skipped, used)
    <3>1. q = r
      BY <2>3, <2>9, Zenon DEF Chooses
    <3> QED
      BY <2>5, <2>6, <2>7, <3>1, Zenon DEF Selected
  <2>10. Selected(q, more, skipped, used)
    BY <2>8, <2>9, Zenon
  <2>11. more \in T
    BY <2>1, <2>5, <2>10 DEF T
  <2> QED
    BY <2>1, <2>11
<1> HIDE DEF T
<1>3. keys \in T
  BY <1>1, <1>2, SeqInduction
<1> QED
  BY <1>3 DEF T

(* What the protected prefix of a request is: its images are all kept, and *)
(* no longer beginning of the request fits.                                *)
TooBig(s, m) ==
  (\E i \in 1..m : Size[s[i]] = Unsafe) \/ Bytes(SubSeq(s, 1, m)) > Budget

(* What the scan of the beginning and the selection say of the keys s.     *)
Covered(p, s, r) ==
  /\ p \in Scans /\ p.n <= Len(s) /\ r \in Selections
  /\ p.open => p.n = Len(s) /\ s \in Seq(Safe) /\ p.used = Bytes(s) /\ r.kept = s /\ r.used = p.used
  /\ ~p.open => TooBig(s, Len(s))
  /\ \A i \in 1..p.n : \E j \in DOMAIN r.kept : r.kept[j] = s[i]
  /\ \A m \in DOMAIN s : m > p.n => TooBig(s, m)

(* A beginning that does not fit is one of every longer request, and a     *)
(* request that does not fit does not fit when it is longer.               *)
LEMMA TooBigLonger ==
  ASSUME NEW s \in Seq(Keys), NEW k \in Keys, NEW more, Longer(more, s, k)
  PROVE  /\ \A m \in DOMAIN s : TooBig(s, m) => TooBig(more, m)
         /\ TooBig(s, Len(s)) => TooBig(more, Len(s) + 1)
         /\ Size[k] = Unsafe => TooBig(more, Len(s) + 1)
         /\ s \in Seq(Safe) /\ k \in Safe /\ Bytes(s) + Size[k] > Budget => TooBig(more, Len(s) + 1)
<1>1. PICK n : n = Len(s)
  OBVIOUS
<1>2. /\ more \in Seq(Keys) /\ DOMAIN s = 1..n /\ n \in Nat /\ Len(more) = n + 1 /\ more[n + 1] = k
      /\ \A i \in 1..n : more[i] = s[i]
  BY <1>1, OnceAppend
<1>3. n + 1 \in 1..(n + 1) /\ \A i \in 1..n : i \in 1..(n + 1)
  BY <1>2
<1>4. ASSUME NEW m \in 1..n, TooBig(s, m) PROVE TooBig(more, m)
  <2>1. \A i \in 1..m : i \in 1..n
    BY <1>2
  <2>2. PICK a, b : a = SubSeq(s, 1, m) /\ b = SubSeq(more, 1, m)
    OBVIOUS
  <2>3. m \in Nat /\ m <= n /\ m <= n + 1
    BY <1>2
  <2>4. /\ a \in Seq(Keys) /\ Len(a) = m /\ \A i \in 1..m : a[i] = s[i]
        /\ b \in Seq(Keys) /\ Len(b) = m /\ \A i \in 1..m : b[i] = more[i]
    BY <1>1, <1>2, <2>2, <2>3
  <2>5. a = b
    <3>1. \A i \in 1..m : a[i] = b[i]
      BY <1>2, <2>1, <2>4
    <3> QED
      BY <2>4, <3>1, SeqEqual
  <2>6. \A i \in 1..m : more[i] = s[i]
    BY <1>2, <2>1
  <2> QED
    BY <1>4, <2>2, <2>5, <2>6, Zenon DEF TooBig
<1>5. SubSeq(more, 1, n + 1) = more /\ SubSeq(s, 1, n) = s
  BY <1>1, <1>2
<1>6. ASSUME Size[k] = Unsafe PROVE TooBig(more, n + 1)
  BY <1>2, <1>3, <1>6 DEF TooBig
<1>7. ASSUME s \in Seq(Safe), k \in Safe, Bytes(s) + Size[k] > Budget PROVE TooBig(more, n + 1)
  <2>1. Bytes(more) = Bytes(s) + Size[k]
    BY <1>7, BytesAppend DEF Longer
  <2>2. Bytes(more) > Budget
    BY <1>7, <2>1
  <2> QED
    BY <1>5, <2>2, Zenon DEF TooBig
<1>8. ASSUME TooBig(s, n) PROVE TooBig(more, n + 1)
  <2>1. CASE \E i \in 1..n : Size[s[i]] = Unsafe
    <3>1. \E i \in 1..(n + 1) : Size[more[i]] = Unsafe
      BY <1>2, <1>3, <2>1
    <3> QED
      BY <3>1 DEF TooBig
  <2>2. CASE ~(\E i \in 1..n : Size[s[i]] = Unsafe)
    <3>1. s \in Seq(Safe)
      <4>1. \A i \in 1..n : s[i] \in Safe
        BY <1>1, <1>2, <2>2 DEF Safe
      <4>2. s = [i \in 1..n |-> s[i]]
        BY <1>1, <1>2
      <4> QED
        BY <1>2, <4>1, <4>2
    <3>2. Bytes(s) > Budget
      BY <1>5, <1>8, <2>2, Zenon DEF TooBig
    <3>3. CASE Size[k] = Unsafe
      BY <1>6, <3>3
    <3>4. CASE Size[k] # Unsafe
      <4>1. k \in Safe /\ Size[k] \in Nat /\ Bytes(s) \in Nat /\ Budget \in Nat
        <5>1. k \in Safe
          BY <3>4 DEF Safe
        <5> QED
          BY <3>1, <5>1, SafeSizes, BytesAppend, VisionAssumption
      <4>2. Bytes(s) + Size[k] > Budget
        BY <3>2, <4>1
      <4> QED
        BY <1>7, <3>1, <4>1, <4>2
    <3> QED
      BY <3>3, <3>4
  <2> QED
    BY <2>1, <2>2
<1> QED
  BY <1>1, <1>2, <1>4, <1>6, <1>7, <1>8

(* The protected prefix is the longest beginning that fits and is all      *)
(* selected.                                                               *)
LEMMA PrefixCovered ==
  ASSUME NEW keys \in Seq(Keys)
  PROVE  Covered(PrefixScan(keys), keys, Greedy(keys, {}, 0))
<1> DEFINE T == {s \in Seq(Keys) : Covered(PrefixScan(s), s, Greedy(s, {}, 0))}
<1>0. 0 \in Nat /\ Budget \in Nat
  BY VisionAssumption
<1>1. <<>> \in T
  <2>1. PICK p, r : p = PrefixScan(<<>>) /\ r = Greedy(<<>>, {}, 0)
    OBVIOUS
  <2>2. <<>> \in Seq(Keys) /\ <<>> \in Seq(Safe) /\ DOMAIN <<>> = {} /\ Len(<<>>) = 0 /\ 1..0 = {}
    OBVIOUS
  <2>3. p = [n |-> 0, used |-> 0, open |-> TRUE]
    <3>1. FoldsTo(Scans, [n |-> 0, used |-> 0, open |-> TRUE], Advances, <<>>, p)
      BY <2>1, <2>2, PrefixRuns
    <3> QED
      BY <3>1, FoldEmpty
  <2>4. r = [kept |-> <<>>, used |-> 0]
    <3>1. FoldsTo(Selections, [kept |-> <<>>, used |-> 0], Selects({}), <<>>, r)
      BY <1>0, <2>1, <2>2, GreedyRuns
    <3> QED
      BY <3>1, FoldEmpty
  <2>5. Bytes(<<>>) = 0
    BY BytesEmpty
  <2>6. p \in Scans /\ p.n = 0 /\ p.used = 0 /\ p.open = TRUE
    BY <2>3 DEF Scans
  <2>7. r \in Selections /\ r.kept = <<>> /\ r.used = 0
    BY <2>2, <2>4 DEF Selections
  <2>8. Covered(p, <<>>, r)
    BY <2>2, <2>5, <2>6, <2>7 DEF Covered
  <2> QED
    BY <2>1, <2>2, <2>8
<1>2. \A s \in Seq(Keys), k \in Keys : s \in T => Append(s, k) \in T
  <2> SUFFICES ASSUME NEW s \in Seq(Keys), NEW k \in Keys, s \in T PROVE Append(s, k) \in T
    OBVIOUS
  <2>1. PICK p, r, more, q, w :
          /\ p = PrefixScan(s) /\ r = Greedy(s, {}, 0) /\ more = Append(s, k)
          /\ q = PrefixScan(more) /\ w = Greedy(more, {}, 0)
    OBVIOUS
  <2>2. Covered(p, s, r)
    BY <2>1
  <2> HIDE DEF T
  <2>3. q = Extends(p, k) /\ w = Chooses(r, k, {})
    BY <1>0, <2>1, PrefixAppend, GreedyAppend
  <2>4. Longer(more, s, k)
    BY <2>1 DEF Longer
  <2>5. PICK n : n = Len(s)
    OBVIOUS
  <2>6. /\ more \in Seq(Keys) /\ DOMAIN s = 1..n /\ n \in Nat
        /\ DOMAIN more = 1..(n + 1) /\ Len(more) = n + 1 /\ more[n + 1] = k
        /\ \A i \in 1..n : more[i] = s[i]
    BY <2>4, <2>5, OnceAppend
  <2>7. /\ p \in Scans /\ p.n <= n /\ r \in Selections
        /\ p.open => p.n = n /\ s \in Seq(Safe) /\ p.used = Bytes(s) /\ r.kept = s /\ r.used = p.used
        /\ ~p.open => TooBig(s, n)
        /\ \A i \in 1..p.n : \E j \in DOMAIN r.kept : r.kept[j] = s[i]
        /\ \A m \in DOMAIN s : m > p.n => TooBig(s, m)
    BY <2>2, <2>5 DEF Covered
  <2>8. /\ \A m \in DOMAIN s : TooBig(s, m) => TooBig(more, m)
        /\ TooBig(s, n) => TooBig(more, n + 1)
        /\ Size[k] = Unsafe => TooBig(more, n + 1)
        /\ s \in Seq(Safe) /\ k \in Safe /\ Bytes(s) + Size[k] > Budget => TooBig(more, n + 1)
    BY <2>4, <2>5, TooBigLonger
  <2>9. w \in Selections /\ q \in Scans /\ p.n \in Nat /\ p.used \in Nat /\ p.open \in BOOLEAN
        /\ r.kept \in Seq(Safe)
    BY <2>3, <2>7, ChoosesType, ExtendsType DEF Scans, Selections
  <2>10. ASSUME p.open, Fits(k, p.used) PROVE Covered(q, more, w)
    <3>1. q = [n |-> p.n + 1, used |-> p.used + Size[k], open |-> TRUE]
      BY <2>3, <2>10, Zenon DEF Extends
    <3>2. q.n = n + 1 /\ q.used = Bytes(s) + Size[k] /\ q.open = TRUE
      BY <2>7, <2>10, <3>1
    <3>3. k \in Safe
      BY <2>10 DEF Fits, Safe
    <3>4. w = [kept |-> Append(r.kept, k), used |-> r.used + Size[k]]
      BY <2>3, <2>7, <2>10, Zenon DEF Chooses
    <3>5. w.kept = more /\ w.used = q.used
      BY <2>1, <2>7, <2>10, <3>2, <3>4
    <3>6. more \in Seq(Safe) /\ Bytes(more) = Bytes(s) + Size[k]
      BY <2>1, <2>7, <2>10, <3>3, BytesAppend
    <3>7. \A i \in 1..(n + 1) : \E j \in DOMAIN w.kept : w.kept[j] = more[i]
      BY <2>6, <3>5
    <3>8. \A m \in DOMAIN more : ~(m > n + 1)
      BY <2>6
    <3> QED
      BY <2>6, <2>9, <3>2, <3>5, <3>6, <3>7, <3>8 DEF Covered
  <2>11. ASSUME ~(p.open /\ Fits(k, p.used)) PROVE Covered(q, more, w)
    <3>1. q = [p EXCEPT !.open = FALSE]
      BY <2>3, <2>11, Zenon DEF Extends
    <3>2. q.n = p.n /\ q.open = FALSE
      BY <2>7, <3>1 DEF Scans
    <3>3. \A j \in DOMAIN r.kept : j \in DOMAIN w.kept /\ w.kept[j] = r.kept[j]
      <4>1. CASE k \notin {} /\ Fits(k, r.used)
        <5>1. PICK kept : kept = Append(r.kept, k)
          OBVIOUS
        <5>2. w.kept = kept
          BY <2>3, <4>1, <5>1 DEF Chooses
        <5>3. k \in Safe
          BY <4>1 DEF Fits, Safe
        <5>4. PICK m : m = Len(r.kept)
          OBVIOUS
        <5>5. /\ DOMAIN r.kept = 1..m /\ m \in Nat /\ DOMAIN kept = 1..(m + 1)
              /\ \A i \in 1..m : kept[i] = r.kept[i]
          <6>1. Longer(kept, r.kept, k)
            BY <5>1 DEF Longer
          <6> QED
            BY <2>9, <5>3, <5>4, <6>1, OnceAppend
        <5>6. \A i \in 1..m : i \in 1..(m + 1)
          BY <5>5
        <5> QED
          BY <5>2, <5>5, <5>6
      <4>2. CASE ~(k \notin {} /\ Fits(k, r.used))
        <5>1. w = r
          BY <2>3, <4>2, Zenon DEF Chooses
        <5> QED
          BY <5>1
      <4> QED
        BY <4>1, <4>2, Zenon
    <3>4. \A i \in 1..p.n : \E j \in DOMAIN w.kept : w.kept[j] = more[i]
      <4> SUFFICES ASSUME NEW i \in 1..p.n PROVE \E j \in DOMAIN w.kept : w.kept[j] = more[i]
        OBVIOUS
      <4>1. i \in 1..n /\ more[i] = s[i]
        BY <2>6, <2>7, <2>9
      <4>2. PICK j \in DOMAIN r.kept : r.kept[j] = s[i]
        BY <2>7
      <4> QED
        BY <3>3, <4>1, <4>2
    <3>5. TooBig(more, n + 1)
      <4>1. CASE ~p.open
        BY <2>7, <2>8, <4>1
      <4>2. CASE p.open
        <5>1. ~Fits(k, p.used) /\ s \in Seq(Safe) /\ p.used = Bytes(s)
          BY <2>7, <2>11, <4>2
        <5>2. CASE Size[k] = Unsafe
          BY <2>8, <5>2
        <5>3. CASE Size[k] # Unsafe
          <6>1. k \in Safe
            BY <5>3 DEF Safe
          <6>2. Size[k] \in Nat /\ Bytes(s) \in Nat
            BY <5>1, <6>1, <2>9, SafeSizes
          <6>3. Bytes(s) + Size[k] > Budget
            BY <1>0, <5>1, <5>3, <6>2 DEF Fits
          <6> QED
            BY <2>8, <5>1, <6>1, <6>3
        <5> QED
          BY <5>2, <5>3
      <4> QED
        BY <4>1, <4>2
    <3>6. \A m \in DOMAIN more : m > p.n => TooBig(more, m)
      <4> SUFFICES ASSUME NEW m \in DOMAIN more, m > p.n PROVE TooBig(more, m)
        OBVIOUS
      <4>1. CASE m \in 1..n
        BY <2>6, <2>7, <2>8, <4>1
      <4>2. CASE m = n + 1
        BY <3>5, <4>2
      <4> QED
        BY <2>6, <4>1, <4>2
    <3>7. p.n <= n + 1
      BY <2>6, <2>7, <2>9
    <3> QED
      BY <2>6, <2>9, <3>2, <3>4, <3>5, <3>6, <3>7 DEF Covered
  <2>12. Covered(q, more, w)
    BY <2>10, <2>11, Zenon
  <2>13. more \in T
    BY <2>1, <2>6, <2>12 DEF T
  <2> QED
    BY <2>1, <2>13
<1> HIDE DEF T
<1>3. keys \in T
  BY <1>1, <1>2, SeqInduction
<1> QED
  BY <1>3 DEF T

(* The places of a thread that is inside the transaction.                  *)
InTransaction(t) == th[t].pc \in {"resolving", "guarded", "refused"}

(* The states of a thread.                                                 *)
ThreadType == [pc : Places, keys : Requests \cup {<<>>}, resolved : [Keys -> Nat],
               cancelled : BOOLEAN]

(* The types that the argument uses.                                       *)
VisionTypes ==
    /\ emb \in [Keys -> Nat]
    /\ th \in [Threads -> ThreadType]
    /\ made \in Nat

(* The transaction lock has one holder, and who is inside holds it.        *)
VisionLock == \A t \in Threads : InTransaction(t) => holder = t

(* Whoever passed the guard has not been cancelled since.                  *)
VisionGuard == \A t \in Threads : th[t].pc = "guarded" => ~th[t].cancelled

(* The inductive invariant of the transactions.                            *)
TransactionInv == VisionTypes /\ VisionLock /\ VisionGuard /\ SnapshotIsCurrent

(* The inductive invariant holds initially: nobody is inside.              *)
LEMMA VisionInit == CacheInit => TransactionInv
<1> SUFFICES ASSUME CacheInit PROVE TransactionInv
  OBVIOUS
<1>1. VisionTypes
  BY DEF CacheInit, VisionTypes, ThreadType, IdleThread, Places
<1>2. \A t \in Threads : th[t].pc = "idle"
  BY DEF CacheInit, IdleThread
<1> QED
  BY <1>1, <1>2 DEF TransactionInv, VisionLock, VisionGuard, SnapshotIsCurrent, InTransaction

(* Steps that leave the cache alone and move one thread that is outside.   *)
LEMMA OutsideStep ==
  ASSUME TransactionInv, NEW t \in Threads, th' = [th EXCEPT ![t] = th'[t]],
         th'[t] \in ThreadType, th'[t].pc \in {"idle", "waiting", "leaving"},
         emb' = emb, made' = made, holder' = holder
  PROVE  TransactionInv'
<1>1. VisionTypes'
  BY DEF TransactionInv, VisionTypes
<1>2. \A r \in Threads : r # t => th'[r] = th[r]
  BY DEF TransactionInv, VisionTypes
<1>3. ~InTransaction(t)'
  BY DEF InTransaction
<1>4. VisionLock'
  BY <1>2, <1>3 DEF TransactionInv, VisionLock, InTransaction
<1>5. VisionGuard'
  BY <1>2 DEF TransactionInv, VisionGuard
<1>6. SnapshotIsCurrent'
  BY <1>2, <1>3 DEF TransactionInv, SnapshotIsCurrent, InTransaction, Asked
<1> QED
  BY <1>1, <1>4, <1>5, <1>6 DEF TransactionInv

(* A thread that ends its transaction, whatever it did to the cache.       *)
LEMMA LeavingStep ==
  ASSUME TransactionInv, NEW t \in Threads, InTransaction(t),
         th' = [th EXCEPT ![t].pc = "leaving"],
         emb' \in [Keys -> Nat], made' = made, holder' = Nobody
  PROVE  TransactionInv'
<1>1. /\ th'[t] = [th[t] EXCEPT !.pc = "leaving"]
      /\ \A r \in Threads : r # t => th'[r] = th[r]
  BY DEF TransactionInv, VisionTypes
<1>2. VisionTypes'
  BY <1>1, ZenonT(60) DEF TransactionInv, VisionTypes, ThreadType, Places
<1>3. \A r \in Threads : ~InTransaction(r)'
  BY <1>1 DEF TransactionInv, VisionTypes, VisionLock, InTransaction, ThreadType
<1>4. VisionGuard'
  BY <1>3 DEF VisionGuard, InTransaction
<1> QED
  BY <1>2, <1>3, <1>4 DEF TransactionInv, VisionLock, SnapshotIsCurrent, InTransaction

(* Every step preserves the inductive invariant.                           *)
LEMMA TransactionStep ==
  TransactionInv /\ [CacheNext]_cacheVars => TransactionInv'
<1> SUFFICES ASSUME TransactionInv, [CacheNext]_cacheVars PROVE TransactionInv'
  OBVIOUS
<1> USE DEF TransactionInv
<1>1. ASSUME NEW t \in Threads, NEW keys \in Requests, RenderBegins(t, keys)
      PROVE  TransactionInv'
  <2>1. th'[t] = [IdleThread EXCEPT !.pc = "waiting", !.keys = keys] /\ th'[t].pc = "waiting"
    BY <1>1 DEF RenderBegins, VisionTypes, IdleThread
  <2>2. th'[t] \in ThreadType
    <3>1. [k \in Keys |-> 0] \in [Keys -> Nat]
      OBVIOUS
    <3>2. th'[t] = [pc |-> "waiting", keys |-> keys, resolved |-> [k \in Keys |-> 0], cancelled |-> FALSE]
      BY <2>1 DEF IdleThread
    <3> HIDE DEF TransactionInv
    <3> QED
      BY <3>1, <3>2 DEF ThreadType, Places
  <2> QED
    BY <1>1, <2>1, <2>2, OutsideStep DEF RenderBegins, cache
<1>2. ASSUME NEW t \in Threads, SnapshotRequest(t) PROVE TransactionInv'
  <2> DEFINE got == [k \in Keys |-> IF k \in Asked(t) THEN emb[k] ELSE 0]
  <2>1. /\ th'[t] = [th[t] EXCEPT !.pc = "resolving", !.resolved = got]
        /\ \A r \in Threads : r # t => th'[r] = th[r]
        /\ emb' = emb /\ made' = made /\ holder' = t /\ holder = Nobody
    BY <1>2 DEF SnapshotRequest, VisionTypes, cache
  <2>2. \A r \in Threads : ~InTransaction(r)
    BY <2>1, VisionAssumption DEF VisionLock
  <2>3. th'[t].pc = "resolving" /\ th'[t].resolved = got /\ th'[t].keys = th[t].keys
    BY <2>1 DEF VisionTypes, ThreadType
  <2>4. VisionTypes'
    <3>1. got \in [Keys -> Nat]
      BY DEF VisionTypes
    <3>2. th'[t] \in ThreadType
      BY <2>1, <3>1 DEF VisionTypes, ThreadType, Places
    <3> QED
      BY <1>2, <2>1, <3>2 DEF VisionTypes, SnapshotRequest
  <2>5. \A r \in Threads : r # t => ~InTransaction(r)'
    BY <2>1, <2>2 DEF InTransaction
  <2>6. VisionLock'
    BY <2>1, <2>5 DEF VisionLock
  <2>7. VisionGuard'
    BY <2>3, <2>5 DEF VisionGuard, InTransaction
  <2>8. Asked(t)' = Asked(t)
    BY <2>3 DEF Asked
  <2>9. SnapshotIsCurrent'
    <3> SUFFICES ASSUME NEW r \in Threads, InTransaction(r)', NEW k \in Keys,
                        emb'[k] # 0, k \in Asked(r)'
                 PROVE  th'[r].resolved[k] = emb'[k]
      BY DEF SnapshotIsCurrent, InTransaction
    <3>1. r = t
      BY <2>5
    <3> QED
      BY <2>1, <2>3, <2>8, <3>1
  <2> QED
    BY <2>4, <2>6, <2>7, <2>9
<1>3. ASSUME NEW t \in Threads, NEW k \in Keys, Resolve(t, k) PROVE TransactionInv'
  <2>1. PICK i \in DOMAIN th[t].keys : th[t].keys[i] = k /\ th[t].resolved[k] = 0
    BY <1>3 DEF Resolve
  <2>2. k \in Asked(t) /\ th[t].pc = "resolving"
    BY <1>3, <2>1 DEF Asked, Resolve
  <2>3. emb[k] = 0
    BY <2>1, <2>2 DEF SnapshotIsCurrent, VisionTypes
  <2>4. /\ th'[t] = [th[t] EXCEPT !.resolved[k] = made + 1]
        /\ \A r \in Threads : r # t => th'[r] = th[r]
        /\ emb' = emb /\ made' = made + 1 /\ holder' = holder
    BY <1>3 DEF Resolve, VisionTypes, cache
  <2>5. /\ th'[t].pc = "resolving" /\ th'[t].keys = th[t].keys
        /\ th'[t].cancelled = th[t].cancelled
        /\ th'[t].resolved = [th[t].resolved EXCEPT ![k] = made + 1]
    BY <2>2, <2>4 DEF VisionTypes, ThreadType
  <2>6. VisionTypes'
    <3>1. [th[t].resolved EXCEPT ![k] = made + 1] \in [Keys -> Nat]
      BY DEF VisionTypes, ThreadType
    <3>2. th'[t] \in ThreadType
      BY <2>4, <3>1 DEF VisionTypes, ThreadType
    <3> QED
      BY <1>3, <2>4, <3>2 DEF VisionTypes, Resolve
  <2>7. VisionLock' /\ VisionGuard'
    BY <2>2, <2>4, <2>5 DEF VisionLock, VisionGuard, InTransaction
  <2>8. SnapshotIsCurrent'
    <3> SUFFICES ASSUME NEW r \in Threads, InTransaction(r)', NEW q \in Keys,
                        emb'[q] # 0, q \in Asked(r)'
                 PROVE  th'[r].resolved[q] = emb'[q]
      BY DEF SnapshotIsCurrent, InTransaction
    <3>1. Asked(r)' = Asked(r) /\ InTransaction(r)
      <4>1. th'[r].keys = th[r].keys /\ th'[r].pc = th[r].pc
        BY <2>2, <2>4, <2>5
      <4> QED
        BY <4>1 DEF Asked, InTransaction
    <3>2. q # k \/ r # t
      BY <2>3, <2>4
    <3>3. th[r].resolved[q] = emb[q]
      BY <2>4, <3>1 DEF SnapshotIsCurrent, InTransaction
    <3> QED
      BY <2>4, <2>5, <3>2, <3>3 DEF VisionTypes, ThreadType
  <2> QED
    BY <2>6, <2>7, <2>8
<1>4. ASSUME NEW t \in Threads, RenderFails(t) PROVE TransactionInv'
  <2>1. InTransaction(t) /\ emb' \in [Keys -> Nat]
    BY <1>4 DEF RenderFails, InTransaction, VisionTypes, cache
  <2> QED
    BY <1>4, <2>1, LeavingStep DEF RenderFails
<1>5. ASSUME NEW t \in Threads, CommitGuard(t) PROVE TransactionInv'
  <2>1. /\ th'[t] = [th[t] EXCEPT !.pc = IF th[t].cancelled THEN "refused" ELSE "guarded"]
        /\ \A r \in Threads : r # t => th'[r] = th[r]
        /\ emb' = emb /\ made' = made /\ holder' = holder /\ th[t].pc = "resolving"
    BY <1>5 DEF CommitGuard, VisionTypes, cache
  <2>2. /\ th'[t].pc = IF th[t].cancelled THEN "refused" ELSE "guarded"
        /\ th'[t].keys = th[t].keys /\ th'[t].resolved = th[t].resolved
        /\ th'[t].cancelled = th[t].cancelled
    BY <2>1 DEF VisionTypes, ThreadType
  <2>3. VisionTypes'
    <3>1. th'[t] \in ThreadType
      BY <2>1 DEF VisionTypes, ThreadType, Places
    <3> QED
      BY <1>5, <2>1, <3>1 DEF VisionTypes, CommitGuard
  <2>4. VisionLock'
    BY <2>1 DEF VisionLock, InTransaction
  <2>5. VisionGuard'
    BY <2>1, <2>2 DEF VisionGuard
  <2>6. \A r \in Threads : Asked(r)' = Asked(r) /\ th'[r].resolved = th[r].resolved
    <3>1. \A r \in Threads : th'[r].keys = th[r].keys /\ th'[r].resolved = th[r].resolved
      BY <2>1, <2>2
    <3> QED
      BY <3>1 DEF Asked
  <2>7. \A r \in Threads : InTransaction(r)' => InTransaction(r)
    BY <2>1 DEF InTransaction
  <2>8. SnapshotIsCurrent'
    BY <2>1, <2>6, <2>7 DEF SnapshotIsCurrent, InTransaction
  <2> QED
    BY <2>3, <2>4, <2>5, <2>8
<1>6. ASSUME NEW t \in Threads, Commit(t) PROVE TransactionInv'
  <2>1. InTransaction(t)
    BY <1>6 DEF Commit, InTransaction
  <2>2. emb' \in [Keys -> Nat]
    <3>1. CASE th[t].pc = "guarded"
      <4>1. th[t].resolved \in [Keys -> Nat]
        BY DEF VisionTypes, ThreadType
      <4>2. CommitRequest(t)
        BY <1>6, <3>1 DEF Commit
      <4>3. PICK A, B : emb' = [k \in Keys |-> IF k \in A THEN th[t].resolved[k]
                                              ELSE IF k \in B THEN emb[k] ELSE 0]
        BY <4>2 DEF CommitRequest
      <4> QED
        BY <4>1, <4>3 DEF VisionTypes
    <3>2. CASE th[t].pc = "refused"
      BY <1>6, <3>2 DEF Commit, cache, VisionTypes
    <3> QED
      BY <1>6, <3>1, <3>2 DEF Commit
  <2> QED
    BY <1>6, <2>1, <2>2, LeavingStep DEF Commit
<1>7. ASSUME NEW t \in Threads, Cancel(t) PROVE TransactionInv'
  <2>1. /\ th'[t] = [th[t] EXCEPT !.cancelled = TRUE]
        /\ \A r \in Threads : r # t => th'[r] = th[r]
        /\ emb' = emb /\ made' = made /\ holder' = holder
        /\ th[t].pc \in {"waiting", "resolving", "leaving"}
    BY <1>7 DEF Cancel, VisionTypes, cache
  <2>2. /\ th'[t].pc = th[t].pc /\ th'[t].keys = th[t].keys
        /\ th'[t].resolved = th[t].resolved
    BY <2>1 DEF VisionTypes, ThreadType
  <2>3. VisionTypes'
    <3>1. th'[t] \in ThreadType
      BY <2>1 DEF VisionTypes, ThreadType
    <3> QED
      BY <1>7, <2>1, <3>1 DEF VisionTypes, Cancel
  <2>4. \A r \in Threads : /\ Asked(r)' = Asked(r) /\ th'[r].resolved = th[r].resolved
                           /\ th'[r].pc = th[r].pc
    <3>1. \A r \in Threads : /\ th'[r].keys = th[r].keys /\ th'[r].resolved = th[r].resolved
                             /\ th'[r].pc = th[r].pc
      BY <2>1, <2>2
    <3> QED
      BY <3>1 DEF Asked
  <2>5. VisionLock' /\ SnapshotIsCurrent'
    BY <2>1, <2>4 DEF VisionLock, SnapshotIsCurrent, InTransaction
  <2>6. VisionGuard'
    BY <2>1, <2>2 DEF VisionGuard
  <2> QED
    BY <2>3, <2>5, <2>6
<1>8. ASSUME NEW t \in Threads, RenderEnds(t) PROVE TransactionInv'
  <2>1. th'[t] = IdleThread /\ IdleThread \in ThreadType /\ IdleThread.pc = "idle"
    BY <1>8 DEF RenderEnds, VisionTypes, IdleThread, ThreadType, Places
  <2> QED
    BY <1>8, <2>1, OutsideStep DEF RenderEnds, cache
<1>9. ASSUME Clear PROVE TransactionInv'
  <2>1. th' = th /\ made' = made /\ emb' \in [Keys -> Nat] /\ \A r \in Threads : th[r].pc = "idle"
    BY <1>9 DEF Clear
  <2> QED
    BY <2>1 DEF VisionTypes, VisionLock, VisionGuard, SnapshotIsCurrent, InTransaction
<1>10. ASSUME UNCHANGED cacheVars PROVE TransactionInv'
  BY <1>10 DEF cacheVars, cache, VisionTypes, VisionLock, VisionGuard, SnapshotIsCurrent, InTransaction, Asked
<1> QED
  BY <1>1, <1>2, <1>3, <1>4, <1>5, <1>6, <1>7, <1>8, <1>9, <1>10 DEF CacheNext, Works


(* Induction over the behaviour.                                           *)
LEMMA TransactionInvariance ==
  CacheSpec => []TransactionInv
<1>1. TransactionInv /\ [CacheNext]_cacheVars => TransactionInv'
  BY TransactionStep
<1> QED
  BY VisionInit, <1>1, PTL DEF CacheSpec

(* No transaction ever works on embeddings another thread has replaced:    *)
(* whatever the number of lanes, images and renders, the embedding that    *)
(* goes into a prompt is the one the cache holds for that image            *)
(* (vision_transaction_lock in the renderer).                              *)
THEOREM SnapshotCorrect ==
  CacheSpec => []SnapshotIsCurrent
<1>1. TransactionInv => SnapshotIsCurrent
  BY DEF TransactionInv
<1> QED
  BY <1>1, TransactionInvariance, PTL

(* A render that was cancelled never publishes in the cache afterwards,    *)
(* for every interleaving of set() with the commit (commit_guard).         *)
THEOREM PublicationCorrect ==
  CacheSpec => NoPublishAfterCancel
<1>1. TransactionInv /\ [CacheNext]_cacheVars =>
        [\A t \in Threads : th[t].pc = "guarded" /\ th'[t].pc = "leaving" => ~th[t].cancelled]_cacheVars
  BY DEF TransactionInv, VisionGuard
<1> QED
  BY <1>1, TransactionInvariance, PTL DEF CacheSpec, NoPublishAfterCancel

-----------------------------------------------------------------------------
(* x is among the elements of q.                                           *)
Has(q, x) == \E i \in DOMAIN q : q[i] = x

(* A request names images, each of them once.                              *)
LEMMA RequestOnce ==
  ASSUME NEW q \in Requests \cup {<<>>}
  PROVE  q \in Seq(Keys) /\ Once(q)
<1>1. CASE q = <<>>
  <2>1. <<>> \in Seq(Keys) /\ DOMAIN <<>> = {}
    OBVIOUS
  <2> QED
    BY <1>1, <2>1 DEF Once
<1>2. CASE q \in Requests
  <2>1. /\ q \in UNION {[1..n -> Keys] : n \in 1..Cardinality(Keys)}
        /\ \A i, j \in DOMAIN q : q[i] = q[j] => i = j
    BY <1>2, Zenon DEF Requests
  <2>2. PICK n \in 1..Cardinality(Keys) : q \in [1..n -> Keys]
    BY <2>1
  <2>3. n \in Nat
    BY <2>2
  <2> QED
    BY <2>1, <2>2, <2>3 DEF Once
<1> QED
  BY <1>1, <1>2

(* A sequence read backwards has the same elements, as often.              *)
LEMMA OnceReverse ==
  ASSUME NEW X, NEW s \in Seq(X), Once(s), NEW r, r = Reverse(s)
  PROVE  r \in Seq(X) /\ Once(r) /\ \A x : Has(r, x) <=> Has(s, x)
<1>1. /\ r \in Seq(X) /\ Len(r) = Len(s)
      /\ \A i \in 1..Len(s) : r[i] = s[Len(s) - i + 1] /\ Len(s) - i + 1 \in 1..Len(s)
  BY ReverseType
<1>2. PICK n \in Nat : n = Len(s)
  OBVIOUS
<1>3. DOMAIN r = 1..n /\ DOMAIN s = 1..n
  BY <1>1, <1>2
<1>4. Once(r)
  <2> SUFFICES ASSUME NEW i \in 1..n, NEW j \in 1..n, r[i] = r[j] PROVE i = j
    BY <1>3 DEF Once
  <2>1. s[n - i + 1] = s[n - j + 1] /\ n - i + 1 \in 1..n /\ n - j + 1 \in 1..n
    BY <1>1, <1>2
  <2>2. n - i + 1 = n - j + 1
    BY <1>3, <2>1 DEF Once
  <2> QED
    BY <2>2
<1>5. ASSUME NEW x, NEW i \in 1..n, r[i] = x PROVE Has(s, x)
  <2>1. s[n - i + 1] = x /\ n - i + 1 \in DOMAIN s
    BY <1>1, <1>2, <1>3, <1>5
  <2> QED
    BY <2>1 DEF Has
<1>6. ASSUME NEW x, NEW i \in 1..n, s[i] = x PROVE Has(r, x)
  <2>1. n - i + 1 \in 1..n /\ n - (n - i + 1) + 1 = i
    OBVIOUS
  <2>2. PICK j \in 1..n : j = n - i + 1
    BY <2>1
  <2>3. r[j] = s[n - j + 1] /\ n - j + 1 = i
    BY <1>1, <1>2, <2>1, <2>2
  <2>4. r[j] = x /\ j \in DOMAIN r
    BY <1>3, <1>6, <2>2, <2>3
  <2> QED
    BY <2>4 DEF Has
<1> QED
  BY <1>1, <1>3, <1>4, <1>5, <1>6 DEF Has

(* Two sequences with different elements, one after the other.             *)
LEMMA OnceConcat ==
  ASSUME NEW X, NEW p \in Seq(X), NEW q \in Seq(X), Once(p), Once(q),
         \A x : ~(Has(p, x) /\ Has(q, x)), NEW s, s = p \o q
  PROVE  s \in Seq(X) /\ Once(s) /\ \A x : Has(s, x) <=> Has(p, x) \/ Has(q, x)
<1>1. s \in Seq(X) /\ Len(s) = Len(p) + Len(q)
  OBVIOUS
<1>2. PICK m \in Nat, n \in Nat : m = Len(p) /\ n = Len(q)
  OBVIOUS
<1>3. DOMAIN s = 1..(m + n) /\ DOMAIN p = 1..m /\ DOMAIN q = 1..n
  BY <1>1, <1>2
<1>4. /\ \A i \in 1..m : s[i] = p[i]
      /\ \A i \in (m + 1)..(m + n) : s[i] = q[i - m] /\ i - m \in 1..n
      /\ \A i \in 1..n : s[i + m] = q[i] /\ i + m \in 1..(m + n)
  BY <1>2
<1>5. \A i \in 1..(m + n) : i \in 1..m \/ i \in (m + 1)..(m + n)
  OBVIOUS
<1>6. \A i \in 1..m, j \in 1..n : p[i] # q[j]
  BY <1>3 DEF Has
<1>7. Once(s)
  <2> SUFFICES ASSUME NEW i \in 1..(m + n), NEW j \in 1..(m + n), s[i] = s[j] PROVE i = j
    BY <1>3 DEF Once
  <2>1. CASE i \in 1..m /\ j \in 1..m
    <3>1. p[i] = p[j]
      BY <1>4, <2>1
    <3> QED
      BY <1>3, <2>1, <3>1 DEF Once
  <2>2. CASE i \in (m + 1)..(m + n) /\ j \in (m + 1)..(m + n)
    <3>1. q[i - m] = q[j - m] /\ i - m \in 1..n /\ j - m \in 1..n
      BY <1>4, <2>2
    <3>2. i - m = j - m
      BY <1>3, <3>1 DEF Once
    <3> QED
      BY <2>2, <3>2
  <2>3. CASE i \in 1..m /\ j \in (m + 1)..(m + n)
    <3>1. p[i] = q[j - m] /\ j - m \in 1..n
      BY <1>4, <2>3
    <3> QED
      BY <1>6, <2>3, <3>1
  <2>4. CASE i \in (m + 1)..(m + n) /\ j \in 1..m
    <3>1. p[j] = q[i - m] /\ i - m \in 1..n
      BY <1>4, <2>4
    <3> QED
      BY <1>6, <2>4, <3>1
  <2> QED
    BY <1>5, <2>1, <2>2, <2>3, <2>4
<1>8. ASSUME NEW x, Has(s, x) PROVE Has(p, x) \/ Has(q, x)
  <2>1. PICK i \in 1..(m + n) : s[i] = x
    BY <1>3, <1>8 DEF Has
  <2>2. CASE i \in 1..m
    <3>1. p[i] = x
      BY <1>4, <2>1, <2>2
    <3> QED
      BY <1>3, <2>2, <3>1 DEF Has
  <2>3. CASE i \in (m + 1)..(m + n)
    <3>1. q[i - m] = x /\ i - m \in 1..n
      BY <1>4, <2>1, <2>3
    <3> QED
      BY <1>3, <3>1 DEF Has
  <2> QED
    BY <1>5, <2>2, <2>3
<1>9. ASSUME NEW x, Has(p, x) PROVE Has(s, x)
  <2>1. PICK i \in 1..m : p[i] = x
    BY <1>3, <1>9 DEF Has
  <2>2. i \in 1..(m + n)
    OBVIOUS
  <2>3. s[i] = x
    BY <1>4, <2>1
  <2> QED
    BY <1>3, <2>2, <2>3 DEF Has
<1>10. ASSUME NEW x, Has(q, x) PROVE Has(s, x)
  <2>1. PICK i \in 1..n : q[i] = x
    BY <1>3, <1>10 DEF Has
  <2>2. s[i + m] = x /\ i + m \in 1..(m + n)
    BY <1>4, <2>1
  <2> QED
    BY <1>3, <2>2 DEF Has
<1> QED
  BY <1>1, <1>7, <1>8, <1>9, <1>10

(* A sequence without repetitions is as long as the set of its elements.   *)
LEMMA OnceCardinality ==
  ASSUME NEW X, NEW s \in Seq(X), Once(s), NEW S, \A x : x \in S <=> Has(s, x)
  PROVE  Cardinality(S) = Len(s)
<1>1. PICK n \in Nat : n = Len(s)
  OBVIOUS
<1>2. DOMAIN s = 1..n
  BY <1>1
<1>3. s \in [1..n -> S]
  BY <1>1, <1>2 DEF Has
<1>4. s \in Bijection(1..n, S)
  <2>1. \A a, b \in 1..n : s[a] = s[b] => a = b
    BY <1>2 DEF Once
  <2>2. \A x \in S : \E a \in 1..n : s[a] = x
    BY <1>2 DEF Has
  <2> QED
    BY <1>3, <2>1, <2>2 DEF Bijection, Injection, Surjection, IsInjective
<1>5. IsFiniteSet(1..n) /\ Cardinality(1..n) = n
  BY FS_Interval
<1>6. ExistsBijection(1..n, S)
  BY <1>4 DEF ExistsBijection
<1>7. Cardinality(1..n) = Cardinality(S)
  BY <1>5, <1>6, FS_Bijection
<1> QED
  BY <1>1, <1>5, <1>7

(* The entries: each key once, in the order of their age, those that have  *)
(* an embedding, of a size that may be kept, accounted for and in budget.  *)
OrderInv ==
    /\ order \in Seq(Safe) /\ Once(order)
    /\ \A k \in Keys : emb[k] # 0 <=> Has(order, k)
    /\ retained = Bytes(order) /\ retained <= Budget

(* The protected prefix of the last request is cached and is the longest   *)
(* beginning that fits.                                                    *)
PrefixInv ==
    /\ last.keys \in Seq(Keys) /\ last.prefix \in 0..Len(last.keys)
    /\ \A i \in 1..last.prefix : emb[last.keys[i]] # 0
    /\ \A m \in DOMAIN last.keys : m > last.prefix => TooBig(last.keys, m)

(* Whoever passed the guard has an embedding for every image.              *)
ResolvedInv ==
    \A t \in Threads : th[t].pc = "guarded" => \A k \in Asked(t) : th[t].resolved[k] # 0

(* The inductive invariant of the cache.                                   *)
CacheInv == TransactionInv /\ OrderInv /\ PrefixInv /\ ResolvedInv

(* What a selection keeps, in terms of its elements.                       *)
LEMMA SelectedHas ==
  ASSUME NEW r, NEW s, NEW skipped, NEW used, Selected(r, s, skipped, used), NEW x, Has(r.kept, x)
  PROVE  Has(s, x) /\ x \notin skipped
<1> QED
  BY DEF Selected, Among, Has

(* What a selection of distinct keys is.                                   *)
LEMMA SelectedType ==
  ASSUME NEW r, NEW s, NEW skipped, NEW used, Selected(r, s, skipped, used), Once(s)
  PROVE  r.kept \in Seq(Safe) /\ Once(r.kept) /\ r.used \in Nat
         /\ r.used = used + Bytes(r.kept) /\ r.used <= Budget
<1> QED
  BY DEF Selected, Selections

(* What commit_request leaves in the cache.                                *)
LEMMA Committed ==
  ASSUME CacheInv, NEW t \in Threads, th[t].pc = "guarded",
         CommitRequest(t)
  PROVE  OrderInv' /\ PrefixInv'
<1>1. PICK keys : keys = th[t].keys
  OBVIOUS
<1>2. keys \in Requests \cup {<<>>} /\ th[t].resolved \in [Keys -> Nat]
  BY <1>1 DEF CacheInv, TransactionInv, VisionTypes, ThreadType
<1>3. keys \in Seq(Keys) /\ Once(keys)
  BY <1>2, RequestOnce
<1>4. PICK cur : cur = Greedy(keys, {}, 0)
  OBVIOUS
<1>5. PICK rev : rev = Reverse(order)
  OBVIOUS
<1>6. PICK old : old = Greedy(rev, Range(keys), cur.used)
  OBVIOUS
<1>7. PICK back : back = Reverse(old.kept)
  OBVIOUS
<1>8. PICK new : new = back \o cur.kept
  OBVIOUS
<1>9. PICK p : p = PrefixScan(keys)
  OBVIOUS
<1>10. /\ order' = new
       /\ emb' = [k \in Keys |-> IF k \in Range(cur.kept) THEN th[t].resolved[k]
                                 ELSE IF k \in Range(old.kept) THEN emb[k] ELSE 0]
       /\ retained' = Bytes(new)
       /\ last' = [keys |-> keys, prefix |-> p.n]
  BY <1>1, <1>4, <1>5, <1>6, <1>7, <1>8, <1>9, Zenon DEF CommitRequest, RetainedCurrent, SelectedOld, ProtectedPrefix
<1>11. Budget \in Nat
  BY VisionAssumption
<1>12. Selected(cur, keys, {}, 0)
  <2>1. Selected(Greedy(keys, {}, 0), keys, {}, 0)
    BY <1>3, <1>11, GreedySelected
  <2> QED
    BY <1>4, <2>1
<1>13. cur.kept \in Seq(Safe) /\ Once(cur.kept) /\ cur.used \in Nat
       /\ cur.used = 0 + Bytes(cur.kept) /\ cur.used <= Budget
  BY <1>3, <1>12, SelectedType
<1>14. order \in Seq(Safe) /\ Once(order)
  BY DEF CacheInv, OrderInv
<1>15. rev \in Seq(Safe) /\ Once(rev) /\ \A x : Has(rev, x) <=> Has(order, x)
  BY <1>5, <1>14, OnceReverse
<1>16. Selected(old, rev, Range(keys), cur.used)
  <2>1. rev \in Seq(Keys)
    BY <1>15 DEF Safe
  <2>2. Selected(Greedy(rev, Range(keys), cur.used), rev, Range(keys), cur.used)
    BY <1>13, <2>1, GreedySelected
  <2> QED
    BY <1>6, <2>2
<1>17. old.kept \in Seq(Safe) /\ Once(old.kept) /\ old.used \in Nat
       /\ old.used = cur.used + Bytes(old.kept) /\ old.used <= Budget
  BY <1>15, <1>16, SelectedType
<1>18. back \in Seq(Safe) /\ Once(back) /\ \A x : Has(back, x) <=> Has(old.kept, x)
  BY <1>7, <1>17, OnceReverse
<1>19. \A x : x \in Range(keys) <=> Has(keys, x)
  BY Zenon DEF Range, Has
<1>20. \A x : ~(Has(back, x) /\ Has(cur.kept, x))
  <2> SUFFICES ASSUME NEW x, Has(back, x), Has(cur.kept, x) PROVE FALSE
    OBVIOUS
  <2>1. Has(old.kept, x)
    BY <1>18
  <2>2. x \notin Range(keys)
    BY <1>16, <2>1, SelectedHas
  <2>3. Has(keys, x)
    BY <1>12, SelectedHas
  <2> QED
    BY <1>19, <2>2, <2>3
<1>21. new \in Seq(Safe) /\ Once(new) /\ \A x : Has(new, x) <=> Has(back, x) \/ Has(cur.kept, x)
  <2>1. PICK kept : kept = cur.kept
    OBVIOUS
  <2>2. PICK X : X = Safe
    OBVIOUS
  <2>3. kept \in Seq(X) /\ back \in Seq(X) /\ Once(kept) /\ Once(back) /\ new = back \o kept
    BY <1>8, <1>13, <1>18, <2>1, <2>2
  <2>4. \A x : ~(Has(back, x) /\ Has(kept, x))
    BY <1>20, <2>1
  <2>5. new \in Seq(X) /\ Once(new) /\ \A x : Has(new, x) <=> Has(back, x) \/ Has(kept, x)
    BY <2>3, <2>4, OnceConcat
  <2> QED
    BY <2>1, <2>2, <2>5
<1>22. Bytes(new) = old.used
  <2>1. Bytes(back) = Bytes(old.kept)
    BY <1>7, <1>17, BytesReverse
  <2>2. /\ Bytes(back) \in Nat /\ Bytes(cur.kept) \in Nat
        /\ Bytes(back \o cur.kept) = Bytes(back) + Bytes(cur.kept)
    BY <1>13, <1>18, BytesConcat
  <2> QED
    BY <1>8, <1>13, <1>17, <2>1, <2>2
<1>23. \A k \in Keys : emb'[k] # 0 <=> Has(new, k)
  <2> SUFFICES ASSUME NEW k \in Keys PROVE emb'[k] # 0 <=> Has(new, k)
    OBVIOUS
  <2>1. /\ k \in Range(cur.kept) <=> Has(cur.kept, k)
        /\ k \in Range(old.kept) <=> Has(old.kept, k)
    BY Zenon DEF Range, Has
  <2>2. CASE Has(cur.kept, k)
    <3>1. Has(keys, k)
      BY <1>12, <2>2, SelectedHas
    <3>2. k \in Asked(t)
      BY <1>1, <3>1, Zenon DEF Asked, Has
    <3>3. th[t].resolved[k] # 0
      BY <3>2 DEF CacheInv, ResolvedInv
    <3>4. emb'[k] = th[t].resolved[k]
      BY <1>10, <2>1, <2>2
    <3> QED
      BY <1>21, <2>2, <3>3, <3>4
  <2>3. CASE ~Has(cur.kept, k) /\ Has(old.kept, k)
    <3>1. Has(rev, k)
      BY <1>16, <2>3, SelectedHas
    <3>2. emb[k] # 0
      BY <1>15, <3>1 DEF CacheInv, OrderInv
    <3>3. emb'[k] = emb[k]
      BY <1>10, <2>1, <2>3
    <3> QED
      BY <1>18, <1>21, <2>3, <3>2, <3>3
  <2>4. CASE ~Has(cur.kept, k) /\ ~Has(old.kept, k)
    <3>1. emb'[k] = 0
      BY <1>10, <2>1, <2>4
    <3> QED
      BY <1>18, <1>21, <2>4, <3>1
  <2> QED
    BY <2>2, <2>3, <2>4
<1>24. OrderInv'
  BY <1>10, <1>17, <1>21, <1>22, <1>23 DEF OrderInv
<1>25. Covered(p, keys, cur)
  BY <1>3, <1>4, <1>9, PrefixCovered
<1>26. last'.keys = keys /\ last'.prefix = p.n
  BY <1>10
<1>27. p.n \in Nat /\ p.n <= Len(keys) /\ Len(keys) \in Nat
  BY <1>3, <1>25 DEF Covered, Scans
<1>28. ASSUME NEW i \in 1..p.n PROVE emb'[keys[i]] # 0
  <2>1. Has(cur.kept, keys[i])
    BY <1>25 DEF Covered, Has
  <2>2. i \in DOMAIN keys
    BY <1>3, <1>27
  <2>3. keys[i] \in Keys
    BY <1>3, <2>2
  <2> QED
    BY <1>21, <1>23, <2>1, <2>3
<1>29. \A m \in DOMAIN keys : m > p.n => TooBig(keys, m)
  BY <1>25 DEF Covered
<1>30. PrefixInv'
  BY <1>3, <1>26, <1>27, <1>28, <1>29 DEF PrefixInv
<1> QED
  BY <1>24, <1>30

(* The cache is as it was in every other step but close().                 *)
LEMMA CacheKept ==
  ASSUME CacheInv, UNCHANGED cache
  PROVE  OrderInv' /\ PrefixInv'
<1>1. order' = order /\ emb' = emb /\ retained' = retained /\ last' = last
  BY DEF cache
<1>2. OrderInv'
  BY <1>1 DEF CacheInv, OrderInv
<1>3. PrefixInv'
  BY <1>1 DEF CacheInv, PrefixInv
<1> QED
  BY <1>2, <1>3

(* An empty cache is exact.                                                *)
LEMMA CacheEmpty ==
  ASSUME NEW o, NEW e, NEW r, NEW l,
         o = <<>>, e = [k \in Keys |-> 0], r = 0, l = [keys |-> <<>>, prefix |-> 0]
  PROVE  /\ o \in Seq(Safe) /\ Once(o) /\ \A k \in Keys : e[k] # 0 <=> Has(o, k)
         /\ r = Bytes(o) /\ r <= Budget
         /\ l.keys \in Seq(Keys) /\ l.prefix \in 0..Len(l.keys)
         /\ \A i \in 1..l.prefix : e[l.keys[i]] # 0
         /\ \A m \in DOMAIN l.keys : m > l.prefix => TooBig(l.keys, m)
<1>1. /\ <<>> \in Seq(Safe) /\ <<>> \in Seq(Keys) /\ DOMAIN <<>> = {} /\ Len(<<>>) = 0
      /\ l.keys = <<>> /\ l.prefix = 0
  OBVIOUS
<1>2. Once(o)
  BY <1>1 DEF Once
<1>3. \A k \in Keys : e[k] # 0 <=> Has(o, k)
  BY <1>1 DEF Has
<1>4. Bytes(<<>>) = 0
  BY BytesEmpty
<1>5. 0 <= Budget
  BY VisionAssumption
<1> QED
  BY <1>1, <1>2, <1>3, <1>4, <1>5

(* The inductive invariant of the cache holds initially.                   *)
LEMMA CacheStarts ==
  CacheInit => CacheInv
<1> SUFFICES ASSUME CacheInit PROVE CacheInv
  OBVIOUS
<1>1. TransactionInv
  BY VisionInit
<1>2. OrderInv /\ PrefixInv
  BY CacheEmpty DEF CacheInit, OrderInv, PrefixInv
<1>3. ResolvedInv
  BY DEF CacheInit, IdleThread, ResolvedInv
<1> QED
  BY <1>1, <1>2, <1>3 DEF CacheInv

(* A thread that changes without passing the guard.                        *)
LEMMA ResolvedKept ==
  ASSUME CacheInv, NEW t \in Threads, th'[t].pc # "guarded",
         \A r \in Threads : r # t => th'[r] = th[r]
  PROVE  ResolvedInv'
<1> QED
  BY DEF CacheInv, ResolvedInv, Asked

(* Every step preserves the inductive invariant of the cache.              *)
LEMMA CacheStep ==
  CacheInv /\ [CacheNext]_cacheVars => CacheInv'
<1> SUFFICES ASSUME CacheInv, [CacheNext]_cacheVars PROVE CacheInv'
  OBVIOUS
<1> DEFINE Kept == OrderInv' /\ PrefixInv' /\ ResolvedInv'
<1>t. th \in [Threads -> ThreadType]
  BY DEF CacheInv, TransactionInv, VisionTypes
<1>0. TransactionInv'
  BY TransactionStep DEF CacheInv
<1>1. ASSUME NEW t \in Threads, NEW keys \in Requests, RenderBegins(t, keys)
      PROVE  Kept
  <2>1. th'[t].pc = "waiting" /\ \A r \in Threads : r # t => th'[r] = th[r]
    BY <1>1, <1>t DEF RenderBegins, IdleThread
  <2> QED
    BY <1>1, <2>1, CacheKept, ResolvedKept DEF RenderBegins
<1>2. ASSUME NEW t \in Threads, SnapshotRequest(t) PROVE Kept
  <2>1. th'[t].pc = "resolving" /\ \A r \in Threads : r # t => th'[r] = th[r]
    BY <1>2, <1>t DEF SnapshotRequest, ThreadType
  <2> QED
    BY <1>2, <2>1, CacheKept, ResolvedKept DEF SnapshotRequest
<1>3. ASSUME NEW t \in Threads, NEW k \in Keys, Resolve(t, k) PROVE Kept
  <2>1. th'[t].pc = "resolving" /\ \A r \in Threads : r # t => th'[r] = th[r]
    BY <1>3, <1>t DEF Resolve, ThreadType
  <2> QED
    BY <1>3, <2>1, CacheKept, ResolvedKept DEF Resolve
<1>4. ASSUME NEW t \in Threads, RenderFails(t) PROVE Kept
  <2>1. th'[t].pc = "leaving" /\ \A r \in Threads : r # t => th'[r] = th[r]
    BY <1>4, <1>t DEF RenderFails, ThreadType
  <2> QED
    BY <1>4, <2>1, CacheKept, ResolvedKept DEF RenderFails
<1>5. ASSUME NEW t \in Threads, CommitGuard(t) PROVE Kept
  <2>1. /\ th'[t].keys = th[t].keys /\ th'[t].resolved = th[t].resolved
        /\ \A r \in Threads : r # t => th'[r] = th[r]
        /\ \A k \in Asked(t) : th[t].resolved[k] # 0
    BY <1>5, <1>t DEF CommitGuard, ThreadType
  <2>2. Asked(t)' = Asked(t)
    BY <2>1 DEF Asked
  <2>3. \A r \in Threads : r # t => Asked(r)' = Asked(r)
    BY <2>1 DEF Asked
  <2>4. ResolvedInv'
    BY <2>1, <2>2, <2>3 DEF CacheInv, ResolvedInv
  <2> QED
    BY <1>5, <2>4, CacheKept DEF CommitGuard
<1>6. ASSUME NEW t \in Threads, Commit(t) PROVE Kept
  <2>1. th'[t].pc = "leaving" /\ \A r \in Threads : r # t => th'[r] = th[r]
    BY <1>6, <1>t DEF Commit, ThreadType
  <2>2. ResolvedInv'
    BY <2>1, ResolvedKept
  <2>3. CASE th[t].pc = "guarded"
    <3>1. CommitRequest(t)
      BY <1>6, <2>3 DEF Commit
    <3> QED
      BY <2>2, <2>3, <3>1, Committed
  <2>4. CASE th[t].pc # "guarded"
    <3>1. UNCHANGED cache
      BY <1>6, <2>4 DEF Commit
    <3> QED
      BY <2>2, <3>1, CacheKept
  <2> QED
    BY <2>3, <2>4
<1>7. ASSUME NEW t \in Threads, Cancel(t) PROVE Kept
  <2>1. th'[t].pc # "guarded" /\ \A r \in Threads : r # t => th'[r] = th[r]
    BY <1>7, <1>t DEF Cancel, ThreadType
  <2> QED
    BY <1>7, <2>1, CacheKept, ResolvedKept DEF Cancel
<1>8. ASSUME NEW t \in Threads, RenderEnds(t) PROVE Kept
  <2>1. th'[t].pc = "idle" /\ \A r \in Threads : r # t => th'[r] = th[r]
    BY <1>8, <1>t DEF RenderEnds, IdleThread
  <2> QED
    BY <1>8, <2>1, CacheKept, ResolvedKept DEF RenderEnds
<1>9. ASSUME Clear PROVE Kept
  <2>1. /\ order' = <<>> /\ emb' = [k \in Keys |-> 0] /\ retained' = 0
        /\ last' = [keys |-> <<>>, prefix |-> 0]
    BY <1>9 DEF Clear
  <2>2. OrderInv' /\ PrefixInv'
    BY <2>1, CacheEmpty DEF OrderInv, PrefixInv
  <2>3. th' = th /\ \A r \in Threads : th[r].pc = "idle"
    BY <1>9 DEF Clear
  <2>4. ResolvedInv'
    BY <2>3 DEF ResolvedInv
  <2> QED
    BY <2>2, <2>4
<1>10. ASSUME UNCHANGED cacheVars PROVE Kept
  <2>1. UNCHANGED cache /\ th' = th
    BY <1>10 DEF cacheVars
  <2>2. ResolvedInv'
    BY <2>1 DEF CacheInv, ResolvedInv, Asked
  <2> QED
    BY <2>1, <2>2, CacheKept
<1>11. Kept
  BY <1>1, <1>2, <1>3, <1>4, <1>5, <1>6, <1>7, <1>8, <1>9, <1>10, Zenon DEF CacheNext, Works
<1> QED
  BY <1>0, <1>11 DEF CacheInv

(* The invariant of the cache.                                             *)
LEMMA CacheInvariance ==
  CacheSpec => []CacheInv
<1>1. CacheInit => CacheInv
  BY CacheStarts
<1>2. CacheInv /\ [CacheNext]_cacheVars => CacheInv'
  BY CacheStep
<1> QED
  BY <1>1, <1>2, PTL DEF CacheSpec

(* The inductive invariant says what the property says.                    *)
LEMMA CacheInvIsExact ==
  ASSUME CacheInv
  PROVE  CacheIsExact
<1>1. /\ order \in Seq(Safe) /\ Once(order)
      /\ \A k \in Keys : emb[k] # 0 <=> Has(order, k)
      /\ retained = Bytes(order) /\ retained <= Budget
  BY DEF CacheInv, OrderInv
<1>2. \A k : Has(order, k) => k \in Safe /\ k \in Keys /\ Size[k] # Unsafe
  BY <1>1 DEF Has, Safe
<1>3. \A x : x \in Cached <=> Has(order, x)
  BY <1>1, <1>2 DEF Cached
<1>4. Range(order) = Cached
  <2>1. \A x : x \in Range(order) <=> Has(order, x)
    BY Zenon DEF Range, Has
  <2> QED
    BY <1>3, <2>1
<1>5. Len(order) = Cardinality(Cached)
  BY <1>1, <1>3, OnceCardinality
<1>7. \A k \in Cached : Size[k] # Unsafe
  BY <1>2, <1>3
<1>8. \A i \in 1..last.prefix : emb[last.keys[i]] # 0
  BY DEF CacheInv, PrefixInv
<1>9. ASSUME NEW n \in DOMAIN last.keys, n > last.prefix
      PROVE  \/ \E i \in 1..n : Size[last.keys[i]] = Unsafe
             \/ Bytes(SubSeq(last.keys, 1, n)) > Budget
  BY <1>9 DEF CacheInv, PrefixInv, TooBig
<1> QED
  BY <1>1, <1>4, <1>5, <1>7, <1>8, <1>9, Zenon DEF CacheIsExact

(* The cache holds what its order says, within its byte budget, never an   *)
(* embedding of unknown size, and keeps the longest beginning of the last  *)
(* request that fits, whatever requests are committed, refused, cancelled  *)
(* or failed in whatever order.                                            *)
THEOREM CacheCorrect ==
  CacheSpec => []CacheIsExact
<1>1. CacheInv => CacheIsExact
  BY CacheInvIsExact
<1> QED
  BY <1>1, CacheInvariance, PTL

-----------------------------------------------------------------------------
(* Generator recovery.                                                     *)

Exists(g) == gen[g].health # "unbuilt"

(* Generators are built on the last load.                                  *)
LoadInv ==
    /\ resources \in {None, loads}
    /\ \A g \in Generators : IF Exists(g) THEN gen[g].load \in 1..loads ELSE gen[g].load = 0

(* A generator that was not closed is current or in quarantine, not both,  *)
(* and a quarantine is settled before the runtime is ready.                *)
OwnInv ==
    /\ resources = None => current = None /\ quarantined = None /\ task = None
    /\ current # None => state = "READY" /\ Exists(current) /\ gen[current].load = resources
    /\ quarantined # None => Exists(quarantined) /\ gen[quarantined].load = resources
    /\ resources # None /\ state = "READY" => quarantined = None /\ task = None
    /\ resources # None => Unclean \subseteq {current, quarantined}

(* The recovery task is the one that runs, and owns what it recovers.      *)
RecInv ==
    /\ task # None => RecoveryRuns(task)
    /\ \A g \in Generators : RecoveryRuns(g) =>
          /\ task = g /\ Exists(g) /\ gen[g].load = resources
          /\ ~sysmem /\ current = None
          /\ quarantined = IF rec[g].pc = "discarding" THEN rec[g].replacement ELSE g
          /\ quarantined # None

(* What close() may rely on at each of its awaits.                         *)
CloserInv ==
    closer.pc # "idle" =>
        /\ closing /\ resources # None
        /\ IF closer.pc = "recovery" THEN task \in {None, closer.on} ELSE task = None
        /\ closer.pc = "quarantined" => quarantined = closer.on
        /\ closer.pc \in {"poisoned", "generator"} => current = closer.on

(* With a system-memory tier the load's only generator is never let go.    *)
SysmemInv ==
    sysmem =>
        /\ \A g, h \in Generators :
              (Exists(g) /\ Exists(h) /\ gen[g].load = gen[h].load) => g = h
        /\ \A g \in Generators :
              (Exists(g) /\ gen[g].load = resources) => g \in {current, quarantined}

(* A session that is served and whose generator failed can be told why.    *)
CauseInv ==
    \A s \in Sessions : session[s].status = "live" =>
        /\ session[s].gen # None /\ Exists(session[s].gen)
        /\ (gen[session[s].gen].load = resources /\ ~closing)
              => gen[session[s].gen].cause # "none" \/ session[s].gen = current

(* The inductive invariant.                                                *)
RecoveryInv == RecoveryTypes /\ LoadInv /\ OwnInv /\ RecInv /\ CloserInv /\ SysmemInv /\ CleanCloseIsClean
            /\ CauseInv

-----------------------------------------------------------------------------
(* What happens to the generators.                                         *)

(* A step may close a generator or name the cause of its failure, and      *)
(* takes neither back.                                                     *)
Kept(g, G) ==
    /\ G[g].load = gen[g].load
    /\ G[g].health = "unbuilt" <=> gen[g].health = "unbuilt"
    /\ gen[g].clean => G[g].clean
    /\ G[g].cause = "none" => gen[g].cause = "none"

AllKept(G) == G \in [Generators -> GeneratorType] /\ \A g \in Generators : Kept(g, G)

(* Cleaning a generator up closes it and leaves the others alone.          *)
LEMMA CleanedKeeps ==
    ASSUME RecoveryTypes, NEW g \in Generators, Exists(g)
    PROVE  AllKept(Cleaned(g, gen)) /\ Cleaned(g, gen)[g].clean
<1>1. gen \in [Generators -> GeneratorType] /\ gen[g] \in GeneratorType
  BY DEF RecoveryTypes
<1> DEFINE h == IF gen[g].health = "running" THEN "ended" ELSE gen[g].health
           r == [gen[g] EXCEPT !.clean = TRUE, !.health = h]
<1>2. Cleaned(g, gen) = [gen EXCEPT ![g] = r]
  BY <1>1 DEF Cleaned
<1>3. h \in {"error", "ended"}
  BY <1>1 DEF GeneratorType, Exists
<1>4. /\ r \in GeneratorType /\ r.clean /\ r.health # "unbuilt"
      /\ r.load = gen[g].load /\ r.cause = gen[g].cause
  BY <1>1, <1>3 DEF GeneratorType
<1> HIDE DEF r
<1> QED
  BY <1>1, <1>2, <1>4 DEF AllKept, Kept, Exists

(* Marking a generator's episode only names its cause.                     *)
LEMMA RestartKeeps ==
    ASSUME RecoveryTypes, NEW g \in Generators, NEW G, AllKept(G)
    PROVE  AllKept(RestartRequired(g, G)) /\ RestartRequired(g, G)[g].cause = "restart"
           /\ RestartRequired(g, G)[g].clean = G[g].clean
<1>1. G \in [Generators -> GeneratorType] /\ G[g] \in GeneratorType
  BY DEF AllKept
<1> DEFINE r == [G[g] EXCEPT !.cause = "restart"]
<1>2. RestartRequired(g, G) = [G EXCEPT ![g] = r]
  BY <1>1 DEF RestartRequired
<1>3. /\ r \in GeneratorType /\ r.clean = G[g].clean /\ r.health = G[g].health
      /\ r.load = G[g].load /\ r.cause = "restart"
  BY <1>1 DEF GeneratorType, Causes
<1> HIDE DEF r
<1> QED
  BY <1>1, <1>2, <1>3 DEF AllKept, Kept

(* A new generator is on the loaded resources and nothing is known of it.  *)
LEMMA BuiltIsNew ==
    ASSUME RecoveryTypes, NEW h \in {"running", "error", "ended"}
    PROVE  /\ Built(0, h) \in GeneratorType
           /\ Built(0, h).load = resources /\ Built(0, h).health = h
           /\ ~Built(0, h).clean /\ Built(0, h).cause = "none"
           /\ \A g : Built(g, h) = Built(0, h)
  BY DEF RecoveryTypes, Built, GeneratorType, Causes

(* The table with one more generator.                                      *)
LEMMA TableGrows ==
    ASSUME RecoveryTypes, NEW G, AllKept(G), NEW r \in Generators, Fresh(r),
           NEW h \in {"running", "error", "ended"}
    PROVE  LET T == [G EXCEPT ![r] = Built(r, h)]
           IN  /\ T \in [Generators -> GeneratorType]
               /\ T[r] = Built(0, h) /\ ~Exists(r)
               /\ \A g \in Generators : g # r => T[g] = G[g]
  BY BuiltIsNew DEF AllKept, Fresh, Exists

(* Nothing happens to the generators.                                      *)
LEMMA NoneTouched ==
    ASSUME RecoveryTypes
    PROVE  AllKept(gen)
  BY DEF RecoveryTypes, AllKept, Kept

-----------------------------------------------------------------------------
(* What a step does to the ownership of the cache.                         *)

(* The served sessions are still served on the same generator, or newly    *)
(* on the current one.                                                     *)
SessionsKept ==
    \A s \in Sessions : session'[s].status = "live" =>
        \/ session[s].status = "live" /\ session'[s].gen = session[s].gen
        \/ session'[s].gen = current /\ current # None

(* The generator of a served session.                                      *)
LEMMA ServedExists ==
    ASSUME RecoveryInv, NEW s \in Sessions, session[s].status = "live"
    PROVE  session[s].gen \in Generators /\ Exists(session[s].gen) /\ session[s].gen # None
<1>1. session[s] \in SessionType /\ session[s].gen # None /\ Exists(session[s].gen)
  BY DEF RecoveryInv, CauseInv, RecoveryTypes
<1> QED
  BY <1>1 DEF SessionType

(* It leaves it alone: a generator dies, a session, a waiter or a close()  *)
(* ends; at most an idle runtime fails.                                    *)
Undisturbed ==
    /\ UNCHANGED <<sysmem, resources, loads, closing, current, quarantined, task, rec>>
    /\ closer' = closer \/ (closer.pc # "idle" /\ closer'.pc = "idle")
    /\ state' = state \/ (current = None /\ state' = "FAILED")
    /\ AllKept(gen')
    /\ SessionsKept

(* A step that leaves generators, task and gate alone preserves the        *)
(* invariant.                                                              *)
LEMMA QuietKeeps ==
    ASSUME RecoveryInv, RecoveryTypes', Undisturbed
    PROVE  RecoveryInv'
<1>1. \A g \in Generators : /\ Kept(g, gen') /\ (Exists(g)' <=> Exists(g))
                            /\ (RecoveryRuns(g)' <=> RecoveryRuns(g))
  BY DEF Undisturbed, AllKept, Kept, Exists, RecoveryRuns
<1>2. LoadInv'
  BY <1>1 DEF RecoveryInv, LoadInv, Undisturbed, Kept
<1>3. Unclean' \subseteq Unclean
  BY <1>1 DEF Unclean, Undisturbed, Kept
<1>4. OwnInv'
  BY <1>1, <1>3 DEF RecoveryInv, RecoveryTypes, OwnInv, Undisturbed, Kept
<1>5. RecInv'
  BY <1>1 DEF RecoveryInv, RecoveryTypes, RecInv, Undisturbed, Kept
<1>6. CloserInv'
  BY DEF RecoveryInv, CloserInv, Undisturbed
<1>7. SysmemInv'
  BY <1>1 DEF RecoveryInv, SysmemInv, Undisturbed, Kept
<1>8. CleanCloseIsClean'
  BY <1>1 DEF RecoveryInv, CleanCloseIsClean, CloserInv, Undisturbed, Kept
<1>9. CauseInv'
  <2> SUFFICES ASSUME NEW s \in Sessions, session'[s].status = "live"
               PROVE  /\ session'[s].gen # None /\ gen'[session'[s].gen].health # "unbuilt"
                      /\ (gen'[session'[s].gen].load = resources' /\ ~closing')
                            => \/ gen'[session'[s].gen].cause # "none"
                               \/ session'[s].gen = current'
    BY DEF CauseInv, Exists
  <2> DEFINE g == session'[s].gen
  <2>1. g \in Generators /\ Exists(g)
    BY ServedExists DEF RecoveryInv, OwnInv, RecoveryTypes, Undisturbed, SessionsKept
  <2>2. \/ g = current
        \/ (gen[g].load = resources /\ ~closing) => gen[g].cause # "none" \/ g = current
    BY DEF RecoveryInv, CauseInv, Undisturbed, SessionsKept
  <2> QED
    BY <1>1, <2>1, <2>2 DEF Undisturbed, Kept, Exists, Generators, None
<1> QED
  BY <1>2, <1>4, <1>5, <1>6, <1>7, <1>8, <1>9 DEF RecoveryInv

(* It puts generator g in quarantine, the current one or a new one, and    *)
(* starts its recovery where one is possible.                              *)
Quarantining(g) ==
    /\ UNCHANGED <<sysmem, resources, loads, closing, closer>>
    /\ resources # None /\ state = "READY" /\ ~closing
    /\ current = g \/ (current = None /\ ~Exists(g))
    /\ gen'[g].load = resources /\ gen'[g].health # "unbuilt" /\ gen'[g].cause # "none"
    /\ \A h \in Generators : h # g => gen'[h] = gen[h]
    /\ current' = None /\ quarantined' = g /\ state' # "READY"
    /\ IF sysmem
       THEN UNCHANGED <<task, rec>>
       ELSE /\ task' = g /\ rec'[g].pc = "created"
            /\ \A h \in Generators : h # g => rec'[h] = rec[h]
    /\ \A s \in Sessions : session'[s].status = "live" =>
          session[s].status = "live" /\ session'[s].gen = session[s].gen

(* A generator that died is quarantined, and a recovery is created for it. *)
LEMMA QuarantiningKeeps ==
    ASSUME RecoveryInv, RecoveryTypes', NEW g \in Generators, Quarantining(g)
    PROVE  RecoveryInv'
<1>1. /\ quarantined = None /\ task = None /\ g # None
      /\ \A h \in Generators : ~RecoveryRuns(h)
  BY DEF RecoveryInv, OwnInv, RecInv, Quarantining, Generators, None
<1>2. \A h \in Generators : h # g =>
         gen'[h] = gen[h] /\ (Exists(h)' <=> Exists(h)) /\ ~RecoveryRuns(h)'
  BY <1>1 DEF Quarantining, Exists, RecoveryRuns
<1>3. Exists(g)' /\ gen'[g].load = resources' /\ (~sysmem => RecoveryRuns(g)')
  BY DEF Quarantining, Exists, RecoveryRuns
<1>4. \A h \in Unclean : h = g \/ h = None \/ h = current
  BY <1>1 DEF RecoveryInv, OwnInv, Quarantining
<1>5. LoadInv'
  BY <1>2, <1>3 DEF RecoveryInv, LoadInv, Quarantining, RecoveryTypes, None
<1>6. \A h \in Unclean' : h = g
  BY <1>2, <1>4 DEF Unclean, Quarantining, Generators, None
<1>7. OwnInv'
  BY <1>1, <1>3, <1>6 DEF OwnInv, Quarantining
<1>8. RecInv'
  BY <1>1, <1>2, <1>3 DEF RecInv, RecoveryRuns, Quarantining
<1>9. CloserInv'
  BY DEF RecoveryInv, CloserInv, Quarantining
<1>10. SysmemInv'
  <2>1. sysmem => \A h \in Generators : Exists(h) /\ gen[h].load = resources => h = g
    BY <1>1 DEF RecoveryInv, SysmemInv, Quarantining, Generators, None
  <2> QED
    BY <1>2, <1>3, <2>1 DEF RecoveryInv, SysmemInv, Quarantining
<1>11. CleanCloseIsClean'
  BY DEF CleanCloseIsClean, Quarantining
<1>12. CauseInv'
  <2> SUFFICES ASSUME NEW s \in Sessions, session'[s].status = "live"
               PROVE  /\ session'[s].gen # None /\ gen'[session'[s].gen].health # "unbuilt"
                      /\ (gen'[session'[s].gen].load = resources' /\ ~closing')
                            => \/ gen'[session'[s].gen].cause # "none"
                               \/ session'[s].gen = current'
    BY DEF CauseInv, Exists
  <2> DEFINE h == session'[s].gen
  <2>1. h = session[s].gen /\ h \in Generators /\ Exists(h) /\ h # None
    BY ServedExists DEF Quarantining
  <2>2. h = g \/ (gen'[h] = gen[h] /\ gen'[h].health # "unbuilt")
    BY <1>2, <2>1 DEF Exists
  <2>3. h # g => ((gen[h].load = resources /\ ~closing) => gen[h].cause # "none")
    BY <2>1 DEF RecoveryInv, CauseInv, Quarantining
  <2> QED
    BY <1>1, <1>3, <2>1, <2>2, <2>3 DEF Quarantining, Exists
<1> QED
  BY <1>5, <1>7, <1>8, <1>9, <1>10, <1>11, <1>12 DEF RecoveryInv

(* What all recovery steps leave alone.                                    *)
RecoveryFrame == UNCHANGED <<sysmem, resources, loads, closing, closer, session>>

(* It ends the recovery of generator g, without a new generator.           *)
Recovered(g) ==
    /\ RecoveryRuns(g) /\ RecoveryFrame
    /\ current' = current /\ task' = None
    /\ state' \in {state, "FAILED"}
    /\ ~RecoveryRuns(g)' /\ \A h \in Generators : h # g => rec'[h] = rec[h]
    /\ AllKept(gen')
    /\ \/ quarantined' = quarantined
       \/ quarantined' = None /\ \A h \in Generators : h = quarantined => gen'[h].clean

(* What a running recovery says of the runtime.                            *)
LEMMA RecoveryOwns ==
    ASSUME RecoveryInv, NEW g \in Generators, RecoveryRuns(g)
    PROVE  /\ task = g /\ g # None /\ resources # None /\ Exists(g)
           /\ gen[g].load = resources
           /\ ~sysmem /\ current = None /\ state # "READY" /\ quarantined # None
           /\ quarantined \in Generators
           /\ quarantined = IF rec[g].pc = "discarding" THEN rec[g].replacement ELSE g
           /\ \A h \in Generators : h # g => ~RecoveryRuns(h)
           /\ \A h \in Unclean : h = quarantined
           /\ closer.pc \in {"idle", "recovery"}
           /\ closer.pc = "recovery" => closer.on = g
<1>1. /\ task = g /\ g # None /\ Exists(g) /\ gen[g].load = resources
      /\ ~sysmem /\ current = None /\ quarantined # None
      /\ quarantined = IF rec[g].pc = "discarding" THEN rec[g].replacement ELSE g
      /\ \A h \in Generators : h # g => ~RecoveryRuns(h)
  BY DEF RecoveryInv, RecInv, Generators, None
<1>2. resources # None /\ state # "READY" /\ quarantined \in Generators
  BY <1>1 DEF RecoveryInv, OwnInv, RecoveryTypes
<1>3. \A h \in Unclean : h = quarantined
  BY <1>1, <1>2 DEF RecoveryInv, OwnInv, Unclean, Generators, None
<1>4. closer.pc \in {"idle", "recovery"} /\ (closer.pc = "recovery" => closer.on = g)
  BY <1>1 DEF RecoveryInv, CloserInv, RecoveryTypes, CloserType
<1> QED
  BY <1>1, <1>2, <1>3, <1>4

(* What close() relies on survives the end of a recovery.                  *)
LEMMA CloserSurvives ==
    ASSUME RecoveryInv, NEW g \in Generators, RecoveryRuns(g), RecoveryFrame, task' \in {g, None}
    PROVE  CloserInv'
  BY RecoveryOwns DEF RecoveryInv, CloserInv, RecoveryFrame

(* The served sessions of a step that only touches the recovery.           *)
LEMMA CauseSurvives ==
    ASSUME RecoveryInv, RecoveryFrame,
           \A g \in Generators : Exists(g) => Kept(g, gen'),
           current \in {None, current'}
    PROVE  CauseInv'
<1> SUFFICES ASSUME NEW s \in Sessions, session'[s].status = "live"
             PROVE  /\ session[s].gen # None /\ gen'[session[s].gen].health # "unbuilt"
                    /\ (gen'[session[s].gen].load = resources /\ ~closing)
                          => gen'[session[s].gen].cause # "none" \/ session[s].gen = current'
  BY DEF CauseInv, RecoveryFrame, Exists
<1>1. session[s].status = "live"
  BY DEF RecoveryFrame
<1> DEFINE g == session[s].gen
<1>2. g \in Generators /\ Exists(g) /\ g # None
  BY <1>1, ServedExists
<1>3. (gen[g].load = resources /\ ~closing) => gen[g].cause # "none" \/ g = current
  BY <1>1 DEF RecoveryInv, CauseInv
<1> QED
  BY <1>2, <1>3 DEF Exists, Kept

(* A recovery ends; what it takes out of quarantine is clean.              *)
LEMMA RecoveredKeeps ==
    ASSUME RecoveryInv, RecoveryTypes', NEW g \in Generators, Recovered(g)
    PROVE  RecoveryInv'
<1>1. \A h \in Generators : Kept(h, gen') /\ (Exists(h)' <=> Exists(h)) /\ ~RecoveryRuns(h)'
  BY RecoveryOwns DEF Recovered, AllKept, Kept, Exists, RecoveryRuns
<1>2. /\ resources # None /\ ~sysmem /\ current = None /\ state' # "READY"
      /\ quarantined \in Generators /\ Exists(quarantined)
      /\ gen[quarantined].load = resources
      /\ \A h \in Unclean : h = quarantined
  BY RecoveryOwns DEF Recovered, RecoveryInv, OwnInv
<1>3. LoadInv'
  BY <1>1 DEF RecoveryInv, LoadInv, Recovered, RecoveryFrame, Kept
<1>4. Unclean' \subseteq Unclean /\ (quarantined' # quarantined => quarantined \notin Unclean')
  BY <1>1, <1>2 DEF Unclean, Recovered, RecoveryFrame, Kept
<1>5. OwnInv'
  BY <1>1, <1>2, <1>4 DEF OwnInv, Recovered, RecoveryFrame, Kept
<1>6. RecInv'
  BY <1>1 DEF RecInv, Recovered
<1>7. CloserInv'
  BY CloserSurvives DEF Recovered
<1>8. SysmemInv' /\ CleanCloseIsClean'
  BY <1>2 DEF SysmemInv, CleanCloseIsClean, Recovered, RecoveryFrame
<1>9. CauseInv'
  BY <1>1, CauseSurvives DEF Recovered
<1> QED
  BY <1>3, <1>5, <1>6, <1>7, <1>8, <1>9 DEF RecoveryInv

(* A recovery takes its turn and works on.                                 *)
LEMMA RecoveryGoesOn ==
    ASSUME RecoveryInv, RecoveryTypes', NEW g \in Generators, RecoveryRuns(g), RecoveryFrame,
           UNCHANGED <<state, current, quarantined, task, gen>>,
           rec[g].pc = "created", rec'[g].pc = "quiescing",
           \A h \in Generators : h # g => rec'[h] = rec[h]
    PROVE  RecoveryInv'
<1>1. \A h \in Generators : /\ (RecoveryRuns(h)' <=> RecoveryRuns(h)) /\ (Exists(h)' <=> Exists(h))
                            /\ RecoveryRuns(h) => h = g
  BY RecoveryOwns DEF RecoveryRuns, Exists
<1>2. LoadInv' /\ SysmemInv'
  BY DEF RecoveryInv, LoadInv, SysmemInv, Exists, RecoveryFrame
<1>6. OwnInv'
  BY DEF RecoveryInv, OwnInv, Unclean, Exists, RecoveryFrame
<1>3. RecInv'
  BY <1>1, RecoveryOwns DEF RecInv, RecoveryFrame
<1>4. CloserInv' /\ CauseInv'
  BY DEF RecoveryInv, CloserInv, CauseInv, Exists, RecoveryFrame
<1>5. CleanCloseIsClean'
  BY <1>1 DEF RecoveryInv, CleanCloseIsClean, RecoveryFrame
<1> QED
  BY <1>2, <1>3, <1>4, <1>5, <1>6 DEF RecoveryInv

(* The generator of recovery g is closed and generator r built in its      *)
(* place, which is current or, dead already, quarantined in turn.          *)
Succeeds(g, r) ==
    /\ rec[g].pc = "quiescing" /\ RecoveryFrame
    /\ r # g /\ ~Exists(r)
    /\ gen'[r].load = resources /\ gen'[r].health # "unbuilt"
    /\ gen'[g].clean
    /\ \A h \in Generators : h # r => Kept(h, gen')
    /\ \A h \in Generators : h # g => rec'[h] = rec[h]
    /\ \/ /\ current' = r /\ quarantined' = None /\ state' = "READY"
          /\ task' = None /\ ~RecoveryRuns(g)'
       \/ /\ current' = None /\ quarantined' = r /\ state' = state
          /\ task' = task /\ rec'[g] = [pc |-> "discarding", replacement |-> r]

(* A recovery built a successor: it is current, or quarantined in its      *)
(* turn.                                                                   *)
LEMMA SucceedsKeeps ==
    ASSUME RecoveryInv, RecoveryTypes', NEW g \in Generators, NEW r \in Generators, Succeeds(g, r)
    PROVE  RecoveryInv'
<1>1. RecoveryRuns(g) /\ rec[g].pc # "discarding"
  BY DEF Succeeds, RecoveryRuns
<1>2. /\ task = g /\ g # None /\ resources # None /\ ~sysmem /\ current = None
      /\ state # "READY" /\ quarantined = g /\ r # None
      /\ \A h \in Generators : h # g => ~RecoveryRuns(h)
      /\ \A h \in Unclean : h = g
  BY <1>1, RecoveryOwns DEF Generators, None
<1>3. \A h \in Generators : /\ h # r => Kept(h, gen') /\ (Exists(h)' <=> Exists(h))
                            /\ h # g => ~RecoveryRuns(h)'
  BY <1>2 DEF Succeeds, Kept, Exists, RecoveryRuns
<1>4. Exists(r)' /\ gen'[r].load = resources' /\ resources' # None
  BY <1>2 DEF Succeeds, Exists, RecoveryFrame
<1>5. LoadInv'
  BY <1>2, <1>3, <1>4 DEF RecoveryInv, LoadInv, RecoveryTypes, Succeeds, RecoveryFrame, Kept, None
<1>6. \A h \in Unclean' : h = r
  BY <1>2, <1>3 DEF Unclean, Succeeds, RecoveryFrame, Kept
<1>7. OwnInv'
  BY <1>2, <1>4, <1>6 DEF OwnInv, Succeeds
<1>8. RecInv'
  <2>1. CASE task' = None
    BY <1>2, <1>3, <2>1 DEF RecInv, Succeeds
  <2>2. CASE current' = None
    <3>1. RecoveryRuns(g)' /\ Exists(g)' /\ gen'[g].load = resources' /\ ~sysmem'
      BY <1>1, <1>2, <1>3, <2>2, RecoveryOwns DEF Succeeds, RecoveryRuns, RecoveryFrame, Kept
    <3> QED
      BY <1>2, <1>3, <2>2, <3>1 DEF RecInv, Succeeds
  <2> QED
    BY <2>1, <2>2 DEF Succeeds
<1>9. CloserInv'
  BY <1>1, <1>2, CloserSurvives DEF Succeeds
<1>10. SysmemInv' /\ CleanCloseIsClean'
  BY <1>2 DEF SysmemInv, CleanCloseIsClean, Succeeds, RecoveryFrame
<1>11. \A h \in Generators : Exists(h) => Kept(h, gen')
  BY DEF Succeeds
<1>12. CauseInv'
  BY <1>2, <1>11, CauseSurvives DEF Succeeds
<1> QED
  BY <1>5, <1>7, <1>8, <1>9, <1>10, <1>12 DEF RecoveryInv

(* submit() builds generator g, which serves.                              *)
Serves(g) ==
    /\ UNCHANGED <<sysmem, resources, loads, closing, closer, state, quarantined, task, rec>>
    /\ Admits /\ current = None /\ ~Exists(g)
    /\ gen'[g].load = resources /\ gen'[g].health # "unbuilt"
    /\ \A h \in Generators : h # g => gen'[h] = gen[h]
    /\ current' = g
    /\ \A s \in Sessions : session'[s].status = "live" =>
          \/ session[s].status = "live" /\ session'[s].gen = session[s].gen
          \/ session'[s].gen = g

(* The first generator of a load is built.                                 *)
LEMMA ServesKeeps ==
    ASSUME RecoveryInv, RecoveryTypes', NEW g \in Generators, Serves(g)
    PROVE  RecoveryInv'
<1>1. /\ quarantined = None /\ task = None /\ g # None /\ resources # None
      /\ state = "READY" /\ ~closing
      /\ \A h \in Generators : ~RecoveryRuns(h)
  BY DEF RecoveryInv, OwnInv, RecInv, Serves, Admits, Generators, None
<1>2. \A h \in Generators : /\ h # g => gen'[h] = gen[h] /\ (Exists(h)' <=> Exists(h))
                            /\ ~RecoveryRuns(h)'
  BY <1>1 DEF Serves, Exists, RecoveryRuns
<1>3. Exists(g)' /\ gen'[g].load = resources'
  BY DEF Serves, Exists
<1>4. LoadInv'
  BY <1>1, <1>2, <1>3 DEF RecoveryInv, LoadInv, RecoveryTypes, Serves, None
<1>5. \A h \in Unclean' : h = g
  BY <1>1, <1>2 DEF RecoveryInv, OwnInv, Unclean, Serves, Generators, None
<1>6. OwnInv'
  BY <1>1, <1>3, <1>5 DEF OwnInv, Serves
<1>7. RecInv'
  BY <1>1, <1>2 DEF RecInv, Serves
<1>8. CloserInv' /\ CleanCloseIsClean'
  BY <1>1 DEF RecoveryInv, CloserInv, CleanCloseIsClean, Serves
<1>9. SysmemInv'
  <2>1. sysmem => \A h \in Generators : Exists(h) => gen[h].load # resources
    BY <1>1 DEF RecoveryInv, SysmemInv, Serves, Generators, None
  <2> QED
    BY <1>2, <1>3, <2>1 DEF RecoveryInv, SysmemInv, Serves
<1>10. CauseInv'
  <2> SUFFICES ASSUME NEW s \in Sessions, session'[s].status = "live"
               PROVE  /\ session'[s].gen # None /\ gen'[session'[s].gen].health # "unbuilt"
                      /\ (gen'[session'[s].gen].load = resources' /\ ~closing')
                            => \/ gen'[session'[s].gen].cause # "none"
                               \/ session'[s].gen = current'
    BY DEF CauseInv, Exists
  <2> DEFINE h == session'[s].gen
  <2>1. CASE h = g
    BY <1>1, <2>1 DEF Serves
  <2>2. CASE h # g
    <3>1. session[s].status = "live" /\ h = session[s].gen
      BY <2>2 DEF Serves
    <3>2. h \in Generators /\ Exists(h) /\ h # None
      BY <3>1, ServedExists
    <3>3. (gen[h].load = resources /\ ~closing) => gen[h].cause # "none" \/ h = current
      BY <3>1 DEF RecoveryInv, CauseInv
    <3> QED
      BY <1>1, <2>2, <3>2, <3>3 DEF Serves, Exists
  <2> QED
    BY <2>1, <2>2
<1> QED
  BY <1>4, <1>6, <1>7, <1>8, <1>9, <1>10 DEF RecoveryInv

-----------------------------------------------------------------------------
(* What close() and load() do to it.                                       *)

CloseFrame == UNCHANGED <<sysmem, loads, rec, session>>

(* close() comes to one of its awaits.                                     *)
LEMMA CloseWaitsKeeps ==
    ASSUME RecoveryInv, RecoveryTypes', CloseFrame, UNCHANGED <<resources, lifecycle, gen>>,
           resources # None, closing', CloserInv'
    PROVE  RecoveryInv'
<1>1. LoadInv' /\ SysmemInv'
  BY DEF RecoveryInv, LoadInv, SysmemInv, Exists, CloseFrame, lifecycle
<1>2. OwnInv'
  BY DEF RecoveryInv, OwnInv, Unclean, Exists, CloseFrame, lifecycle
<1>3. RecInv'
  BY DEF RecoveryInv, RecInv, Exists, RecoveryRuns, CloseFrame, lifecycle
<1>4. CleanCloseIsClean' /\ CauseInv'
  BY DEF RecoveryInv, CleanCloseIsClean, CauseInv, Exists, CloseFrame, lifecycle
<1> QED
  BY <1>1, <1>2, <1>3, <1>4 DEF RecoveryInv

(* close() drops everything, and reports a clean end only if every         *)
(* generator of the load was closed.                                       *)
Drops ==
    /\ CloseFrame /\ closing'
    /\ resources # None /\ task = None
    /\ AllKept(gen')
    /\ resources' = None /\ current' = None /\ quarantined' = None /\ task' = None
    /\ closer'.pc = "idle"
    /\ closer'.result = "clean" => \A g \in Unclean : gen'[g].clean

(* close() drops the resources; a clean close leaves nothing unclean.      *)
LEMMA DropsKeeps ==
    ASSUME RecoveryInv, RecoveryTypes', Drops
    PROVE  RecoveryInv'
<1>1. \A g \in Generators : /\ Kept(g, gen') /\ (Exists(g)' <=> Exists(g))
                            /\ ~RecoveryRuns(g) /\ ~RecoveryRuns(g)'
  BY DEF RecoveryInv, RecInv, Drops, CloseFrame, AllKept, Kept, Exists, RecoveryRuns, Generators, None
<1>2. \A g \in Generators : Exists(g) => gen[g].load # None
  BY DEF RecoveryInv, LoadInv, RecoveryTypes, None
<1>3. LoadInv'
  BY <1>1 DEF RecoveryInv, LoadInv, Drops, CloseFrame, Kept
<1>4. OwnInv' /\ RecInv' /\ CloserInv' /\ CauseInv'
  <2>1. OwnInv' /\ RecInv' /\ CloserInv'
    BY <1>1 DEF OwnInv, RecInv, CloserInv, Drops
  <2>2. CauseInv'
    BY <1>1, ServedExists DEF CauseInv, Drops, CloseFrame
  <2> QED
    BY <2>1, <2>2
<1>5. SysmemInv'
  BY <1>1, <1>2 DEF RecoveryInv, SysmemInv, Drops, CloseFrame, Kept
<1>6. CleanCloseIsClean'
  <2> SUFFICES ASSUME closer'.result = "clean", loads # 0,
                      NEW g \in Generators, gen'[g].load = loads
               PROVE  gen'[g].clean
    BY <1>1 DEF CleanCloseIsClean, Drops, CloseFrame
  <2>1. loads = resources /\ gen[g].load = loads
    BY <1>1 DEF RecoveryInv, LoadInv, Drops, Kept
  <2>2. Exists(g)
    BY <2>1 DEF RecoveryInv, LoadInv
  <2>3. CASE g \in Unclean
    BY <2>3 DEF Drops
  <2>4. CASE g \notin Unclean
    BY <1>1, <2>1, <2>2, <2>4 DEF Unclean, Exists, Kept
  <2> QED
    BY <2>3, <2>4
<1> QED
  BY <1>3, <1>4, <1>5, <1>6 DEF RecoveryInv

(* close() could not quiesce the current generator: it is quarantined.     *)
LEMMA PoisonKeptKeeps ==
    ASSUME RecoveryInv, RecoveryTypes', CloseFrame, UNCHANGED <<resources, closing, task, gen>>,
           closing, current # None, task = None,
           current' = None, quarantined' = current, state' = "FAILED", closer'.pc = "idle"
    PROVE  RecoveryInv'
<1>1. /\ resources # None /\ Exists(current) /\ gen[current].load = resources
      /\ quarantined = None
  BY DEF RecoveryInv, OwnInv
<1>2. LoadInv'
  BY DEF RecoveryInv, LoadInv, Exists, CloseFrame
<1>3. \A g \in Unclean' : g \in Unclean
  BY DEF Unclean
<1>4. OwnInv'
  BY <1>1, <1>3 DEF RecoveryInv, OwnInv, Exists
<1>5. RecInv' /\ CloserInv' /\ CleanCloseIsClean'
  BY <1>1 DEF RecoveryInv, RecInv, CloserInv, CleanCloseIsClean, RecoveryRuns, CloseFrame
<1>6. SysmemInv'
  BY <1>1 DEF RecoveryInv, SysmemInv, Exists, CloseFrame
<1>7. CauseInv'
  BY DEF RecoveryInv, CauseInv, Exists, CloseFrame
<1> QED
  BY <1>2, <1>4, <1>5, <1>6, <1>7 DEF RecoveryInv

(* load() finds nothing left of earlier loads but generators of theirs.    *)
LEMMA LoadKeeps ==
    ASSUME RecoveryInv, RecoveryTypes', Load
    PROVE  RecoveryInv'
<1>1. /\ loads \in Nat /\ loads' = loads + 1 /\ resources' = loads'
      /\ current = None /\ quarantined = None /\ task = None
  BY DEF RecoveryInv, OwnInv, RecoveryTypes, Load
<1>2. \A g \in Generators : /\ (Exists(g)' <=> Exists(g)) /\ gen'[g].load # resources'
                            /\ ~RecoveryRuns(g)'
  BY <1>1 DEF RecoveryInv, LoadInv, RecInv, RecoveryTypes, Load, Exists, RecoveryRuns, None
<1>3. LoadInv'
  BY <1>1 DEF RecoveryInv, LoadInv, Load, Exists
<1>4. Unclean' = {}
  BY <1>2 DEF Unclean
<1>5. OwnInv'
  BY <1>4 DEF OwnInv, Load
<1>6. RecInv' /\ CleanCloseIsClean'
  BY <1>1, <1>2 DEF RecInv, CleanCloseIsClean, Load, None
<1>7. CloserInv'
  BY DEF RecoveryInv, CloserInv, Load
<1>8. SysmemInv'
  BY <1>2 DEF RecoveryInv, SysmemInv, Load, Exists
<1>9. CauseInv'
  BY <1>2, ServedExists DEF CauseInv, Load
<1> QED
  BY <1>3, <1>5, <1>6, <1>7, <1>8, <1>9 DEF RecoveryInv

-----------------------------------------------------------------------------
(* The outcomes of a report of a failure.                                  *)

(* The first report of a failure of the serving generator quarantines it.  *)
LEMMA ProjectQuarantines ==
    ASSUME NEW g \in Generators, NEW G \in [Generators -> GeneratorType], NEW cur,
           RecoveryTypes, ProjectFailure(g, G, cur),
           MayProject(g, G, cur), cur = g, state = "READY"
    PROVE  /\ gen' \in [Generators -> GeneratorType] /\ rec' \in [Generators -> RecoveryType]
           /\ gen'[g].load = G[g].load /\ gen'[g].health = G[g].health
           /\ gen'[g].cause # "none"
           /\ \A h \in Generators : h # g => gen'[h] = G[h]
           /\ current' = None /\ quarantined' = g
           /\ state' \in {"RECOVERING", "FAILED"} /\ task' \in {task, g}
           /\ IF sysmem
              THEN UNCHANGED <<task, rec>>
              ELSE /\ task' = g /\ rec'[g].pc = "created"
                   /\ \A h \in Generators : h # g => rec'[h] = rec[h]
<1>1. G[g] \in GeneratorType /\ G[g].cause = "none"
  BY DEF MayProject
<1>2. CASE sysmem
  <2> DEFINE r == [G[g] EXCEPT !.cause = "restart"]
  <2>1. /\ r \in GeneratorType /\ r.load = G[g].load /\ r.health = G[g].health
        /\ r.cause # "none"
    BY <1>1 DEF GeneratorType, Causes
  <2>2. /\ gen' = [G EXCEPT ![g] = r] /\ state' = "FAILED" /\ current' = None
        /\ quarantined' = g /\ UNCHANGED <<task, rec>>
    BY <1>2 DEF ProjectFailure, RestartRequired
  <2> HIDE DEF r
  <2> QED
    BY <1>2, <2>1, <2>2 DEF RecoveryTypes
<1>3. CASE ~sysmem
  <2> DEFINE r == [G[g] EXCEPT !.cause = "recovering"]
             c == [pc |-> "created", replacement |-> None]
  <2>1. /\ r \in GeneratorType /\ r.load = G[g].load /\ r.health = G[g].health
        /\ r.cause # "none" /\ c \in RecoveryType /\ c.pc = "created"
    BY <1>1 DEF GeneratorType, Causes, RecoveryType
  <2>2. BeginRecovery(g, G)
    BY <1>3 DEF ProjectFailure
  <2>3. gen' = [G EXCEPT ![g] = r]
    BY <1>1, <2>2 DEF BeginRecovery
  <2>4. /\ rec' = [rec EXCEPT ![g] = c] /\ state' = "RECOVERING" /\ current' = None
        /\ quarantined' = g /\ task' = g
    BY <2>2 DEF BeginRecovery
  <2> HIDE DEF r, c
  <2> QED
    BY <1>3, <2>1, <2>3, <2>4 DEF RecoveryTypes
<1> QED
  BY <1>2, <1>3

(* Any other report changes a cause at most, and at most gives up a        *)
(* quarantined generator.                                                  *)
LEMMA ProjectRepeats ==
    ASSUME NEW g \in Generators, NEW G \in [Generators -> GeneratorType], NEW cur,
           ProjectFailure(g, G, cur),
           ~(MayProject(g, G, cur) /\ cur = g /\ state = "READY")
    PROVE  /\ gen' \in {G, RestartRequired(g, G)}
           /\ current' = cur
           /\ state' = state \/ (state' = "FAILED" /\ quarantined = g /\ resources # None)
           /\ UNCHANGED <<quarantined, task, rec>>
<1>1. CASE MayProject(g, G, cur) /\ IF sysmem THEN quarantined = g ELSE state = "FAILED"
  BY <1>1 DEF ProjectFailure, MayProject
<1>2. CASE ~(MayProject(g, G, cur) /\ IF sysmem THEN quarantined = g ELSE state = "FAILED")
  BY <1>2 DEF ProjectFailure
<1> QED
  BY <1>1, <1>2

(* The two together, for a report that touches nothing else of the table.  *)
LEMMA Projected ==
    ASSUME RecoveryInv, NEW g \in Generators, NEW G, AllKept(G),
           \A h \in Generators : G[h].cause = gen[h].cause,
           Exists(g), ProjectFailure(g, G, current)
    PROVE  /\ gen' \in [Generators -> GeneratorType] /\ rec' \in [Generators -> RecoveryType]
           /\ state' \in {"READY", "RECOVERING", "FAILED"}
           /\ current' \in Generators \cup {None} /\ quarantined' \in Generators \cup {None}
           /\ task' \in Generators \cup {None}
           /\ \/ /\ AllKept(gen') /\ UNCHANGED <<current, quarantined, task, rec>>
                 /\ state' = state \/ (current = None /\ state' = "FAILED")
              \/ /\ resources # None /\ state = "READY" /\ ~closing /\ current = g
                 /\ gen'[g].load = resources /\ gen'[g].health # "unbuilt"
                 /\ gen'[g].cause # "none"
                 /\ \A h \in Generators : h # g => gen'[h] = G[h]
                 /\ current' = None /\ quarantined' = g /\ state' # "READY"
                 /\ IF sysmem
                    THEN UNCHANGED <<task, rec>>
                    ELSE /\ task' = g /\ rec'[g].pc = "created"
                         /\ \A h \in Generators : h # g => rec'[h] = rec[h]
           /\ (gen[g].load = resources /\ ~closing /\ (gen[g].cause # "none" \/ g = current))
                 => gen'[g].cause # "none"
<1>1. RecoveryTypes /\ G \in [Generators -> GeneratorType] /\ Kept(g, G)
  BY DEF RecoveryInv, AllKept
<1>2. CASE MayProject(g, G, current) /\ current = g /\ state = "READY"
  <2>1. resources # None /\ ~closing
    BY <1>2 DEF MayProject
  <2>2. gen[g].load = resources
    BY <1>2 DEF RecoveryInv, OwnInv, Generators, None
  <2>3. G[g].load = resources /\ G[g].health # "unbuilt"
    BY <1>1, <2>2 DEF Kept, Exists
  <2> QED
    BY <1>1, <1>2, <2>1, <2>3, ProjectQuarantines DEF RecoveryTypes
<1>3. CASE ~(MayProject(g, G, current) /\ current = g /\ state = "READY")
  <2>1. /\ gen' \in {G, RestartRequired(g, G)}
        /\ current' = current /\ UNCHANGED <<quarantined, task, rec>>
        /\ state' = state \/ (state' = "FAILED" /\ quarantined = g /\ resources # None)
    BY <1>1, <1>3, ProjectRepeats
  <2>2. AllKept(gen')
    BY <1>1, <2>1, RestartKeeps
  <2>3. quarantined = g /\ resources # None => current = None
    BY DEF RecoveryInv, OwnInv, Generators, None
  <2>4. (gen[g].load = resources /\ ~closing /\ (gen[g].cause # "none" \/ g = current))
                 => gen'[g].cause # "none"
    <3> SUFFICES ASSUME gen[g].load = resources, ~closing, gen[g].cause # "none" \/ g = current
                 PROVE  gen'[g].cause # "none"
      OBVIOUS
    <3>1. CASE gen[g].cause # "none"
      BY <2>2, <3>1 DEF AllKept, Kept
    <3>2. CASE g = current /\ gen[g].cause = "none"
      <4>1. state = "READY" /\ resources # None /\ G[g].cause = "none"
        BY <3>2 DEF RecoveryInv, OwnInv, Generators, None
      <4> QED
        BY <1>3, <3>2, <4>1 DEF MayProject
    <3> QED
      BY <3>1, <3>2
  <2> QED
    BY <1>1, <2>1, <2>2, <2>3, <2>4 DEF RecoveryTypes, AllKept
<1> QED
  BY <1>2, <1>3

-----------------------------------------------------------------------------
(* The initial states and the steps.                                       *)

(* The invariant holds before anything was submitted.                      *)
LEMMA InitEstablishes == RecoveryInit => RecoveryInv
<1> SUFFICES ASSUME RecoveryInit
             PROVE  RecoveryInv
  OBVIOUS
<1>1. RecoveryTypes
  <2>1. /\ gen \in [Generators -> GeneratorType] /\ rec \in [Generators -> RecoveryType]
        /\ session \in [Sessions -> SessionType] /\ waiter \in [Waiters -> WaiterType]
    BY DEF RecoveryInit, GeneratorType, RecoveryType, SessionType, WaiterType, Causes
  <2>2. closer \in CloserType /\ closer.pc = "idle"
    BY ConstantsAssumption DEF RecoveryInit, CloserType
  <2>3. 0 \in 0..MaxLoads
    BY ConstantsAssumption
  <2> QED
    BY <2>1, <2>2, <2>3 DEF RecoveryInit, RecoveryTypes, None
<1>2. \A g \in Generators : ~Exists(g) /\ gen[g].load = 0 /\ ~RecoveryRuns(g)
  BY DEF RecoveryInit, Exists, RecoveryRuns
<1>3. LoadInv /\ RecInv /\ CloserInv /\ SysmemInv /\ CleanCloseIsClean /\ CauseInv
  BY <1>2 DEF RecoveryInit, LoadInv, RecInv, CloserInv, SysmemInv, CleanCloseIsClean, CauseInv, None
<1>4. OwnInv
  BY DEF RecoveryInit, OwnInv
<1> QED
  BY <1>1, <1>3, <1>4 DEF RecoveryInv

(* A step that keeps everything but a session, a waiter or the table.      *)
LEMMA FrameIsQuiet ==
    ASSUME RecoveryInv, UNCHANGED <<sysmem, resources, loads, closing, lifecycle, rec, closer>>,
           AllKept(gen'), SessionsKept
    PROVE  Undisturbed
  BY DEF Undisturbed, lifecycle

(* A built generator dies.                                                 *)
LEMMA DiesKeeps ==
    ASSUME RecoveryInv, NEW g \in Generators, NEW how \in {"error", "ended"}, GeneratorDies(g, how)
    PROVE  RecoveryInv'
<1>1. gen \in [Generators -> GeneratorType] /\ gen[g] \in GeneratorType
  BY DEF RecoveryInv, RecoveryTypes
<1> DEFINE r == [gen[g] EXCEPT !.health = how]
<1>2. /\ r \in GeneratorType /\ r.health = how /\ r.load = gen[g].load
      /\ r.clean = gen[g].clean /\ r.cause = gen[g].cause
  BY <1>1 DEF GeneratorType
<1>3. gen' = [gen EXCEPT ![g] = r] /\ gen[g].health = "running"
  BY DEF GeneratorDies
<1> HIDE DEF r
<1>4. AllKept(gen')
  BY <1>1, <1>2, <1>3 DEF AllKept, Kept
<1>5. RecoveryTypes'
  BY <1>4 DEF RecoveryInv, RecoveryTypes, GeneratorDies, lifecycle, AllKept
<1>6. SessionsKept
  BY DEF SessionsKept, GeneratorDies
<1> QED
  BY <1>4, <1>5, <1>6, FrameIsQuiet, QuietKeeps DEF GeneratorDies

(* The observer of a dead generator fires.                                 *)
LEMMA ObserverKeeps ==
    ASSUME RecoveryInv, NEW g \in Generators, ObserverFires(g)
    PROVE  RecoveryInv'
<1>1. RecoveryTypes /\ gen \in [Generators -> GeneratorType] /\ gen[g] \in GeneratorType /\ Exists(g)
  BY DEF RecoveryInv, RecoveryTypes, ObserverFires, KnownDead, Exists
<1> DEFINE r == [gen[g] EXCEPT !.armed = FALSE]
           G == [gen EXCEPT ![g] = r]
<1>2. /\ r \in GeneratorType /\ r.health = gen[g].health /\ r.load = gen[g].load
      /\ r.clean = gen[g].clean /\ r.cause = gen[g].cause
  BY <1>1 DEF GeneratorType
<1>3. /\ G = [gen EXCEPT ![g].armed = FALSE]
      /\ UNCHANGED <<sysmem, resources, loads, closing, closer, session, waiter>>
      /\ (gen' = G /\ UNCHANGED <<lifecycle, rec>>) \/ ProjectFailure(g, G, current)
  BY DEF ObserverFires
<1> HIDE DEF r
<1>4. /\ AllKept(G) /\ \A h \in Generators : G[h].cause = gen[h].cause
      /\ \A h \in Generators : h # g => G[h] = gen[h]
  BY <1>1, <1>2 DEF AllKept, Kept
<1> HIDE DEF G
<1>5. SessionsKept
  BY <1>3 DEF SessionsKept
<1>6. CASE gen' = G /\ UNCHANGED <<lifecycle, rec>>
  <2>1. RecoveryTypes'
    BY <1>1, <1>3, <1>4, <1>6 DEF RecoveryTypes, lifecycle, AllKept
  <2> QED
    BY <1>3, <1>4, <1>5, <1>6, <2>1, FrameIsQuiet, QuietKeeps
<1>7. CASE ProjectFailure(g, G, current)
  <2>1. RecoveryTypes'
    BY <1>1, <1>3, <1>4, <1>7, Projected DEF RecoveryTypes
  <2>2. Undisturbed \/ Quarantining(g)
    <3>1. \/ /\ AllKept(gen') /\ UNCHANGED <<current, quarantined, task, rec>>
             /\ state' = state \/ (current = None /\ state' = "FAILED")
          \/ /\ resources # None /\ state = "READY" /\ ~closing /\ current = g
             /\ gen'[g].load = resources /\ gen'[g].health # "unbuilt"
             /\ gen'[g].cause # "none"
             /\ \A h \in Generators : h # g => gen'[h] = G[h]
             /\ current' = None /\ quarantined' = g /\ state' # "READY"
             /\ IF sysmem
                THEN UNCHANGED <<task, rec>>
                ELSE /\ task' = g /\ rec'[g].pc = "created"
                     /\ \A h \in Generators : h # g => rec'[h] = rec[h]
      BY <1>1, <1>4, <1>7, Projected
    <3> QED
      BY <1>3, <1>4, <1>5, <3>1 DEF Undisturbed, Quarantining
  <2> QED
    BY <2>1, <2>2, QuietKeeps, QuarantiningKeeps
<1> QED
  BY <1>3, <1>6, <1>7

(* A submission is refused.                                                *)
LEMMA RefusedKeeps ==
    ASSUME RecoveryInv, NEW s \in Sessions, SubmitRefused(s)
    PROVE  RecoveryInv'
<1>1. RecoveryTypes /\ session \in [Sessions -> SessionType] /\ session[s] \in SessionType
  BY DEF RecoveryInv, RecoveryTypes
<1> DEFINE c == IF closing THEN "none" ELSE IF state = "RECOVERING" THEN "recovering" ELSE "restart"
           r == [session[s] EXCEPT !.status = "refused", !.cause = c]
<1>2. r \in SessionType /\ r.status = "refused" /\ session' = [session EXCEPT ![s] = r]
  BY <1>1 DEF SubmitRefused, SessionType, Causes
<1> HIDE DEF r
<1>3. SessionsKept
  BY <1>1, <1>2 DEF SessionsKept
<1>4. RecoveryTypes'
  BY <1>1, <1>2 DEF RecoveryTypes, SubmitRefused, lifecycle
<1> QED
  BY <1>1, <1>3, <1>4, NoneTouched, FrameIsQuiet, QuietKeeps DEF SubmitRefused

(* A session finishes.                                                     *)
LEMMA FinishesKeeps ==
    ASSUME RecoveryInv, NEW s \in Sessions, SessionFinishes(s)
    PROVE  RecoveryInv'
<1>1. RecoveryTypes /\ session \in [Sessions -> SessionType] /\ session[s] \in SessionType
  BY DEF RecoveryInv, RecoveryTypes
<1> DEFINE r == [session[s] EXCEPT !.status = "finished"]
<1>2. r \in SessionType /\ r.status = "finished" /\ session' = [session EXCEPT ![s] = r]
  BY <1>1 DEF SessionFinishes, SessionType
<1> HIDE DEF r
<1>3. SessionsKept
  BY <1>1, <1>2 DEF SessionsKept
<1>4. RecoveryTypes'
  BY <1>1, <1>2 DEF RecoveryTypes, SessionFinishes, lifecycle
<1> QED
  BY <1>1, <1>3, <1>4, NoneTouched, FrameIsQuiet, QuietKeeps DEF SessionFinishes

(* A session fails.                                                        *)
LEMMA FailsKeeps ==
    ASSUME RecoveryInv, NEW s \in Sessions, SessionFails(s)
    PROVE  RecoveryInv'
<1>1. RecoveryTypes /\ session \in [Sessions -> SessionType] /\ session[s] \in SessionType
  BY DEF RecoveryInv, RecoveryTypes
<1> DEFINE g == session[s].gen
           r == [session[s] EXCEPT !.status = "failed", !.cause = gen'[g].cause]
<1>2. g \in Generators /\ Exists(g)
  BY ServedExists DEF SessionFails
<1>3. ProjectFailure(g, gen, current) /\ session' = [session EXCEPT ![s] = r]
  BY <1>1 DEF SessionFails
<1>4. UNCHANGED <<sysmem, resources, loads, closing, closer, waiter>>
  BY DEF SessionFails
<1> HIDE DEF g
<1>5. gen'[g] \in GeneratorType
  BY <1>1, <1>2, <1>3, NoneTouched, Projected
<1>6. r \in SessionType /\ r.status = "failed"
  BY <1>1, <1>5 DEF SessionType, GeneratorType
<1> HIDE DEF r
<1>7. \A t \in Sessions : session'[t].status = "live" =>
          session[t].status = "live" /\ session'[t].gen = session[t].gen
  BY <1>1, <1>3, <1>6
<1>8. RecoveryTypes'
  BY <1>1, <1>2, <1>3, <1>4, <1>6, NoneTouched, Projected DEF RecoveryTypes
<1>9. Undisturbed \/ Quarantining(g)
  BY <1>1, <1>2, <1>3, <1>4, <1>7, NoneTouched, Projected
     DEF Undisturbed, Quarantining, SessionsKept
<1> QED
  BY <1>2, <1>8, <1>9, QuietKeeps, QuarantiningKeeps

(* A session is submitted to the current generator.                        *)
LEMMA SubmitKeeps ==
    ASSUME RecoveryInv, NEW s \in Sessions, Submit(s)
    PROVE  RecoveryInv'
<1> DEFINE g == current
<1>1. RecoveryTypes /\ session \in [Sessions -> SessionType] /\ g \in Generators /\ Exists(g)
  BY DEF RecoveryInv, RecoveryTypes, OwnInv, Submit
<1>2. UNCHANGED <<sysmem, resources, loads, closing, closer, waiter>>
  BY DEF Submit
<1>3. CASE gen[g].health = "running"
  <2> DEFINE r == [status |-> "live", gen |-> g, cause |-> "none"]
  <2>1. /\ session' = [session EXCEPT ![s] = r] /\ r \in SessionType /\ r.gen = g
        /\ gen' = gen /\ current' = g /\ UNCHANGED <<state, quarantined, task, rec>>
    BY <1>1, <1>3 DEF Submit, SubmitOn, SessionType, Causes
  <2> HIDE DEF r
  <2>2. SessionsKept
    BY <1>1, <2>1 DEF SessionsKept, Submit
  <2>3. RecoveryTypes'
    BY <1>1, <1>2, <2>1 DEF RecoveryTypes
  <2> QED
    BY <1>1, <1>2, <2>1, <2>2, <2>3, NoneTouched, FrameIsQuiet, QuietKeeps DEF lifecycle
<1>4. CASE gen[g].health # "running"
  <2> DEFINE c == IF gen'[g].cause = "none" THEN "restart" ELSE gen'[g].cause
             r == [status |-> "refused", gen |-> None, cause |-> c]
  <2>1. ProjectFailure(g, gen, current) /\ session' = [session EXCEPT ![s] = r]
    BY <1>4 DEF Submit, SubmitOn
  <2>2. gen'[g] \in GeneratorType
    BY <1>1, <2>1, NoneTouched, Projected
  <2>3. r \in SessionType /\ r.status = "refused"
    BY <2>2 DEF SessionType, GeneratorType, Causes
  <2> HIDE DEF r
  <2>4. \A t \in Sessions : session'[t].status = "live" =>
            session[t].status = "live" /\ session'[t].gen = session[t].gen
    BY <1>1, <2>1, <2>3
  <2>5. RecoveryTypes'
    BY <1>1, <1>2, <2>1, <2>3, NoneTouched, Projected DEF RecoveryTypes
  <2>6. Undisturbed \/ Quarantining(g)
    BY <1>1, <1>2, <2>1, <2>4, NoneTouched, Projected DEF Undisturbed, Quarantining, SessionsKept
  <2> QED
    BY <1>1, <2>5, <2>6, QuietKeeps, QuarantiningKeeps
<1> QED
  BY <1>3, <1>4

(* A session is submitted and its generator is built first.                *)
LEMMA SubmitBuildsKeeps ==
    ASSUME RecoveryInv, NEW s \in Sessions, NEW g \in Generators,
           NEW h \in {"running", "error", "ended"}, SubmitBuilds(s, g, h)
    PROVE  RecoveryInv'
<1> DEFINE G == [gen EXCEPT ![g] = Built(g, h)]
<1>1. RecoveryTypes /\ session \in [Sessions -> SessionType] /\ Fresh(g)
  BY DEF RecoveryInv, RecoveryTypes, SubmitBuilds
<1>2. /\ UNCHANGED <<sysmem, resources, loads, closing, closer, waiter>>
      /\ Admits /\ current = None /\ SubmitOn(s, g, G)
  BY DEF SubmitBuilds
<1>3. /\ G \in [Generators -> GeneratorType] /\ ~Exists(g)
      /\ \A f \in Generators : f # g => G[f] = gen[f]
      /\ G[g].load = resources /\ G[g].health = h /\ G[g].cause = "none"
  <2>1. /\ G \in [Generators -> GeneratorType]
        /\ G[g] = Built(0, h) /\ ~Exists(g)
        /\ \A f \in Generators : f # g => G[f] = gen[f]
    BY <1>1, NoneTouched, TableGrows
  <2> QED
    BY <1>1, <2>1, BuiltIsNew
<1> HIDE DEF G
<1>4. CASE h = "running"
  <2> DEFINE r == [status |-> "live", gen |-> g, cause |-> "none"]
  <2>1. /\ session' = [session EXCEPT ![s] = r] /\ r \in SessionType /\ r.gen = g
        /\ gen' = G /\ current' = g /\ UNCHANGED <<state, quarantined, task, rec>>
    BY <1>2, <1>3, <1>4 DEF SubmitOn, SessionType, Causes
  <2> HIDE DEF r
  <2>2. \A t \in Sessions : session'[t].status = "live" =>
          \/ session[t].status = "live" /\ session'[t].gen = session[t].gen
          \/ session'[t].gen = g
    BY <1>1, <2>1
  <2>3. RecoveryTypes'
    BY <1>1, <1>2, <1>3, <2>1 DEF RecoveryTypes
  <2>4. Serves(g)
    BY <1>2, <1>3, <1>4, <2>1, <2>2 DEF Serves
  <2> QED
    BY <2>3, <2>4, ServesKeeps
<1>5. CASE h # "running"
  <2> DEFINE c == IF gen'[g].cause = "none" THEN "restart" ELSE gen'[g].cause
             r == [status |-> "refused", gen |-> None, cause |-> c]
  <2>1. ProjectFailure(g, G, g) /\ session' = [session EXCEPT ![s] = r]
    BY <1>2, <1>3, <1>5 DEF SubmitOn
  <2>2. MayProject(g, G, g) /\ state = "READY"
    BY <1>2, <1>3 DEF MayProject, Admits
  <2>3. gen'[g] \in GeneratorType
    BY <1>1, <1>3, <2>1, <2>2, ProjectQuarantines
  <2>4. r \in SessionType /\ r.status = "refused"
    BY <2>3 DEF SessionType, GeneratorType, Causes
  <2> HIDE DEF r
  <2>5. \A t \in Sessions : session'[t].status = "live" =>
            session[t].status = "live" /\ session'[t].gen = session[t].gen
    BY <1>1, <2>1, <2>4
  <2>6. RecoveryTypes'
    BY <1>1, <1>2, <1>3, <2>1, <2>2, <2>4, ProjectQuarantines DEF RecoveryTypes
  <2>7. /\ gen'[g].load = G[g].load /\ gen'[g].health = G[g].health
        /\ gen'[g].cause # "none"
        /\ \A f \in Generators : f # g => gen'[f] = G[f]
        /\ current' = None /\ quarantined' = g /\ state' \in {"RECOVERING", "FAILED"}
        /\ IF sysmem
           THEN UNCHANGED <<task, rec>>
           ELSE /\ task' = g /\ rec'[g].pc = "created"
                /\ \A f \in Generators : f # g => rec'[f] = rec[f]
    BY <1>1, <1>3, <2>1, <2>2, ProjectQuarantines
  <2>8. Quarantining(g)
    BY <1>2, <1>3, <2>5, <2>7 DEF Quarantining, Admits
  <2> QED
    BY <2>6, <2>8, QuarantiningKeeps
<1> QED
  BY <1>4, <1>5

(* Whatever a session does.                                                *)
LEMMA SessionStepKeeps ==
    ASSUME RecoveryInv, NEW s \in Sessions, SessionStep(s)
    PROVE  RecoveryInv'
  BY RefusedKeeps, SubmitKeeps, SubmitBuildsKeeps, FinishesKeeps, FailsKeeps DEF SessionStep

(* The types at the end of a recovery.                                     *)
LEMMA EndTypes ==
    ASSUME RecoveryTypes, NEW g \in Generators, NEW ending \in {"done", "cancelled"},
           RecoveryEnds(g, ending), task = g
    PROVE  /\ rec' \in [Generators -> RecoveryType] /\ task' = None /\ ~RecoveryRuns(g)'
           /\ \A h \in Generators : h # g => rec'[h] = rec[h]
<1> DEFINE r == [pc |-> ending, replacement |-> None]
<1>1. r \in RecoveryType /\ r.pc = ending /\ rec' = [rec EXCEPT ![g] = r] /\ task' = None
  BY DEF RecoveryEnds, RecoveryType
<1> HIDE DEF r
<1> QED
  BY <1>1 DEF RecoveryTypes, RecoveryRuns

(* A recovery that ends is one that owned the runtime's task.              *)
LEMMA EndKeeps ==
    ASSUME RecoveryInv, NEW g \in Generators, RecoveryRuns(g), RecoveryFrame, UNCHANGED waiter,
           NEW ending \in {"done", "cancelled"}, RecoveryEnds(g, ending),
           UNCHANGED current, state' \in {state, "FAILED"}, AllKept(gen'),
           \/ quarantined' = quarantined
           \/ quarantined' = None /\ \A h \in Generators : h = quarantined => gen'[h].clean
    PROVE  RecoveryInv'
<1>1. /\ rec' \in [Generators -> RecoveryType] /\ task' = None /\ ~RecoveryRuns(g)'
      /\ \A h \in Generators : h # g => rec'[h] = rec[h]
  BY EndTypes, RecoveryOwns DEF RecoveryInv
<1>2. Recovered(g)
  BY <1>1 DEF Recovered
<1>3. RecoveryTypes'
  BY <1>1 DEF RecoveryInv, RecoveryTypes, RecoveryFrame, AllKept
<1> QED
  BY <1>2, <1>3, RecoveredKeeps

(* A created recovery starts to quiesce the failed generator.              *)
LEMMA StartsKeeps ==
    ASSUME RecoveryInv, NEW g \in Generators, RecoverStarts(g)
    PROVE  RecoveryInv'
<1>1. RecoveryRuns(g) /\ quarantined = g
  BY RecoveryOwns DEF RecoverStarts, RecoveryRuns
<1>2. rec \in [Generators -> RecoveryType] /\ rec[g] \in RecoveryType
  BY DEF RecoveryInv, RecoveryTypes
<1> DEFINE r == [rec[g] EXCEPT !.pc = "quiescing"]
<1>3. /\ r \in RecoveryType /\ r.pc = "quiescing" /\ rec' = [rec EXCEPT ![g] = r]
      /\ task' = task
  BY <1>1, <1>2 DEF RecoverStarts, RecoveryType
<1> HIDE DEF r
<1>4. /\ RecoveryFrame /\ UNCHANGED <<state, current, quarantined, gen, waiter>>
      /\ rec[g].pc = "created"
  BY DEF RecoverStarts, RecoveryFrame
<1>5. RecoveryTypes'
  BY <1>2, <1>3, <1>4 DEF RecoveryInv, RecoveryTypes, RecoveryFrame
<1> QED
  BY <1>1, <1>2, <1>3, <1>4, <1>5, RecoveryGoesOn

(* Quiescing the failed generator fails.                                   *)
LEMMA QuiesceFailsKeeps ==
    ASSUME RecoveryInv, NEW g \in Generators, RecoverQuiesceFails(g)
    PROVE  RecoveryInv'
<1>1. RecoveryRuns(g) /\ RecoveryFrame
  BY DEF RecoverQuiesceFails, RecoveryRuns, RecoveryFrame
<1>2. AllKept(gen')
  BY NoneTouched, RestartKeeps DEF RecoveryInv, RecoverQuiesceFails
<1> QED
  BY <1>1, <1>2, EndKeeps DEF RecoverQuiesceFails

(* A recovery overtaken by a close or by another load only cleans up.      *)
LEMMA StandsKeeps ==
    ASSUME RecoveryInv, NEW g \in Generators, RecoverStands(g)
    PROVE  RecoveryInv'
<1>1. RecoveryRuns(g) /\ RecoveryFrame /\ rec[g].pc = "quiescing"
  BY DEF RecoverStands, RecoveryRuns, RecoveryFrame
<1>2. quarantined = g /\ Exists(g)
  BY <1>1, RecoveryOwns
<1>3. AllKept(gen') /\ gen'[g].clean
  BY <1>2, CleanedKeeps DEF RecoveryInv, RecoverStands
<1> QED
  BY <1>1, <1>2, <1>3, EndKeeps DEF RecoverStands

(* No replacement could be built.                                          *)
LEMMA ConstructionFailsKeeps ==
    ASSUME RecoveryInv, NEW g \in Generators, RecoverConstructionFails(g)
    PROVE  RecoveryInv'
<1>1. RecoveryRuns(g) /\ RecoveryFrame /\ rec[g].pc = "quiescing"
  BY DEF RecoverConstructionFails, MayReplace, RecoveryRuns, RecoveryFrame
<1>2. quarantined = g /\ Exists(g)
  BY <1>1, RecoveryOwns
<1>3. AllKept(gen') /\ gen'[g].clean
  BY <1>2, CleanedKeeps, RestartKeeps DEF RecoveryInv, RecoverConstructionFails
<1> QED
  BY <1>1, <1>2, <1>3, EndKeeps DEF RecoverConstructionFails

(* A replacement that died at once was closed, or could not be.            *)
LEMMA DiscardedKeeps ==
    ASSUME RecoveryInv, NEW g \in Generators, NEW ok \in BOOLEAN, RecoverDiscarded(g, ok)
    PROVE  RecoveryInv'
<1>1. RecoveryRuns(g) /\ RecoveryFrame /\ rec[g].pc = "discarding"
  BY DEF RecoverDiscarded, RecoveryRuns, RecoveryFrame
<1>2. /\ quarantined = rec[g].replacement /\ quarantined \in Generators /\ Exists(quarantined)
  BY <1>1, RecoveryOwns DEF RecoveryInv, OwnInv
<1>3. AllKept(gen') /\ (ok => gen'[quarantined].clean)
  BY <1>2, NoneTouched, CleanedKeeps DEF RecoveryInv, RecoverDiscarded
<1> QED
  BY <1>1, <1>2, <1>3, EndKeeps DEF RecoverDiscarded

(* The recovery task is cancelled with the close() that awaits it.         *)
LEMMA CancelsKeeps ==
    ASSUME RecoveryInv, CloseCancelsRecovery
    PROVE  RecoveryInv'
<1>1. closer.on \in Generators /\ RecoveryRuns(closer.on) /\ RecoveryFrame
  BY DEF RecoveryInv, RecoveryTypes, CloserType, CloseCancelsRecovery, RecoveryRuns, RecoveryFrame
<1> QED
  BY <1>1, NoneTouched, EndKeeps DEF RecoveryInv, CloseCancelsRecovery

(* The replacement becomes current.                                        *)
LEMMA ReplacesKeeps ==
    ASSUME RecoveryInv, NEW g \in Generators, NEW r \in Generators, RecoverReplaces(g, r)
    PROVE  RecoveryInv'
<1>1. RecoveryRuns(g) /\ RecoveryFrame /\ rec[g].pc = "quiescing" /\ Fresh(r)
  BY DEF RecoverReplaces, MayReplace, RecoveryRuns, RecoveryFrame
<1>2. task = g /\ Exists(g) /\ ~Exists(r)
  BY <1>1, RecoveryOwns DEF Fresh, Exists
<1> DEFINE G == Cleaned(g, gen)
<1>3. AllKept(G) /\ G[g].clean
  BY <1>2, CleanedKeeps DEF RecoveryInv
<1> HIDE DEF G
<1>4. /\ gen' = [G EXCEPT ![r] = Built(r, "running")] /\ RecoveryEnds(g, "done")
      /\ quarantined' = None /\ current' = r /\ state' = "READY" /\ waiter' = waiter
  BY DEF RecoverReplaces, G
<1>5. /\ gen' \in [Generators -> GeneratorType] /\ gen'[r] = Built(0, "running")
      /\ \A h \in Generators : h # r => gen'[h] = G[h]
  BY <1>1, <1>3, <1>4, TableGrows DEF RecoveryInv
<1>6. gen'[r].load = resources /\ gen'[r].health # "unbuilt"
  BY <1>5, BuiltIsNew DEF RecoveryInv
<1>7. /\ rec' \in [Generators -> RecoveryType] /\ task' = None /\ ~RecoveryRuns(g)'
      /\ \A h \in Generators : h # g => rec'[h] = rec[h]
  BY <1>2, <1>4, EndTypes DEF RecoveryInv
<1>8. RecoveryTypes'
  BY <1>1, <1>4, <1>5, <1>7 DEF RecoveryInv, RecoveryTypes, RecoveryFrame
<1>9. Succeeds(g, r)
  BY <1>1, <1>2, <1>3, <1>4, <1>5, <1>6, <1>7 DEF Succeeds, AllKept, Kept
<1> QED
  BY <1>8, <1>9, SucceedsKeeps

(* The replacement died at once.                                           *)
LEMMA DiscardsKeeps ==
    ASSUME RecoveryInv, NEW g \in Generators, NEW r \in Generators,
           NEW h \in {"error", "ended"}, RecoverDiscards(g, r, h)
    PROVE  RecoveryInv'
<1>1. RecoveryRuns(g) /\ RecoveryFrame /\ rec[g].pc = "quiescing" /\ Fresh(r)
  BY DEF RecoverDiscards, MayReplace, RecoveryRuns, RecoveryFrame
<1>2. task = g /\ Exists(g) /\ ~Exists(r) /\ current = None
  BY <1>1, RecoveryOwns DEF Fresh, Exists
<1> DEFINE G == RestartRequired(g, Cleaned(g, gen))
<1>3. AllKept(G) /\ G[g].clean
  BY <1>2, CleanedKeeps, RestartKeeps DEF RecoveryInv
<1> HIDE DEF G
<1> DEFINE c == [pc |-> "discarding", replacement |-> r]
<1>4. /\ gen' = [G EXCEPT ![r] = Built(r, h)] /\ rec' = [rec EXCEPT ![g] = c]
      /\ quarantined' = r /\ UNCHANGED <<state, current, task, waiter>>
  BY DEF RecoverDiscards, G
<1>5. /\ gen' \in [Generators -> GeneratorType] /\ gen'[r] = Built(0, h)
      /\ \A f \in Generators : f # r => gen'[f] = G[f]
  BY <1>1, <1>3, <1>4, TableGrows DEF RecoveryInv
<1>6. gen'[r].load = resources /\ gen'[r].health # "unbuilt"
  BY <1>5, BuiltIsNew DEF RecoveryInv
<1>7. c \in RecoveryType
  BY DEF RecoveryType
<1>8. RecoveryTypes'
  BY <1>1, <1>4, <1>5, <1>7 DEF RecoveryInv, RecoveryTypes, RecoveryFrame
<1>9. rec'[g] = c /\ \A f \in Generators : f # g => rec'[f] = rec[f]
  BY <1>4 DEF RecoveryInv, RecoveryTypes
<1>10. Succeeds(g, r)
  BY <1>1, <1>2, <1>3, <1>4, <1>5, <1>6, <1>9 DEF Succeeds, AllKept, Kept
<1> QED
  BY <1>8, <1>10, SucceedsKeeps

(* Whatever a recovery does.                                               *)
LEMMA RecoveryStepKeeps ==
    ASSUME RecoveryInv, NEW g \in Generators, RecoveryStep(g)
    PROVE  RecoveryInv'
  BY StartsKeeps, QuiesceFailsKeeps, StandsKeeps, ReplacesKeeps, ConstructionFailsKeeps,
     DiscardsKeeps, DiscardedKeeps DEF RecoveryStep

(* Whatever those who wait for the recovery do.                            *)
LEMMA WaiterStepKeeps ==
    ASSUME RecoveryInv, NEW w \in Waiters, WaiterStep(w)
    PROVE  RecoveryInv'
<1>1. \E r \in WaiterType : waiter' = [waiter EXCEPT ![w] = r]
  <2>1. task \in Generators \cup {None}
    BY DEF RecoveryInv, RecoveryTypes
  <2>2. WaitTurn(w) => \E r \in WaiterType : waiter' = [waiter EXCEPT ![w] = r]
    <3> DEFINE r == IF closing \/ resources = None
                    THEN [pc |-> "done", on |-> None, result |-> "closed"]
                    ELSE IF state = "READY"
                    THEN [pc |-> "done", on |-> None, result |-> "ready"]
                    ELSE IF state = "FAILED" \/ task = None
                    THEN [pc |-> "done", on |-> None, result |-> "failed"]
                    ELSE [pc |-> "waiting", on |-> task, result |-> "none"]
    <3>1. r \in WaiterType
      BY <2>1 DEF WaiterType
    <3>2. WaitTurn(w) => waiter' = [waiter EXCEPT ![w] = r]
      BY DEF WaitTurn
    <3> HIDE DEF r
    <3> QED
      BY <3>1, <3>2
  <2>3. \A res \in {"deadline", "cancelled"} :
           [pc |-> "done", on |-> None, result |-> res] \in WaiterType
    BY DEF WaiterType
  <2> QED
    BY <2>2, <2>3 DEF WaiterStep, WaitBegins, WaitDeadline, WaitWakes
<1>2. UNCHANGED <<sysmem, resources, loads, closing, lifecycle, gen, rec, closer, session>>
  BY DEF WaiterStep, WaitBegins, WaitDeadline, WaitWakes
<1>3. RecoveryTypes'
  BY <1>1, <1>2 DEF RecoveryInv, RecoveryTypes, lifecycle
<1>4. SessionsKept
  BY <1>2 DEF SessionsKept
<1> QED
  BY <1>2, <1>3, <1>4, NoneTouched, FrameIsQuiet, QuietKeeps DEF RecoveryInv

(* What close() leaves of its own state when it returns.                   *)
LEMMA EndsIdle ==
    ASSUME NEW c \in CloserType, NEW r \in {"clean", "unclean", "raised", "interrupted"},
           CloseEnds(c, r)
    PROVE  closer' \in CloserType /\ closer'.pc = "idle" /\ closer'.result = r
  BY DEF CloseEnds, CloserType

(* The closer is where it awaits, on the generator it awaits.              *)
LEMMA AwaitsOn ==
    ASSUME NEW c \in CloserType, NEW g \in Generators,
           NEW p \in {"recovery", "quarantined", "poisoned", "generator"},
           closer' = [c EXCEPT !.pc = p, !.on = g]
    PROVE  closer' \in CloserType /\ closer'.pc = p /\ closer'.on = g
  BY DEF CloserType

(* The end of close() when no generator but a quarantined one can be left. *)
LEMMA DropResourcesKeeps ==
    ASSUME RecoveryInv, NEW c \in CloserType, NEW r \in {"clean", "unclean"}, DropResources(c, r),
           CloseFrame, UNCHANGED waiter, closing', resources # None, task = None,
           AllKept(gen'), r = "clean" => \A g \in Unclean : gen'[g].clean
    PROVE  RecoveryInv'
<1>1. closer' \in CloserType /\ closer'.pc = "idle" /\ closer'.result = r
  BY EndsIdle DEF DropResources
<1>2. RecoveryTypes'
  <2>1. None \in 0..MaxLoads
    BY ConstantsAssumption DEF None
  <2> QED
    BY <1>1, <2>1 DEF RecoveryInv, RecoveryTypes, DropResources, CloseFrame, AllKept
<1>3. Drops
  BY <1>1 DEF Drops, DropResources
<1> QED
  BY <1>2, <1>3, DropsKeeps

(* close() turns to the current generator, if there is one.                *)
LEMMA CloseGeneratorKeeps ==
    ASSUME RecoveryInv, NEW c \in CloserType, CloseGenerator(c),
           CloseFrame, UNCHANGED waiter, closing', resources # None, task = None,
           AllKept(gen'), gen' = gen \/ current = None,
           \A g \in Generators : g = quarantined => gen'[g].clean
    PROVE  RecoveryInv'
<1>1. CASE current = None
  <2>1. PICK r \in Unloaded : DropResources(c, r)
    BY <1>1 DEF CloseGenerator
  <2>2. r \in {"clean", "unclean"}
    BY DEF Unloaded
  <2>3. \A g \in Unclean : gen'[g].clean
    BY <1>1 DEF RecoveryInv, OwnInv, Unclean, Generators, None
  <2> QED
    BY <2>1, <2>2, <2>3, DropResourcesKeeps
<1>2. CASE current # None
  <2>1. current \in Generators /\ quarantined = None /\ gen' = gen
    BY <1>2 DEF RecoveryInv, OwnInv, RecoveryTypes
  <2> DEFINE p == IF gen[current].health = "error" THEN "poisoned" ELSE "generator"
  <2>2. /\ closer' = [c EXCEPT !.pc = p, !.on = current]
        /\ quarantined' = None /\ UNCHANGED <<resources, state, current, task>>
    BY <1>2 DEF CloseGenerator
  <2>3. p \in {"poisoned", "generator"}
    OBVIOUS
  <2> HIDE DEF p
  <2>4. closer' \in CloserType /\ closer'.pc = p /\ closer'.on = current
    BY <2>1, <2>2, <2>3, AwaitsOn
  <2>5. CloserInv'
    BY <2>2, <2>3, <2>4 DEF CloserInv
  <2>6. RecoveryTypes'
    BY <1>2, <2>1, <2>2, <2>4 DEF RecoveryInv, RecoveryTypes, CloseFrame
  <2> QED
    BY <2>1, <2>2, <2>5, <2>6, CloseWaitsKeeps DEF lifecycle
<1> QED
  BY <1>1, <1>2

(* close() turns to the quarantined generator first.                       *)
LEMMA CloseSettlesKeeps ==
    ASSUME RecoveryInv, NEW c \in CloserType, CloseSettles(c),
           CloseFrame, UNCHANGED <<gen, waiter>>, closing', resources # None, task = None
    PROVE  RecoveryInv'
<1>1. CASE quarantined # None
  <2>1. quarantined \in Generators
    BY <1>1 DEF RecoveryInv, RecoveryTypes
  <2>2. /\ closer' = [c EXCEPT !.pc = "quarantined", !.on = quarantined]
        /\ UNCHANGED <<resources, lifecycle>>
    BY <1>1 DEF CloseSettles
  <2>3. closer' \in CloserType /\ closer'.pc = "quarantined" /\ closer'.on = quarantined
    BY <2>1, <2>2, AwaitsOn
  <2>4. CloserInv'
    BY <2>2, <2>3 DEF CloserInv, lifecycle
  <2>5. RecoveryTypes'
    BY <1>1, <2>2, <2>3 DEF RecoveryInv, RecoveryTypes, CloseFrame, lifecycle
  <2> QED
    BY <2>2, <2>4, <2>5, CloseWaitsKeeps
<1>2. CASE quarantined = None
  <2>1. CloseGenerator(c) /\ AllKept(gen')
    BY <1>2, NoneTouched DEF CloseSettles, RecoveryInv
  <2> QED
    BY <1>2, <2>1, CloseGeneratorKeeps DEF Generators, None
<1> QED
  BY <1>1, <1>2

(* close() is called.                                                      *)
LEMMA CloseBeginsKeeps ==
    ASSUME RecoveryInv, CloseBegins
    PROVE  RecoveryInv'
<1> DEFINE c == [closer EXCEPT !.calls = @ + 1]
<1>1. /\ CloseFrame /\ UNCHANGED <<gen, waiter>> /\ closing' /\ resources # None
      /\ closer \in CloserType /\ closer.calls < MaxCloses
      /\ task = None => CloseSettles(c)
      /\ task # None => /\ closer' = [c EXCEPT !.pc = "recovery", !.on = task]
                        /\ UNCHANGED <<resources, lifecycle>>
  BY DEF RecoveryInv, RecoveryTypes, CloseBegins, CloseFrame
<1>2. c \in CloserType
  BY <1>1, ConstantsAssumption DEF CloserType
<1> HIDE DEF c
<1>3. CASE task = None
  BY <1>1, <1>2, <1>3, CloseSettlesKeeps
<1>4. CASE task # None
  <2>1. task \in Generators
    BY <1>4 DEF RecoveryInv, RecoveryTypes
  <2>2. closer' \in CloserType /\ closer'.pc = "recovery" /\ closer'.on = task
    BY <1>1, <1>2, <1>4, <2>1, AwaitsOn
  <2>3. CloserInv'
    BY <1>1, <1>4, <2>2 DEF CloserInv, lifecycle
  <2>4. RecoveryTypes'
    BY <1>1, <1>4, <2>1, <2>2 DEF RecoveryInv, RecoveryTypes, CloseFrame, lifecycle
  <2> QED
    BY <1>1, <1>4, <2>3, <2>4, CloseWaitsKeeps
<1> QED
  BY <1>3, <1>4

(* close() goes on when the recovery it awaited has ended.                 *)
LEMMA AfterRecoveryKeeps ==
    ASSUME RecoveryInv, CloseAfterRecovery
    PROVE  RecoveryInv'
<1>1. closer \in CloserType /\ closing /\ resources # None /\ task = None
  BY DEF RecoveryInv, RecoveryTypes, CloserInv, RecInv, RecoveryRuns, CloseAfterRecovery
<1> QED
  BY <1>1, CloseSettlesKeeps DEF CloseAfterRecovery, CloseFrame

(* close() ends and leaves things as they were.                            *)
LEMMA CloseStopsKeeps ==
    ASSUME RecoveryInv, NEW r \in {"raised", "interrupted"}, CloseEnds(closer, r), CloseFrame,
           closer.pc # "idle", state' = state \/ (current = None /\ state' = "FAILED"),
           UNCHANGED <<resources, closing, current, quarantined, task, waiter>>, AllKept(gen')
    PROVE  RecoveryInv'
<1>1. closer' \in CloserType /\ closer'.pc = "idle"
  BY EndsIdle DEF RecoveryInv, RecoveryTypes
<1>2. RecoveryTypes'
  <2>1. state' \in {"READY", "RECOVERING", "FAILED"}
    BY DEF RecoveryInv, RecoveryTypes
  <2>2. gen' \in [Generators -> GeneratorType]
    BY DEF AllKept
  <2> QED
    BY <1>1, <2>1, <2>2 DEF RecoveryInv, RecoveryTypes, CloseFrame
<1>3. SessionsKept
  BY DEF SessionsKept, CloseFrame
<1>4. Undisturbed
  BY <1>1, <1>3 DEF Undisturbed, CloseFrame
<1> QED
  BY <1>2, <1>4, QuietKeeps

(* What close() relies on once no recovery runs.                           *)
LEMMA ClosingState ==
    ASSUME RecoveryInv, closer.pc \in {"quarantined", "poisoned", "generator"}
    PROVE  /\ RecoveryTypes /\ closer \in CloserType /\ closing /\ resources # None /\ task = None
           /\ closer.on \in Generators /\ Exists(closer.on)
           /\ closer.pc = "quarantined" => quarantined = closer.on /\ current = None
           /\ closer.pc \in {"poisoned", "generator"} =>
                 /\ current = closer.on /\ quarantined = None
                 /\ \A g \in Unclean : g = closer.on
<1>1. /\ RecoveryTypes /\ closer \in CloserType /\ closing /\ resources # None /\ task = None
      /\ closer.on \in Generators
      /\ closer.pc = "quarantined" => quarantined = closer.on
      /\ closer.pc \in {"poisoned", "generator"} => current = closer.on
  BY DEF RecoveryInv, RecoveryTypes, CloserInv, CloserType
<1>2. closer.on # None /\ \A g \in Unclean : g # None
  BY <1>1 DEF Unclean, Generators, None
<1> QED
  BY <1>1, <1>2 DEF RecoveryInv, OwnInv

(* The backend has quiesced for close().                                   *)
LEMMA CloseQuiescedKeeps ==
    ASSUME RecoveryInv, CloseQuiesced
    PROVE  RecoveryInv'
<1>1. /\ RecoveryTypes /\ closer \in CloserType /\ closing /\ resources # None /\ task = None
      /\ closer.on \in Generators /\ Exists(closer.on)
      /\ quarantined = closer.on /\ current = None
  BY ClosingState DEF CloseQuiesced
<1>2. AllKept(gen') /\ gen'[closer.on].clean
  BY <1>1, CleanedKeeps DEF CloseQuiesced
<1>3. CloseFrame /\ UNCHANGED <<waiter, closing>> /\ closer.pc = "quarantined"
  BY DEF CloseQuiesced, CloseFrame
<1>4. CASE sysmem
  <2>1. CloseEnds(closer, "raised") /\ UNCHANGED <<resources, lifecycle>>
    BY <1>4 DEF CloseQuiesced
  <2> QED
    BY <1>2, <1>3, <2>1, CloseStopsKeeps DEF lifecycle
<1>5. CASE ~sysmem
  <2>1. CloseGenerator(closer)
    BY <1>5 DEF CloseQuiesced
  <2> QED
    BY <1>1, <1>2, <1>3, <2>1, CloseGeneratorKeeps
<1> QED
  BY <1>4, <1>5

(* The backend does not quiesce for close().                               *)
LEMMA CloseQuiesceFailsKeeps ==
    ASSUME RecoveryInv, CloseQuiesceFails
    PROVE  RecoveryInv'
<1>1. current = None /\ AllKept(gen)
  BY ClosingState, NoneTouched DEF CloseQuiesceFails
<1>2. AllKept(gen')
  BY <1>1 DEF CloseQuiesceFails
<1> QED
  BY <1>1, <1>2, CloseStopsKeeps DEF CloseQuiesceFails, CloseFrame

(* The task of close() is cancelled where it awaits the backend.           *)
LEMMA CloseInterruptedKeeps ==
    ASSUME RecoveryInv, CloseInterrupted
    PROVE  RecoveryInv'
<1>1. AllKept(gen)
  BY NoneTouched DEF RecoveryInv
<1>2. AllKept(gen')
  BY <1>1 DEF CloseInterrupted
<1> QED
  BY <1>2, CloseStopsKeeps DEF CloseInterrupted, CloseFrame, lifecycle

(* close() is done with a generator that had died.                         *)
LEMMA ClosePoisonedKeeps ==
    ASSUME RecoveryInv, NEW ok \in BOOLEAN, ClosePoisoned(ok)
    PROVE  RecoveryInv'
<1>1. /\ RecoveryTypes /\ closer \in CloserType /\ closing /\ resources # None /\ task = None
      /\ closer.on \in Generators /\ Exists(closer.on) /\ closer.on # None
      /\ current = closer.on /\ quarantined = None
      /\ \A g \in Unclean : g = closer.on
  BY ClosingState DEF ClosePoisoned, Generators, None
<1>2. CloseFrame /\ UNCHANGED <<waiter, closing>>
  BY DEF ClosePoisoned, CloseFrame
<1>3. CASE ok
  <2>1. gen' = Cleaned(closer.on, gen)
    BY <1>3 DEF ClosePoisoned
  <2>2. AllKept(gen') /\ gen'[closer.on].clean
    BY <1>1, <2>1, CleanedKeeps
  <2>3. PICK r \in Unloaded : DropResources(closer, r)
    BY <1>3 DEF ClosePoisoned
  <2>4. r \in {"clean", "unclean"}
    BY DEF Unloaded
  <2> QED
    BY <1>1, <1>2, <2>2, <2>3, <2>4, DropResourcesKeeps
<1>4. CASE ~ok
  <2>1. /\ current' = None /\ quarantined' = current /\ state' = "FAILED"
        /\ CloseEnds(closer, "raised") /\ UNCHANGED <<resources, task, gen>>
    BY <1>1, <1>4 DEF ClosePoisoned
  <2>2. closer' \in CloserType /\ closer'.pc = "idle"
    BY <1>1, <2>1, EndsIdle
  <2>3. RecoveryTypes'
    BY <1>1, <1>2, <2>1, <2>2 DEF RecoveryTypes, CloseFrame
  <2> QED
    BY <1>1, <1>2, <2>1, <2>2, <2>3, PoisonKeptKeeps
<1> QED
  BY <1>3, <1>4

(* close() is done with the current generator.                             *)
LEMMA CloseClosedKeeps ==
    ASSUME RecoveryInv, NEW ok \in BOOLEAN, CloseClosed(ok)
    PROVE  RecoveryInv'
<1>1. /\ RecoveryTypes /\ closer \in CloserType /\ closing /\ resources # None /\ task = None
      /\ closer.on \in Generators /\ Exists(closer.on)
      /\ \A g \in Unclean : g = closer.on
  BY ClosingState DEF CloseClosed
<1>2. CloseFrame /\ UNCHANGED <<waiter, closing>>
  BY DEF CloseClosed, CloseFrame
<1>3. AllKept(gen') /\ (ok => gen'[closer.on].clean)
  BY <1>1, CleanedKeeps, NoneTouched DEF CloseClosed
<1>4. PICK r \in IF ok THEN Unloaded ELSE {"unclean"} : DropResources(closer, r)
  BY DEF CloseClosed
<1>5. r \in {"clean", "unclean"} /\ (r = "clean" => ok)
  BY <1>4 DEF Unloaded
<1> QED
  BY <1>1, <1>2, <1>3, <1>4, <1>5, DropResourcesKeeps

(* Whatever close() does after it began.                                   *)
LEMMA CloseRunsKeeps ==
    ASSUME RecoveryInv, CloseRuns
    PROVE  RecoveryInv'
  BY AfterRecoveryKeeps, CloseQuiescedKeeps, CloseQuiesceFailsKeeps, ClosePoisonedKeeps,
     CloseClosedKeeps, CloseInterruptedKeeps DEF CloseRuns

(* A load finds no resources.                                              *)
LEMMA LoadStepKeeps ==
    ASSUME RecoveryInv, Load
    PROVE  RecoveryInv'
<1>1. loads' \in 0..MaxLoads
  BY ConstantsAssumption DEF RecoveryInv, RecoveryTypes, Load
<1>2. RecoveryTypes'
  BY <1>1 DEF RecoveryInv, RecoveryTypes, Load
<1> QED
  BY <1>2, LoadKeeps

(* Every step keeps the invariant.                                         *)
LEMMA NextKeeps == RecoveryInv /\ [RecoveryNext]_recoveryVars => RecoveryInv'
<1> SUFFICES ASSUME RecoveryInv, [RecoveryNext]_recoveryVars
             PROVE  RecoveryInv'
  OBVIOUS
<1>1. CASE RecoveryNext
  <2>1. ASSUME NEW g \in Generators, GeneratorStep(g)
        PROVE  RecoveryInv'
    BY <2>1, DiesKeeps, ObserverKeeps DEF GeneratorStep
  <2> QED
    BY <1>1, <2>1, LoadStepKeeps, RecoveryStepKeeps, SessionStepKeeps, WaiterStepKeeps,
       CloseBeginsKeeps, CancelsKeeps, CloseRunsKeeps DEF RecoveryNext
<1>2. CASE UNCHANGED recoveryVars
  <2>1. UNCHANGED <<sysmem, resources, loads, closing, lifecycle, rec, closer, gen, session, waiter>>
    BY <1>2 DEF recoveryVars
  <2>2. RecoveryTypes' /\ SessionsKept /\ AllKept(gen')
    BY <2>1, NoneTouched DEF RecoveryInv, RecoveryTypes, lifecycle, SessionsKept
  <2> QED
    BY <2>1, <2>2, FrameIsQuiet, QuietKeeps
<1> QED
  BY <1>1, <1>2

(* Induction over the behaviour.                                           *)
LEMMA Inductive == RecoverySpec => []RecoveryInv
<1> QED
  BY InitEstablishes, NextKeeps, PTL DEF RecoverySpec

-----------------------------------------------------------------------------
(* What follows.                                                           *)

(* The argument's invariant is enough: two generators on the loaded cache  *)
(* would be current and in quarantine at once.                             *)
LEMMA OwnedByInvariant == RecoveryInv => CacheIsOwned
<1> SUFFICES ASSUME RecoveryInv
             PROVE  CacheIsOwned
  OBVIOUS
<1>1. resources # None => Cardinality(Unclean) <= 1
  <2> SUFFICES ASSUME resources # None
               PROVE  Cardinality(Unclean) <= 1
    OBVIOUS
  <2>1. \A g, h \in Unclean : g = h
    BY DEF RecoveryInv, OwnInv, Unclean, Generators, None
  <2>2. CASE Unclean = {}
    BY <2>2, FS_EmptySet
  <2>3. CASE Unclean # {}
    <3>1. PICK g \in Unclean : Unclean = {g}
      BY <2>1, <2>3
    <3>2. Cardinality({g}) = 1
      BY FS_Singleton, Zenon
    <3> QED
      BY <3>1, <3>2
  <2> QED
    BY <2>2, <2>3
<1>2. OneGeneratorPerCache
  BY <1>1 DEF RecoveryInv, SysmemInv, OneGeneratorPerCache, Exists
<1>3. NothingIsLost
  BY DEF RecoveryInv, OwnInv, RecInv, NothingIsLost
<1> QED
  BY <1>2, <1>3 DEF RecoveryInv, CacheIsOwned

(* However failures, recoveries, submissions and close() interleave, the   *)
(* loaded K/V cache has at most one generator that was not closed, that    *)
(* one is referenced, and close() without an error has closed it.          *)
THEOREM CacheOwned == RecoverySpec => []CacheIsOwned
<1> QED
  BY Inductive, OwnedByInvariant, PTL

(* A session that fails while its generator's load is served is told a     *)
(* cause by _project_backend_failure, whoever reported the failure first.  *)
THEOREM CauseIsTold == RecoverySpec => FailureHasCause
<1> DEFINE A == \A s \in Sessions :
          (session[s].status = "live" /\ session'[s].status = "failed"
               /\ resources = gen[session[s].gen].load /\ ~closing)
              => session'[s].cause # "none"
<1>1. RecoveryInv /\ [RecoveryNext]_recoveryVars => [A]_recoveryVars
  <2> SUFFICES ASSUME RecoveryInv, RecoveryNext, NEW s \in Sessions, session[s].status = "live",
                      session'[s].status = "failed",
                      resources = gen[session[s].gen].load, ~closing
               PROVE  session'[s].cause # "none"
    OBVIOUS
  <2>1. session \in [Sessions -> SessionType]
    BY DEF RecoveryInv, RecoveryTypes
  <2>2. SessionFails(s)
    <3>1. PICK t \in Sessions : SessionStep(t)
      BY DEF RecoveryNext, Load, GeneratorStep, GeneratorDies, ObserverFires, RecoveryStep,
         RecoverStarts, RecoverQuiesceFails, RecoverStands, RecoverReplaces,
         RecoverConstructionFails, RecoverDiscards, RecoverDiscarded, WaiterStep,
         WaitBegins, WaitDeadline, WaitWakes, CloseBegins, CloseCancelsRecovery, CloseRuns,
         CloseAfterRecovery, CloseQuiesced, CloseQuiesceFails, ClosePoisoned, CloseClosed,
         CloseInterrupted
    <3>2. CASE SessionFails(t)
      BY <2>1, <3>2 DEF SessionFails
    <3>3. CASE SessionFinishes(t)
      <4>1. session[t] \in SessionType
        BY <2>1
      <4>2. session'[t].status = "finished" /\ (s # t => session'[s] = session[s])
        BY <2>1, <3>3, <4>1 DEF SessionFinishes, SessionType
      <4> QED
        BY <4>2
    <3>5. CASE SubmitRefused(t)
      <4> DEFINE c == IF closing THEN "none"
                      ELSE IF state = "RECOVERING" THEN "recovering" ELSE "restart"
                 r == [session[t] EXCEPT !.status = "refused", !.cause = c]
      <4>1. session[t] \in SessionType
        BY <2>1
      <4>2. r.status = "refused" /\ session' = [session EXCEPT ![t] = r]
        BY <2>1, <3>5, <4>1 DEF SubmitRefused, SessionType
      <4> HIDE DEF r
      <4> QED
        BY <2>1, <4>2
    <3>4. CASE Submit(t) \/ \E g \in Generators, h \in {"running", "error", "ended"} :
                               SubmitBuilds(t, g, h)
      BY <2>1, <3>4 DEF Submit, SubmitBuilds, SubmitOn
    <3> QED
      BY <3>1, <3>2, <3>3, <3>4, <3>5 DEF SessionStep
  <2> DEFINE g == session[s].gen
  <2>3. g \in Generators /\ Exists(g) /\ (gen[g].cause # "none" \/ g = current)
    BY ServedExists DEF RecoveryInv, CauseInv
  <2>4. ProjectFailure(g, gen, current) /\ session'[s].cause = gen'[g].cause
    BY <2>1, <2>2 DEF SessionFails
  <2> HIDE DEF g
  <2>5. gen'[g].cause # "none"
    BY <2>3, <2>4, NoneTouched, Projected DEF RecoveryInv, g
  <2> QED
    BY <2>4, <2>5
<1> QED
  BY <1>1, Inductive, PTL DEF RecoverySpec, FailureHasCause
=============================================================================
