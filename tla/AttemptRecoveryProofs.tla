------------------------ MODULE AttemptRecoveryProofs ------------------------
(***************************************************************************)
(* Proofs about AttemptRecovery, for every set of requests and of calls,   *)
(* any fan-out limit and any bound on the output: no output is shown and   *)
(* then replaced by that of another attempt, at most one extra attempt is  *)
(* made, Tool calls are shown as committed batches and in order, no        *)
(* runtime job outlives the request, and the consumer reads the terminal   *)
(* stream of a single attempt.                                             *)
(*                                                                         *)
(* What an attempt emits moves along a line: the buffer of the gate, the   *)
(* pending events of the session, the staged events of the outer session   *)
(* and what the consumer has seen.  The argument is about that line, which *)
(* a step extends at its end, shifts, or cuts short.                       *)
(***************************************************************************)
EXTENDS AttemptRecovery, FiniteSetTheorems, SequenceTheorems, WellFoundedInduction, TLAPS

EventType ==
    [kind : Kinds, call : Calls \cup {NoCall}, att : Attempts, at : Nat]
GateType ==
    [atomic : BOOLEAN, accepted : SUBSET Calls, completed : Seq(Calls),
     buffered : Seq(EventType), life : {"OPEN", "COMMITTED", "ABORTED"}]
AttemptType ==
    [job : {"none", "running", "ended", "cancelled"}, gate : GateType, pending : Seq(EventType),
     began : BOOLEAN, terminal : BOOLEAN, emitted : Nat, failure : Failures \cup {"none"}]

Setup == {"submit", "submitWait", "submitRetry", "rejected"}
Between == {"waiting", "factory", "starting", "discard"}
Over == {"yielded", "unwound"}

Types ==
    /\ request \in Requests
    /\ pc \in Setup \cup {"run"} \cup Between \cup Over
    /\ cur \in Attempts \cup {0}
    /\ att \in [Attempts -> AttemptType]
    /\ ordinal \in 1..2 /\ started \in 0..MaxObjects
    /\ staged \in Seq(EventType) /\ seen \in Seq(EventType)
    /\ published \in BOOLEAN /\ begun \in BOOLEAN /\ cancelled \in BOOLEAN
    /\ terminal \in BOOLEAN /\ released \in BOOLEAN
    /\ failure \in Failures \cup {"none"}
    /\ lease \in [active : BOOLEAN, replaySafe : BOOLEAN]
    /\ canceller \in Attempts \cup {0}
    /\ consumer \in {"absent", "reading", "leaving", "left"}

-----------------------------------------------------------------------------
(* Sequences of events.                                                    *)

CallEvents == {"tool_started", "tool_delta"}

(* All events of s are of these kinds, none is, all are of attempt k, all  *)
(* output and its completion is.                                           *)
Only(s, kinds) == \A i \in DOMAIN s : s[i].kind \in kinds
Lacks(s, kinds) == \A i \in DOMAIN s : s[i].kind \notin kinds
From(s, k) == \A i \in DOMAIN s : s[i].att = k
Owned(s, k) == \A i \in DOMAIN s : s[i].kind \in Output \cup {"completed"} => s[i].att = k

(* An event of a kind of X has one of a kind of Y somewhere before it.     *)
Behind(s, X, Y) ==
    \A i \in DOMAIN s : s[i].kind \in X => \E j \in DOMAIN s : j < i /\ s[j].kind \in Y

OneStart(s) == \A i, j \in DOMAIN s : s[i].kind = "started" /\ s[j].kind = "started" => i = j

Sorted(s) ==
    \A i, j \in DOMAIN s :
        i < j /\ s[i].kind \in Output /\ s[j].kind \in Output => s[i].at <= s[j].at
Bounded(s, n) == \A i \in DOMAIN s : s[i].kind \in Output => s[i].at <= n

(* The start of a call comes before everything else of it.                 *)
Announced(s) ==
    \A i \in DOMAIN s : s[i].kind \in {"tool_delta", "tool_completed"} =>
        \E j \in DOMAIN s : j < i /\ s[j].kind = "tool_started" /\ s[j].call = s[i].call

(* What an attempt showed in the order of the parser, which emitted n      *)
(* events before.                                                          *)
Line(s, n) == Sorted(s) /\ Bounded(s, n) /\ Announced(s)

-----------------------------------------------------------------------------
(* The inductive invariant.                                                *)

Streaming == ~RecoveryUnavailable /\ request.visibility = "streaming"
Buffering == ~RecoveryUnavailable /\ request.visibility = "buffered"

Fresh(k) ==
    /\ att[k].pending = <<>> /\ att[k].gate = NewGate(request.atomic)
    /\ ~att[k].began /\ ~att[k].terminal /\ att[k].emitted = 0

(* Where the request is, and how many attempts it took.                    *)
ControlInv ==
    /\ lease.active <=> ~released
    /\ released => \A k \in Attempts : att[k].job # "running"
    /\ pc \in Setup =>
          /\ cur = 0 /\ seen = <<>> /\ staged = <<>> /\ ~published /\ ~begun
          /\ canceller = 0 /\ consumer = "absent"
    /\ pc \notin Setup => cur \in Attempts /\ consumer # "absent"
    /\ started <= 2
    /\ pc = "submit" => started = 0
    /\ pc \in {"submitWait", "submitRetry"} => started <= 1
    /\ pc = "run" => cur = started /\ (ordinal = 1 => started = 1)
    /\ pc \in {"waiting", "factory"} => cur = 1 /\ started = 1 /\ ordinal = 1
    /\ pc = "starting" => cur = 1 /\ started = 2 /\ ordinal = 1 /\ Fresh(2)
    /\ pc \in Between => ~RecoveryUnavailable /\ ~published

(* What the outer session holds back, by the mode of the request.          *)
StageInv ==
    /\ Lacks(staged, Terminals)
    /\ Streaming => Only(staged, CallEvents \cup {"usage"})
    /\ RecoveryUnavailable => staged = <<>>
    /\ published => Streaming /\ staged = <<>>
    /\ pc \notin Over /\ Buffering => seen = <<>>
    /\ pc \notin Over /\ Streaming /\ ~published => Only(seen, {"started"})
    /\ pc \notin Over /\ Streaming /\ ~begun => Lacks(seen, {"started"})
    /\ pc \notin Over => Lacks(seen, Terminals)

Committed == cur # 0 /\ att[cur].gate.life = "COMMITTED"

(* What the consumer has seen.                                             *)
SeenInv ==
    /\ OneStart(seen) /\ Sorted(seen) /\ Announced(seen)
    /\ Owned(seen, cur)
    /\ Committed \/ Lacks(seen, {"tool_completed"})
    /\ Lacks(seen, {"tool_completed"}) \/ Lacks(seen, {"failed", "cancelled"})
    /\ \/ Committed
       \/ Lacks(seen, CallEvents)
       \/ ~request.atomic /\ (RecoveryUnavailable \/ Behind(seen, CallEvents, {"text"}))
    /\ pc = "yielded" => ~Lacks(seen, Terminals)

(* The gate of attempt a, its buffer, and the end of the attempt.          *)
GateInv(a) ==
    /\ a.gate.atomic = request.atomic
    /\ a.gate.life # "OPEN" => a.gate.buffered = <<>>
    /\ a.gate.life = "COMMITTED" => a.terminal
    /\ a.gate.life = "ABORTED" => a.terminal \/ canceller = cur \/ a.job # "running"
    /\ From(a.pending, cur) /\ From(a.gate.buffered, cur)
    /\ Only(a.gate.buffered, Output)
    /\ a.gate.buffered = <<>> \/ ~Lacks(a.gate.buffered, {"tool_completed"})
    /\ Behind(a.gate.buffered, {"text"}, {"tool_completed"})
    /\ a.gate.life = "COMMITTED" => Lacks(a.pending, {"failed", "cancelled"})
    /\ a.gate.life # "COMMITTED" => Lacks(a.pending, {"completed", "tool_completed"})
    /\ a.gate.life # "COMMITTED" /\ request.atomic => Lacks(a.pending, CallEvents)

(* The start of the attempt is seen once.                                  *)
StartInv(a) ==
    /\ OneStart(staged)
    /\ ~a.began \/ ~Lacks(a.pending, {"started"}) =>
          Lacks(staged, {"started"}) /\ (RecoveryUnavailable => Lacks(seen, {"started"}))
    /\ ~a.began => Lacks(a.pending, {"started"}) /\ a.gate.buffered = <<>>
    /\ Lacks(a.pending, {"started"}) \/ (Len(a.pending) = 1 /\ a.gate.buffered = <<>>)

Consumed == IF published \/ RecoveryUnavailable THEN seen ELSE staged

(* Before anything public is published, a call that is on its way to the   *)
(* consumer has no text behind it but what waits for the whole batch.      *)
QuietInv(a) ==
    Streaming /\ ~published =>
        \/ Lacks(staged, CallEvents) /\ Lacks(a.pending, CallEvents)
        \/ /\ Behind(a.pending, {"text"}, {"tool_completed"})
           /\ a.gate.life = "OPEN" => a.gate.buffered # <<>>

(* What is staged or shown of the attempt that runs.                       *)
ShownInv ==
    /\ From(staged, cur)
    /\ Committed \/ Lacks(staged, {"tool_completed"})
    /\ Committed \/ ~request.atomic \/ Lacks(staged, CallEvents)
    /\ published => Committed \/ ~Lacks(seen, {"text"})

(* The session of the attempt that runs.                                   *)
RunInv ==
    pc = "run" =>
        /\ GateInv(att[cur]) /\ StartInv(att[cur]) /\ QuietInv(att[cur]) /\ ShownInv
        /\ Line(Consumed \o att[cur].pending \o att[cur].gate.buffered, att[cur].emitted)

IndInv == Types /\ ControlInv /\ StageInv /\ SeenInv /\ RunInv

-----------------------------------------------------------------------------
(* Lemmas about sequences.                                                 *)

(* Where the elements of a concatenation come from.                        *)
LEMMA ConcatIs ==
    ASSUME NEW X, NEW s \in Seq(X), NEW t \in Seq(X)
    PROVE  /\ s \o t \in Seq(X) /\ Len(s) \in Nat /\ Len(t) \in Nat
           /\ DOMAIN s = 1..Len(s) /\ DOMAIN t = 1..Len(t) /\ DOMAIN (s \o t) = 1..Len(s) + Len(t)
           /\ \A i \in DOMAIN s : i \in DOMAIN (s \o t) /\ (s \o t)[i] = s[i]
           /\ \A i \in DOMAIN t : Len(s) + i \in DOMAIN (s \o t) /\ (s \o t)[Len(s) + i] = t[i]
           /\ \A i \in DOMAIN (s \o t) :
                 \/ i \in DOMAIN s
                 \/ i - Len(s) \in DOMAIN t /\ (s \o t)[i] = t[i - Len(s)] /\ i > Len(s)
<1>1. /\ s \o t \in Seq(X) /\ Len(s) \in Nat /\ Len(t) \in Nat
      /\ DOMAIN s = 1..Len(s) /\ DOMAIN t = 1..Len(t) /\ DOMAIN (s \o t) = 1..Len(s) + Len(t)
    OBVIOUS
<1>2. \A i \in 1..Len(s) + Len(t) : (s \o t)[i] = IF i <= Len(s) THEN s[i] ELSE t[i - Len(s)]
    OBVIOUS
<1>3. \A i \in DOMAIN s : i \in DOMAIN (s \o t) /\ (s \o t)[i] = s[i]
    BY <1>1, <1>2
<1>4. \A i \in DOMAIN t : Len(s) + i \in DOMAIN (s \o t) /\ (s \o t)[Len(s) + i] = t[i]
    BY <1>1, <1>2
<1>5. \A i \in DOMAIN (s \o t) :
          \/ i \in DOMAIN s
          \/ i - Len(s) \in DOMAIN t /\ (s \o t)[i] = t[i - Len(s)] /\ i > Len(s)
    BY <1>1, <1>2
<1> QED
    BY <1>1, <1>3, <1>4, <1>5

(* A line is put together from its parts in either order.                  *)
LEMMA Regroup ==
    ASSUME NEW s \in Seq(EventType), NEW t \in Seq(EventType), NEW u \in Seq(EventType)
    PROVE  /\ (s \o t) \o u = s \o (t \o u)
           /\ s \o t \in Seq(EventType) /\ t \o u \in Seq(EventType)
           /\ s \o t \o u \in Seq(EventType)
           /\ s \o <<>> = s /\ <<>> \o s = s
BY ConcatAssociative, ConcatProperties, ConcatEmptySeq

(* The parts of this by themselves.                                        *)
LEMMA JoinIs ==
    ASSUME NEW s \in Seq(EventType), NEW t \in Seq(EventType)
    PROVE  s \o t \in Seq(EventType)
BY ConcatProperties

(* Three sequences are put together in either order.                       *)
LEMMA JoinAgain ==
    ASSUME NEW s \in Seq(EventType), NEW t \in Seq(EventType), NEW u \in Seq(EventType)
    PROVE  (s \o t) \o u = s \o (t \o u)
BY Regroup

(* An instance of it, to be named where many sequences are at hand.        *)
Regroups(s, t, u) == (s \o t) \o u = s \o (t \o u)

(* The same, as a fact about three given sequences.                        *)
LEMMA RegroupsIs ==
    ASSUME NEW s \in Seq(EventType), NEW t \in Seq(EventType), NEW u \in Seq(EventType)
    PROVE  Regroups(s, t, u)
BY JoinAgain DEF Regroups

(* Nothing is added by an empty one.                                       *)
LEMMA JoinEmpty ==
    ASSUME NEW s \in Seq(EventType)
    PROVE  s \o <<>> = s /\ <<>> \o s = s
BY Regroup

(* The same when the last part is a single event.                          *)
LEMMA RegroupOne ==
    ASSUME NEW s \in Seq(EventType), NEW t \in Seq(EventType), NEW e \in EventType
    PROVE  s \o t \o <<e>> = s \o (t \o <<e>>) /\ s \o <<e>> \in Seq(EventType)
<1>1. <<e>> \in Seq(EventType)
    OBVIOUS
<1> QED
    BY <1>1, Regroup

(* What holds of every event of two sequences holds of all of both.        *)
LEMMA ConcatAll ==
    ASSUME NEW s \in Seq(EventType), NEW t \in Seq(EventType), NEW K, NEW k
    PROVE  /\ Lacks(s \o t, K) <=> Lacks(s, K) /\ Lacks(t, K)
           /\ Only(s \o t, K) <=> Only(s, K) /\ Only(t, K)
           /\ From(s \o t, k) <=> From(s, k) /\ From(t, k)
           /\ Bounded(s \o t, k) <=> Bounded(s, k) /\ Bounded(t, k)
           /\ Owned(s \o t, k) <=> Owned(s, k) /\ Owned(t, k)
<1> DEFINE u == s \o t
<1>1. /\ \A i \in DOMAIN s : i \in DOMAIN u /\ u[i] = s[i]
      /\ \A i \in DOMAIN t : Len(s) + i \in DOMAIN u /\ u[Len(s) + i] = t[i]
      /\ \A i \in DOMAIN u : \/ i \in DOMAIN s
                             \/ i - Len(s) \in DOMAIN t /\ u[i] = t[i - Len(s)]
    BY ConcatIs
<1> HIDE DEF u
<1>2. Lacks(u, K) <=> Lacks(s, K) /\ Lacks(t, K)
    BY <1>1 DEF Lacks
<1>3. Only(u, K) <=> Only(s, K) /\ Only(t, K)
    BY <1>1 DEF Only
<1>4. From(u, k) <=> From(s, k) /\ From(t, k)
    BY <1>1 DEF From
<1>5. Bounded(u, k) <=> Bounded(s, k) /\ Bounded(t, k)
    BY <1>1 DEF Bounded
<1>6. Owned(u, k) <=> Owned(s, k) /\ Owned(t, k)
    BY <1>1 DEF Owned
<1> QED
    BY <1>2, <1>3, <1>4, <1>5, <1>6 DEF u

(* One of these by itself: no event is of a kind of K.                     *)
LEMMA ConcatLacks ==
    ASSUME NEW s \in Seq(EventType), NEW t \in Seq(EventType), NEW K
    PROVE  Lacks(s \o t, K) <=> Lacks(s, K) /\ Lacks(t, K)
BY ConcatAll

(* The whole is of one attempt when both parts are.                        *)
LEMMA ConcatFrom ==
    ASSUME NEW s \in Seq(EventType), NEW t \in Seq(EventType), NEW k
    PROVE  From(s \o t, k) <=> From(s, k) /\ From(t, k)
BY ConcatAll

(* The predicates of a concatenation that look behind an event.            *)
LEMMA ConcatBehind ==
    ASSUME NEW s \in Seq(EventType), NEW t \in Seq(EventType), NEW X, NEW Y,
           Behind(s, X, Y), Behind(t, X, Y) \/ Lacks(t, X) \/ ~Lacks(s, Y)
    PROVE  Behind(s \o t, X, Y)
<1> DEFINE u == s \o t
<1>1. /\ DOMAIN s = 1..Len(s) /\ DOMAIN t = 1..Len(t) /\ Len(s) \in Nat /\ Len(t) \in Nat
      /\ \A i \in DOMAIN s : i \in DOMAIN u /\ u[i] = s[i]
      /\ \A i \in DOMAIN t : Len(s) + i \in DOMAIN u /\ u[Len(s) + i] = t[i]
      /\ \A i \in DOMAIN u : \/ i \in DOMAIN s
                             \/ i - Len(s) \in DOMAIN t /\ u[i] = t[i - Len(s)] /\ i > Len(s)
      /\ DOMAIN u = 1..Len(s) + Len(t)
    BY ConcatIs
<1> HIDE DEF u
<1>2. SUFFICES ASSUME NEW i \in DOMAIN u, u[i].kind \in X
               PROVE  \E j \in DOMAIN u : j < i /\ u[j].kind \in Y
    BY DEF Behind, u
<1>3. CASE i \in DOMAIN s
  <2>1. PICK j \in DOMAIN s : j < i /\ s[j].kind \in Y
      BY <1>1, <1>2, <1>3 DEF Behind
  <2> QED
      BY <1>1, <2>1
<1>4. CASE i - Len(s) \in DOMAIN t /\ u[i] = t[i - Len(s)] /\ i > Len(s)
  <2>1. CASE Behind(t, X, Y)
    <3>1. PICK j \in DOMAIN t : j < i - Len(s) /\ t[j].kind \in Y
        BY <1>2, <1>4, <2>1 DEF Behind
    <3>2. Len(s) + j < i /\ Len(s) + j \in DOMAIN u /\ u[Len(s) + j] = t[j]
        BY <1>1, <3>1
    <3> QED
        BY <3>1, <3>2
  <2>2. CASE Lacks(t, X)
      BY <1>2, <1>4, <2>2 DEF Lacks
  <2>3. CASE ~Lacks(s, Y)
    <3>1. PICK j \in DOMAIN s : s[j].kind \in Y
        BY <2>3 DEF Lacks
    <3>2. j < i /\ j \in DOMAIN u /\ u[j] = s[j]
        BY <1>1, <1>4, <3>1
    <3> QED
        BY <3>1, <3>2
  <2> QED
      BY <2>1, <2>2, <2>3
<1> QED
    BY <1>1, <1>3, <1>4

(* The whole starts once when only one part may start.                     *)
LEMMA ConcatOneStart ==
    ASSUME NEW s \in Seq(EventType), NEW t \in Seq(EventType), OneStart(s), OneStart(t),
           Lacks(s, {"started"}) \/ Lacks(t, {"started"})
    PROVE  OneStart(s \o t)
<1> DEFINE u == s \o t
<1>1. /\ DOMAIN s = 1..Len(s) /\ DOMAIN t = 1..Len(t) /\ Len(s) \in Nat /\ Len(t) \in Nat
      /\ \A i \in DOMAIN s : u[i] = s[i]
      /\ \A i \in DOMAIN u : \/ i \in DOMAIN s
                             \/ i - Len(s) \in DOMAIN t /\ u[i] = t[i - Len(s)] /\ i > Len(s)
      /\ DOMAIN u = 1..Len(s) + Len(t)
    BY ConcatIs
<1> HIDE DEF u
<1>2. SUFFICES ASSUME NEW i \in DOMAIN u, NEW j \in DOMAIN u,
                      u[i].kind = "started", u[j].kind = "started"
               PROVE  i = j
    BY DEF OneStart, u
<1>3. CASE Lacks(t, {"started"})
  <2>1. i \in DOMAIN s /\ j \in DOMAIN s
      BY <1>1, <1>2, <1>3 DEF Lacks
  <2> QED
      BY <1>1, <1>2, <2>1 DEF OneStart
<1>4. CASE Lacks(s, {"started"})
  <2>1. /\ i - Len(s) \in DOMAIN t /\ t[i - Len(s)].kind = "started"
        /\ j - Len(s) \in DOMAIN t /\ t[j - Len(s)].kind = "started"
      BY <1>1, <1>2, <1>4 DEF Lacks
  <2>2. i - Len(s) = j - Len(s)
      BY <2>1 DEF OneStart
  <2> QED
      BY <1>1, <2>2
<1> QED
    BY <1>3, <1>4

(* A start of a line is one.                                               *)
LEMMA LinePrefix ==
    ASSUME NEW s \in Seq(EventType), NEW t \in Seq(EventType), NEW n \in Nat, Line(s \o t, n)
    PROVE  Line(s, n)
<1> DEFINE u == s \o t
<1>1. /\ DOMAIN s = 1..Len(s) /\ DOMAIN t = 1..Len(t) /\ Len(s) \in Nat /\ Len(t) \in Nat
      /\ \A i \in DOMAIN s : i \in DOMAIN u /\ u[i] = s[i]
      /\ DOMAIN u = 1..Len(s) + Len(t)
    BY ConcatIs
<1>2. Sorted(u) /\ Bounded(u, n) /\ Announced(u)
    BY DEF Line
<1> HIDE DEF u
<1>3. Sorted(s)
    BY <1>1, <1>2 DEF Sorted
<1>4. Bounded(s, n)
    BY <1>1, <1>2 DEF Bounded
<1>5. ASSUME NEW i \in DOMAIN s, s[i].kind \in {"tool_delta", "tool_completed"}
      PROVE  \E j \in DOMAIN s : j < i /\ s[j].kind = "tool_started" /\ s[j].call = s[i].call
  <2>1. i \in DOMAIN u /\ u[i] = s[i]
      BY <1>1
  <2>2. PICK j \in DOMAIN u : j < i /\ u[j].kind = "tool_started" /\ u[j].call = u[i].call
      BY <1>2, <1>5, <2>1 DEF Announced
  <2>3. j \in DOMAIN s
      BY <1>1, <1>5, <2>2
  <2> QED
      BY <1>1, <2>1, <2>2, <2>3
<1> QED
    BY <1>3, <1>4, <1>5 DEF Line, Announced

(* Events that carry no output may be put in front of a line, or taken     *)
(* away from it.                                                           *)
LEMMA LineSkips ==
    ASSUME NEW s \in Seq(EventType), NEW t \in Seq(EventType), NEW n \in Nat, Lacks(s, Output)
    PROVE  Line(s \o t, n) <=> Line(t, n)
<1> DEFINE u == s \o t
<1>1. /\ DOMAIN s = 1..Len(s) /\ DOMAIN t = 1..Len(t) /\ Len(s) \in Nat /\ Len(t) \in Nat
      /\ \A i \in DOMAIN s : i \in DOMAIN u /\ u[i] = s[i]
      /\ \A i \in DOMAIN t : Len(s) + i \in DOMAIN u /\ u[Len(s) + i] = t[i]
      /\ \A i \in DOMAIN u : \/ i \in DOMAIN s
                             \/ i - Len(s) \in DOMAIN t /\ u[i] = t[i - Len(s)] /\ i > Len(s)
      /\ DOMAIN u = 1..Len(s) + Len(t)
    BY ConcatIs
<1>2. \A i \in DOMAIN s : s[i].kind \notin Output
    BY DEF Lacks
<1>k. {"tool_delta", "tool_completed", "tool_started"} \subseteq Output
    BY DEF Output
<1> HIDE DEF u
<1>3. \A i \in DOMAIN u : u[i].kind \in Output => i - Len(s) \in DOMAIN t /\ u[i] = t[i - Len(s)]
    BY <1>1, <1>2
<1>4. Sorted(u) <=> Sorted(t)
  <2>1. ASSUME Sorted(t), NEW i \in DOMAIN u, NEW j \in DOMAIN u, i < j, u[i].kind \in Output,
               u[j].kind \in Output
        PROVE  u[i].at <= u[j].at
    <3>1. i - Len(s) < j - Len(s)
        BY <1>1, <2>1
    <3> QED
        BY <1>3, <2>1, <3>1 DEF Sorted
  <2>2. ASSUME Sorted(u), NEW i \in DOMAIN t, NEW j \in DOMAIN t, i < j, t[i].kind \in Output,
               t[j].kind \in Output
        PROVE  t[i].at <= t[j].at
    <3>1. Len(s) + i < Len(s) + j
        BY <1>1, <2>2
    <3> QED
        BY <1>1, <2>2, <3>1 DEF Sorted
  <2> QED
      BY <2>1, <2>2 DEF Sorted
<1>5. Bounded(u, n) <=> Bounded(t, n)
    BY <1>1, <1>3 DEF Bounded
<1>6. Announced(u) <=> Announced(t)
  <2>1. ASSUME Announced(t), NEW i \in DOMAIN u, u[i].kind \in {"tool_delta", "tool_completed"}
        PROVE  \E j \in DOMAIN u : j < i /\ u[j].kind = "tool_started" /\ u[j].call = u[i].call
    <3>1. i - Len(s) \in DOMAIN t /\ u[i] = t[i - Len(s)]
        BY <1>k, <1>3, <2>1
    <3>2. PICK j \in DOMAIN t : j < i - Len(s) /\ t[j].kind = "tool_started" /\ t[j].call = u[i].call
        BY <2>1, <3>1 DEF Announced
    <3>3. Len(s) + j < i /\ Len(s) + j \in DOMAIN u /\ u[Len(s) + j] = t[j]
        BY <1>1, <3>2
    <3> QED
        BY <3>2, <3>3
  <2>2. ASSUME Announced(u), NEW i \in DOMAIN t, t[i].kind \in {"tool_delta", "tool_completed"}
        PROVE  \E j \in DOMAIN t : j < i /\ t[j].kind = "tool_started" /\ t[j].call = t[i].call
    <3>1. Len(s) + i \in DOMAIN u /\ u[Len(s) + i] = t[i]
        BY <1>1
    <3>2. PICK j \in DOMAIN u : j < Len(s) + i /\ u[j].kind = "tool_started" /\ u[j].call = t[i].call
        BY <2>2, <3>1 DEF Announced
    <3>3. j - Len(s) \in DOMAIN t /\ u[j] = t[j - Len(s)]
        BY <1>k, <1>3, <3>2
    <3>4. j - Len(s) < i
        BY <1>1, <3>2
    <3> QED
        BY <3>2, <3>3, <3>4
  <2> QED
      BY <2>1, <2>2 DEF Announced
<1> QED
    BY <1>4, <1>5, <1>6 DEF Line, u

(* An event the parser emits now may be put behind a line: everything of   *)
(* its call but the start needs the start to be there.                     *)
LEMMA LineGrows ==
    ASSUME NEW s \in Seq(EventType), NEW e \in EventType, NEW n \in Nat, Line(s, n),
           e.kind \in Output => e.at = n,
           e.kind \in {"tool_delta", "tool_completed"} =>
               \E j \in DOMAIN s : s[j].kind = "tool_started" /\ s[j].call = e.call
    PROVE  Line(s \o <<e>>, n)
<1> DEFINE u == s \o <<e>>
<1>1. /\ DOMAIN s = 1..Len(s) /\ Len(s) \in Nat
      /\ \A i \in DOMAIN s : i \in DOMAIN u /\ u[i] = s[i]
      /\ u[Len(s) + 1] = e
      /\ DOMAIN u = 1..Len(s) + 1
    OBVIOUS
<1>2. Sorted(s) /\ Bounded(s, n) /\ Announced(s)
    BY DEF Line
<1> HIDE DEF u
<1>3. \A i \in DOMAIN u : i \in DOMAIN s \/ i = Len(s) + 1
    BY <1>1
<1>4. Bounded(u, n)
    BY <1>1, <1>2, <1>3 DEF Bounded
<1>5. ASSUME NEW i \in DOMAIN u, NEW j \in DOMAIN u, i < j, u[i].kind \in Output, u[j].kind \in Output
      PROVE  u[i].at <= u[j].at
  <2>1. i \in DOMAIN s /\ u[i] = s[i]
      BY <1>1, <1>3, <1>5
  <2>2. CASE j \in DOMAIN s
      BY <1>1, <1>2, <1>5, <2>1, <2>2 DEF Sorted
  <2>3. CASE j = Len(s) + 1
      BY <1>1, <1>2, <1>5, <2>1, <2>3 DEF Bounded
  <2> QED
      BY <1>3, <2>2, <2>3
<1>6. ASSUME NEW i \in DOMAIN u, u[i].kind \in {"tool_delta", "tool_completed"}
      PROVE  \E j \in DOMAIN u : j < i /\ u[j].kind = "tool_started" /\ u[j].call = u[i].call
  <2>1. CASE i \in DOMAIN s
    <3>1. PICK j \in DOMAIN s : j < i /\ s[j].kind = "tool_started" /\ s[j].call = s[i].call
        BY <1>1, <1>2, <1>6, <2>1 DEF Announced
    <3> QED
        BY <1>1, <2>1, <3>1
  <2>2. CASE i = Len(s) + 1
    <3>1. PICK j \in DOMAIN s : s[j].kind = "tool_started" /\ s[j].call = e.call
        BY <1>1, <1>6, <2>2
    <3>2. j < i
        BY <1>1, <2>2
    <3> QED
        BY <1>1, <2>2, <3>1, <3>2
  <2> QED
      BY <1>3, <2>1, <2>2
<1> QED
    BY <1>4, <1>5, <1>6 DEF Line, Sorted, Announced, u

(* A line numbered below n is one below n + 1.                             *)
LEMMA LineMonotone ==
    ASSUME NEW s \in Seq(EventType), NEW n \in Nat, Line(s, n)
    PROVE  Line(s, n + 1)
<1>1. \A i \in DOMAIN s : s[i] \in EventType
    OBVIOUS
<1>2. \A i \in DOMAIN s : s[i].at \in Nat
    BY <1>1 DEF EventType
<1> QED
    BY <1>2 DEF Line, Bounded

(* The empty sequence and those of one event.                              *)
LEMMA EmptyIs ==
    ASSUME NEW K, NEW L, NEW k, NEW n \in Nat
    PROVE  /\ <<>> \in Seq(EventType) /\ Lacks(<<>>, K) /\ Only(<<>>, K) /\ From(<<>>, k)
           /\ Behind(<<>>, K, L) /\ OneStart(<<>>) /\ Line(<<>>, n) /\ Sorted(<<>>) /\ Announced(<<>>)
BY DEF Lacks, Only, From, Behind, OneStart, Line, Sorted, Bounded, Announced

(* What is true of one event is true of the sequence of it.                *)
LEMMA SingleIs ==
    ASSUME NEW e \in EventType, NEW K, NEW L, NEW k
    PROVE  /\ <<e>> \in Seq(EventType) /\ OneStart(<<e>>) /\ <<e>> # <<>> /\ Len(<<e>>) = 1
           /\ Lacks(<<e>>, K) <=> e.kind \notin K
           /\ Only(<<e>>, K) <=> e.kind \in K
           /\ From(<<e>>, k) <=> e.att = k
           /\ Behind(<<e>>, K, L) <=> e.kind \notin K
<1>1. DOMAIN <<e>> = {1} /\ <<e>>[1] = e
    OBVIOUS
<1> QED
    BY <1>1 DEF Lacks, Only, From, Behind, OneStart

(* A queue is its first event and the rest.                                *)
LEMMA SplitIs ==
    ASSUME NEW p \in Seq(EventType), p # <<>>
    PROVE  /\ Head(p) \in EventType /\ Tail(p) \in Seq(EventType)
           /\ p = <<Head(p)>> \o Tail(p)
           /\ Len(p) = 1 => Tail(p) = <<>>
<1>1. Head(p) \in EventType /\ Tail(p) \in Seq(EventType)
    OBVIOUS
<1>2. Len(p) = 1 => Tail(p) = <<>>
  <2>1. Len(Tail(p)) = Len(p) - 1 /\ Len(p) \in Nat
      BY HeadTailProperties
  <2>2. Tail(p) # <<>> => Len(Tail(p)) \in Nat \ {0}
      BY <1>1, EmptySeq
  <2> QED
      BY <2>1, <2>2
<1>3. Len(<<Head(p)>> \o Tail(p)) = Len(p) /\ <<Head(p)>> \o Tail(p) \in Seq(EventType)
    OBVIOUS
<1>4. \A i \in 1..Len(p) : p[i] = (<<Head(p)>> \o Tail(p))[i]
    OBVIOUS
<1>5. p = <<Head(p)>> \o Tail(p)
    BY <1>3, <1>4, SeqEqual
<1> QED
    BY <1>1, <1>2, <1>5

(* A sequence without kinds has no subset of them, one of kinds only has   *)
(* no other.                                                               *)
LEMMA LacksLess ==
    ASSUME NEW s, NEW K, NEW L
    PROVE  /\ Lacks(s, K) /\ L \subseteq K => Lacks(s, L)
           /\ Only(s, K) /\ K \subseteq L => Only(s, L)
           /\ Only(s, K) /\ K \cap L = {} => Lacks(s, L)
           /\ Lacks(s, K) => Behind(s, K, L)
BY DEF Lacks, Only, Behind

(* Every nonempty set of numbers has a least element.                      *)
LEMMA LeastNumber ==
    ASSUME NEW T \in SUBSET Nat, T # {}
    PROVE  \E x \in T : \A y \in T : x <= y
<1> DEFINE R == OpToRel(<, Nat)
<1>1. \A x, y \in Nat : y < x => <<y, x>> \in R
    BY DEF OpToRel
<1>2. IsWellFoundedOn(R, Nat)
    BY NatLessThanWellFounded
<1> HIDE DEF R
<1>3. PICK x \in T : \A y \in T : ~(<<y, x>> \in R)
    BY <1>2, WFMin
<1>4. \A y \in T : ~(y < x)
    BY <1>1, <1>3
<1> QED
    BY <1>4

(* The function that filters a sequence step by step exists: there is no   *)
(* least prefix for which there is none.                                   *)
LEMMA FilterExists ==
    ASSUME NEW S, NEW q \in Seq(S)
    PROVE  \E f : f = [n \in 0..Len(q) |->
                          IF n = 0 THEN <<>>
                          ELSE IF IsStagedTool(q[n]) THEN f[n - 1] ELSE Append(f[n - 1], q[n])]
<1> DEFINE Good(f, m) ==
        f = [n \in 0..m |->
                IF n = 0 THEN <<>>
                ELSE IF IsStagedTool(q[n]) THEN f[n - 1] ELSE Append(f[n - 1], q[n])]
    Bad == {m \in 0..Len(q) : ~ \E f : Good(f, m)}
<1>0. Bad \in SUBSET Nat
    OBVIOUS
<1>1. ASSUME Bad # {} PROVE FALSE
  <2>1. PICK m \in Bad : \A k \in Bad : m <= k
      BY <1>0, <1>1, LeastNumber
  <2>2. Good([n \in {0} |-> <<>>], 0)
      OBVIOUS
  <2>3. m # 0
      BY <2>2
  <2>4. m - 1 \in 0..Len(q) /\ ~(m <= m - 1) /\ m \in Nat
      BY <2>3
  <2>5. PICK f : Good(f, m - 1)
      BY <2>1, <2>4
  <2> DEFINE v == IF IsStagedTool(q[m]) THEN f[m - 1] ELSE Append(f[m - 1], q[m])
             g == [n \in 0..m |-> IF n = m THEN v ELSE f[n]]
  <2>6. \A n \in 0..(m - 1) : g[n] = f[n]
      BY <2>4
  <2>7. \A n \in 0..(m - 1) :
            f[n] = IF n = 0 THEN <<>>
                   ELSE IF IsStagedTool(q[n]) THEN f[n - 1] ELSE Append(f[n - 1], q[n])
      BY <2>5
  <2>8. ASSUME NEW n \in 0..m
        PROVE  g[n] = IF n = 0 THEN <<>>
                      ELSE IF IsStagedTool(q[n]) THEN g[n - 1] ELSE Append(g[n - 1], q[n])
    <3>1. CASE n = m
        BY <3>1, <2>3, <2>4, <2>6
    <3>2. CASE n # m
      <4>1. n \in 0..(m - 1) /\ (n # 0 => n - 1 \in 0..(m - 1))
          BY <3>2, <2>4
      <4> QED
          BY <4>1, <2>6, <2>7
    <3> QED
        BY <3>1, <3>2
  <2>9. Good(g, m)
      BY <2>8
  <2> QED
      BY <2>9
<1> QED
    BY <1>1

(* What _drain_staged_for_publication keeps of a call that is not          *)
(* validated: events that were staged, none of them of a call.             *)
LEMMA FilterIs ==
    ASSUME NEW S, NEW q \in Seq(S)
    PROVE  WithoutStagedTools(q) \in Seq({e \in S : ~IsStagedTool(e)})
<1> DEFINE U == {e \in S : ~IsStagedTool(e)}
           kept[n \in 0..Len(q)] ==
               IF n = 0 THEN <<>>
               ELSE IF IsStagedTool(q[n]) THEN kept[n - 1] ELSE Append(kept[n - 1], q[n])
<1>1. kept = [n \in 0..Len(q) |->
                 IF n = 0 THEN <<>>
                 ELSE IF IsStagedTool(q[n]) THEN kept[n - 1] ELSE Append(kept[n - 1], q[n])]
    BY FilterExists DEF kept
<1> HIDE DEF kept
<1> DEFINE Bad == {m \in 0..Len(q) : kept[m] \notin Seq(U)}
<1>2. ASSUME Bad # {} PROVE FALSE
  <2>0. Bad \in SUBSET Nat
      OBVIOUS
  <2>1. PICK m \in Bad : \A k \in Bad : m <= k
      BY <2>0, <1>2, LeastNumber
  <2>2. m # 0
      BY <1>1
  <2>3. m - 1 \in 0..Len(q) /\ ~(m <= m - 1) /\ m \in 1..Len(q)
      BY <2>2
  <2>4. kept[m - 1] \in Seq(U)
      BY <2>1, <2>3
  <2>5. kept[m] = IF IsStagedTool(q[m]) THEN kept[m - 1] ELSE Append(kept[m - 1], q[m])
      BY <1>1, <2>2
  <2>6. q[m] \in S
      BY <2>3
  <2>7. kept[m] \in Seq(U)
      BY <2>4, <2>5, <2>6
  <2> QED
      BY <2>7
<1>3. kept[Len(q)] \in Seq(U)
    BY <1>2
<1> QED
    BY <1>3 DEF WithoutStagedTools, kept

(* In the streaming mode only usage records are left.                      *)
LEMMA DrainIs ==
    ASSUME NEW q \in Seq(EventType), Only(q, CallEvents \cup {"usage"})
    PROVE  WithoutStagedTools(q) \in Seq(EventType) /\ Only(WithoutStagedTools(q), {"usage"})
<1> DEFINE S == {e \in EventType : e.kind \in CallEvents \cup {"usage"}}
           T == {e \in S : ~IsStagedTool(e)}
<1>1. q \in Seq(S)
  <2>1. \A i \in 1..Len(q) : q[i] \in S
      BY DEF Only
  <2> QED
      BY <2>1
<1>2. WithoutStagedTools(q) \in Seq(T)
    BY <1>1, FilterIs
<1>3. \A e \in T : e \in EventType /\ e.kind = "usage"
    BY DEF IsStagedTool, CallEvents
<1> HIDE DEF S, T
<1>4. WithoutStagedTools(q) \in Seq(EventType)
    BY <1>2, <1>3, SeqMonotonic
<1>5. \A i \in DOMAIN WithoutStagedTools(q) : WithoutStagedTools(q)[i] \in T
    BY <1>2
<1> QED
    BY <1>3, <1>4, <1>5 DEF Only

-----------------------------------------------------------------------------
(* Lemmas about the gate and the classification of failures.               *)

(* A new gate has its type.                                                *)
LEMMA NewGateIs ==
    ASSUME NEW b \in BOOLEAN
    PROVE  NewGate(b) \in GateType
BY DEF NewGate, GateType

(* Aborting empties an open gate and leaves a committed one alone.         *)
LEMMA AbortIs ==
    ASSUME NEW g \in GateType
    PROVE  /\ Abort(g) \in GateType /\ Abort(g).atomic = g.atomic
           /\ g.life = "COMMITTED" => Abort(g) = g
           /\ g.life # "COMMITTED" => Abort(g).life = "ABORTED" /\ Abort(g).buffered = <<>>
<1> DEFINE h == [g EXCEPT !.life = "ABORTED", !.buffered = <<>>]
<1>1. h \in GateType /\ h.atomic = g.atomic /\ h.life = "ABORTED" /\ h.buffered = <<>>
    BY EmptySeq DEF GateType
<1>2. Abort(g) = IF g.life = "COMMITTED" THEN g ELSE h
    BY DEF Abort
<1> HIDE DEF h
<1> QED
    BY <1>1, <1>2

(* Committing publishes the buffer.                                        *)
LEMMA CommitIs ==
    ASSUME NEW g \in GateType, g.life = "OPEN"
    PROVE  /\ CommitEvents(g).gate \in GateType /\ CommitEvents(g).gate.atomic = g.atomic
           /\ CommitEvents(g).gate.life = "COMMITTED" /\ CommitEvents(g).gate.buffered = <<>>
           /\ CommitEvents(g).out = g.buffered
<1> DEFINE h == [g EXCEPT !.life = "COMMITTED", !.buffered = <<>>]
<1>1. h \in GateType /\ h.atomic = g.atomic /\ h.life = "COMMITTED" /\ h.buffered = <<>>
    BY EmptySeq DEF GateType
<1>2. CommitEvents(g) = [gate |-> h, out |-> g.buffered, fail |-> "none"]
    BY DEF CommitEvents, Accepted
<1> HIDE DEF h
<1> QED
    BY <1>1, <1>2

(* Text is shown at once, joins the buffered batch, or is refused.         *)
LEMMA PassthroughIs ==
    ASSUME NEW g \in GateType, NEW e \in EventType
    PROVE  LET r == OnPassthrough(g, e)
           IN /\ r.fail = "none" =>
                    /\ g.life = "OPEN" /\ r.gate \in GateType
                    /\ r.gate.life = "OPEN" /\ r.gate.atomic = g.atomic
                    /\ \/ g.buffered = <<>> /\ r.gate.buffered = <<>> /\ r.out = <<e>>
                       \/ g.buffered # <<>> /\ r.gate.buffered = g.buffered \o <<e>> /\ r.out = <<>>
              /\ r.fail # "none" => r.out = <<>>
              /\ r.out = <<>> \/ (r.out = <<e>> /\ g.life = "OPEN" /\ g.buffered = <<>>)
<1>1. g.buffered \in Seq(EventType) /\ Append(g.buffered, e) = g.buffered \o <<e>>
      /\ Append(g.buffered, e) \in Seq(EventType)
    BY AppendIsConcat DEF GateType
<1>2. CASE g.life # "OPEN"
    BY <1>2 DEF OnPassthrough, Refused
<1>3. CASE g.life = "OPEN" /\ g.buffered # <<>>
  <2> DEFINE h == [g EXCEPT !.buffered = Append(@, e)]
  <2>1. h \in GateType /\ h.life = g.life /\ h.atomic = g.atomic /\ h.buffered = g.buffered \o <<e>>
      BY <1>1 DEF GateType
  <2>2. OnPassthrough(g, e) = [gate |-> h, out |-> <<>>, fail |-> "none"]
      BY <1>3 DEF OnPassthrough, Accepted
  <2> HIDE DEF h
  <2> QED
      BY <1>3, <2>1, <2>2
<1>4. CASE g.life = "OPEN" /\ g.buffered = <<>>
  <2>1. OnPassthrough(g, e) = [gate |-> g, out |-> <<e>>, fail |-> "none"]
      BY <1>4 DEF OnPassthrough, Accepted
  <2> QED
      BY <1>4, <2>1
<1> QED
    BY <1>2, <1>3, <1>4

(* An event that goes through the gate is shown at once or buffered.       *)
LEMMA AcceptIs ==
    ASSUME NEW g \in GateType, NEW e \in EventType
    PROVE  LET r == AcceptEvent(g, e)
           IN /\ r.fail = "none" /\ r.gate \in GateType
              /\ r.gate.life = g.life /\ r.gate.atomic = g.atomic /\ r.gate.accepted = g.accepted
              /\ \/ ~g.atomic /\ g.buffered = <<>> /\ r.gate = g /\ r.out = <<e>>
                 \/ /\ g.atomic \/ g.buffered # <<>>
                    /\ r.gate.buffered = g.buffered \o <<e>> /\ r.out = <<>>
<1>1. g.buffered \in Seq(EventType) /\ Append(g.buffered, e) = g.buffered \o <<e>>
      /\ Append(g.buffered, e) \in Seq(EventType)
    BY AppendIsConcat DEF GateType
<1>2. CASE g.atomic \/ g.buffered # <<>>
  <2> DEFINE h == [g EXCEPT !.buffered = Append(@, e)]
  <2>1. h \in GateType /\ h.life = g.life /\ h.atomic = g.atomic /\ h.buffered = g.buffered \o <<e>>
        /\ h.accepted = g.accepted
      BY <1>1 DEF GateType
  <2>2. AcceptEvent(g, e) = [gate |-> h, out |-> <<>>, fail |-> "none"]
      BY <1>2 DEF AcceptEvent, Accepted
  <2> HIDE DEF h
  <2> QED
      BY <1>2, <2>1, <2>2
<1>3. CASE ~g.atomic /\ g.buffered = <<>>
  <2>1. AcceptEvent(g, e) = [gate |-> g, out |-> <<e>>, fail |-> "none"]
      BY <1>3 DEF AcceptEvent, Accepted
  <2> QED
      BY <1>3, <2>1
<1> QED
    BY <1>2, <1>3

(* A refusal is recognised by its reason.                                  *)
LEMMA RefusedIs ==
    ASSUME NEW g, NEW why
    PROVE  Refused(g, why).out = <<>> /\ Refused(g, why).fail = why
BY DEF Refused

(* A whole call: it is shown up to its completion, it joins the buffered   *)
(* batch, or it is refused, possibly after its start and its arguments     *)
(* were shown.                                                             *)
CallAnswer(r, g, e1, e2, e3) ==
    /\ r.fail = "none" =>
          /\ g.life = "OPEN" /\ r.gate \in GateType
          /\ r.gate.life = "OPEN" /\ r.gate.atomic = g.atomic
          /\ \/ /\ ~g.atomic /\ g.buffered = <<>>
                /\ r.out = <<e1>> \o <<e2>> /\ r.gate.buffered = <<e3>>
             \/ /\ r.out = <<>>
                /\ r.gate.buffered = ((g.buffered \o <<e1>>) \o <<e2>>) \o <<e3>>
    /\ r.fail # "none" =>
          \/ r.out = <<>>
          \/ /\ ~g.atomic /\ g.buffered = <<>> /\ g.life = "OPEN"
             /\ r.out = <<e1>> \o <<e2>>

(* That is what the gate answers.                                          *)
LEMMA CallIs ==
    ASSUME NEW g \in GateType, NEW c \in Calls, NEW v \in Verdicts,
           NEW e1 \in EventType, NEW e2 \in EventType, NEW e3 \in EventType,
           e1 = Event("tool_started", c, cur), e2 = Event("tool_delta", c, cur),
           e3 = Event("tool_completed", c, cur)
    PROVE  CallAnswer(CallThroughGate(g, c, v), g, e1, e2, e3)
<1> DEFINE r1 == OnStarted(g, e1)
           r2 == Then(r1, OnArgumentsDelta(r1.gate, e2))
           r == Then(r2, OnCompleted(r2.gate, e3, v))
<1>0. e1.call = c /\ e2.call = c /\ e3.call = c
    BY DEF Event
<1>r. r = CallThroughGate(g, c, v)
    BY DEF CallThroughGate
<1>1. CASE g.life # "OPEN" \/ c \in g.accepted \/ Cardinality(g.accepted) >= Limit
  <2>1. PICK why \in {"tool_call_stream_invalid", "tool_policy_violation"} : r1 = Refused(g, why)
      BY <1>0, <1>1 DEF OnStarted
  <2>2. r1.fail # "none" /\ r1.out = <<>>
      BY <2>1, RefusedIs
  <2> HIDE DEF r1
  <2>3. r2 = r1
      BY <2>2 DEF Then
  <2> HIDE DEF r2
  <2>4. r = r1
      BY <2>2, <2>3 DEF Then
  <2> HIDE DEF r
  <2> QED
      BY <1>r, <2>2, <2>4 DEF CallAnswer
<1>2. CASE ~(g.life # "OPEN" \/ c \in g.accepted \/ Cardinality(g.accepted) >= Limit)
  <2> DEFINE g1 == [g EXCEPT !.accepted = @ \cup {c}]
  <2>1. g1 \in GateType /\ g1.life = "OPEN" /\ g1.atomic = g.atomic /\ g1.buffered = g.buffered
        /\ c \in g1.accepted
      BY <1>2 DEF GateType
  <2>2. r1 = AcceptEvent(g1, e1)
      BY <1>0, <1>2 DEF OnStarted
  <2> HIDE DEF g1, r1
  <2>3. /\ r1.fail = "none" /\ r1.gate \in GateType
        /\ r1.gate.life = "OPEN" /\ r1.gate.atomic = g.atomic /\ c \in r1.gate.accepted
        /\ \/ ~g.atomic /\ g.buffered = <<>> /\ r1.gate = g1 /\ r1.out = <<e1>>
           \/ /\ g.atomic \/ g.buffered # <<>>
              /\ r1.gate.buffered = g.buffered \o <<e1>> /\ r1.out = <<>>
    <3> DEFINE s1 == AcceptEvent(g1, e1)
    <3>1. /\ s1.fail = "none" /\ s1.gate \in GateType
          /\ s1.gate.life = g1.life /\ s1.gate.atomic = g1.atomic /\ s1.gate.accepted = g1.accepted
          /\ \/ ~g1.atomic /\ g1.buffered = <<>> /\ s1.gate = g1 /\ s1.out = <<e1>>
             \/ /\ g1.atomic \/ g1.buffered # <<>>
                /\ s1.gate.buffered = g1.buffered \o <<e1>> /\ s1.out = <<>>
        BY <2>1, AcceptIs
    <3> HIDE DEF s1
    <3>2. r1 = s1
        BY <2>2 DEF s1
    <3> QED
        BY <2>1, <3>1, <3>2
  <2> DEFINE s2 == AcceptEvent(r1.gate, e2)
  <2>4. /\ s2.fail = "none" /\ s2.gate \in GateType
        /\ s2.gate.life = "OPEN" /\ s2.gate.atomic = g.atomic /\ c \in s2.gate.accepted
        /\ \/ ~g.atomic /\ r1.gate.buffered = <<>> /\ s2.gate = r1.gate /\ s2.out = <<e2>>
           \/ /\ g.atomic \/ r1.gate.buffered # <<>>
              /\ s2.gate.buffered = r1.gate.buffered \o <<e2>> /\ s2.out = <<>>
      BY <2>3, AcceptIs
  <2>5. r2 = [s2 EXCEPT !.out = r1.out \o @]
      BY <1>0, <2>3 DEF OnArgumentsDelta, Then
  <2>6. /\ r2.fail = "none" /\ r2.gate = s2.gate /\ r2.out = r1.out \o s2.out
    <3>1. DOMAIN s2 = {"gate", "out", "fail"}
        BY DEF AcceptEvent, Accepted
    <3> HIDE DEF s2
    <3> QED
        BY <2>4, <2>5, <3>1
  <2> HIDE DEF s2, r2
  <2>7. g.buffered \in Seq(EventType) /\ s2.gate.buffered \in Seq(EventType)
        /\ r1.gate.buffered \in Seq(EventType)
      BY <2>3, <2>4 DEF GateType
  <2>8. /\ r2.gate \in GateType /\ r2.gate.life = "OPEN" /\ r2.gate.atomic = g.atomic
        /\ c \in r2.gate.accepted
        /\ \/ ~g.atomic /\ g.buffered = <<>> /\ r2.gate.buffered = <<>> /\ r2.out = <<e1>> \o <<e2>>
           \/ r2.gate.buffered = (g.buffered \o <<e1>>) \o <<e2>> /\ r2.out = <<>>
    <3>1. CASE ~g.atomic /\ g.buffered = <<>> /\ r1.gate = g1 /\ r1.out = <<e1>>
        BY <2>1, <2>4, <2>6, <3>1
    <3>2. CASE /\ g.atomic \/ g.buffered # <<>>
               /\ r1.gate.buffered = g.buffered \o <<e1>> /\ r1.out = <<>>
      <4>1. r1.gate.buffered # <<>>
          BY <2>7, <3>2, SingleIs, ConcatEqualIffEmpty
      <4>2. s2.gate.buffered = (g.buffered \o <<e1>>) \o <<e2>> /\ s2.out = <<>>
          BY <2>4, <3>2, <4>1
      <4>3. r2.out = <<>>
          BY <2>6, <3>2, <4>2
      <4> QED
          BY <2>4, <2>6, <4>2, <4>3
    <3> QED
        BY <2>3, <3>1, <3>2
  <2>e. r2.out \in Seq(EventType)
    <3>1. <<e1>> \in Seq(EventType) /\ <<e2>> \in Seq(EventType)
        OBVIOUS
    <3>2. <<e1>> \o <<e2>> \in Seq(EventType)
        BY <3>1, ConcatProperties
    <3>3. <<>> \in Seq(EventType)
        BY EmptySeq
    <3> HIDE DEF r
    <3> QED
        BY <2>8, <3>2, <3>3
  <2>9. CASE v # "valid"
    <3>1. OnCompleted(r2.gate, e3, v) = Refused(r2.gate, v)
        BY <1>0, <2>8, <2>9 DEF OnCompleted
    <3>2. r = [Refused(r2.gate, v) EXCEPT !.out = r2.out \o @]
        BY <2>6, <3>1 DEF Then
    <3>3. r.fail = v /\ r.out = r2.out \o <<>>
        BY <3>2 DEF Refused
    <3>5. r.out = r2.out /\ r.fail # "none"
        BY <2>9, <2>e, <3>3 DEF Verdicts
    <3> HIDE DEF r
    <3> QED
        BY <1>2, <1>r, <2>8, <3>5 DEF CallAnswer
  <2>10. CASE v = "valid"
    <3> DEFINE h == [r2.gate EXCEPT !.completed = Append(@, c), !.buffered = Append(@, e3)]
    <3>0. /\ r2.gate.buffered \in Seq(EventType) /\ Append(r2.gate.buffered, e3) \in Seq(EventType)
          /\ r2.gate.completed \in Seq(Calls) /\ Append(r2.gate.completed, c) \in Seq(Calls)
        BY <2>8, AppendProperties DEF GateType
    <3>1. h \in GateType /\ h.life = "OPEN" /\ h.atomic = g.atomic
          /\ h.buffered = Append(r2.gate.buffered, e3)
        BY <2>8, <3>0 DEF GateType
    <3>2. OnCompleted(r2.gate, e3, v) = [gate |-> h, out |-> <<>>, fail |-> "none"]
        BY <1>0, <2>8, <2>10 DEF OnCompleted, Accepted
    <3> HIDE DEF h
    <3>3. r = [[gate |-> h, out |-> <<>>, fail |-> "none"] EXCEPT !.out = r2.out \o @]
        BY <2>6, <3>2 DEF Then
    <3>4. r.fail = "none" /\ r.out = r2.out \o <<>> /\ r.gate = h
        BY <3>3
    <3>6. r.out = r2.out
        BY <2>e, <3>4
    <3>7. h.buffered = r2.gate.buffered \o <<e3>>
        BY <3>0, <3>1, AppendIsConcat
    <3>8. <<>> \o <<e3>> = <<e3>>
        BY SingleIs, ConcatEmptySeq
    <3> HIDE DEF r
    <3>9. \/ /\ ~g.atomic /\ g.buffered = <<>>
             /\ r.out = <<e1>> \o <<e2>> /\ r.gate.buffered = <<e3>>
          \/ /\ r.out = <<>>
             /\ r.gate.buffered = ((g.buffered \o <<e1>>) \o <<e2>>) \o <<e3>>
        BY <2>8, <3>4, <3>6, <3>7, <3>8
    <3> QED
        BY <1>2, <1>r, <3>1, <3>4, <3>9 DEF CallAnswer
  <2> QED
      BY <2>9, <2>10
<1> QED
    BY <1>1, <1>2

(* Recovery is only ever offered to the first attempt of a request that    *)
(* may be replayed and has shown nothing.                                  *)
LEMMA ClassifyIs ==
    ASSUME NEW f, NEW n \in 1..2, NEW pub \in BOOLEAN, NEW safe, Classify(f, n, pub, safe) # "none"
    PROVE  ~RecoveryUnavailable /\ n = 1 /\ ~pub
BY DEF Classify, MaxExtra

-----------------------------------------------------------------------------
(* The steps, one kind after the other.                                    *)

(* What a request is.                                                      *)
LEMMA RequestIs ==
    ASSUME Types
    PROVE  /\ request \in RequestType /\ request.atomic \in BOOLEAN
           /\ request.visibility \in {"streaming", "buffered", "unknown"}
BY RecoveryAssumption DEF Types, RequestType

(* The modes exclude each other and leave none out.                        *)
LEMMA ModeIs ==
    ASSUME Types
    PROVE  \/ RecoveryUnavailable /\ ~Streaming /\ ~Buffering
           \/ ~RecoveryUnavailable /\ Streaming /\ ~Buffering
           \/ ~RecoveryUnavailable /\ ~Streaming /\ Buffering
BY RequestIs DEF RecoveryUnavailable, Streaming, Buffering

(* What an attempt is.                                                     *)
LEMMA AttemptIs ==
    ASSUME Types, NEW k \in Attempts
    PROVE  /\ att[k] \in AttemptType /\ att[k].gate \in GateType
           /\ att[k].job \in {"none", "running", "ended", "cancelled"}
           /\ att[k].pending \in Seq(EventType) /\ att[k].gate.buffered \in Seq(EventType)
           /\ att[k].emitted \in Nat /\ att[k].began \in BOOLEAN /\ att[k].terminal \in BOOLEAN
           /\ att[k].failure \in Failures \cup {"none"}
BY DEF Types, AttemptType, GateType

(* What a new attempt and a missing one are.                               *)
LEMMA NewIs ==
    ASSUME request \in RequestType
    PROVE  /\ NewAttempt \in AttemptType /\ NoAttempt \in AttemptType
           /\ NoAttempt.job = "none"
<1>1. request.atomic \in BOOLEAN
    BY DEF RequestType
<1>2. NewGate(request.atomic) \in GateType /\ <<>> \in Seq(EventType)
    BY <1>1, NewGateIs, EmptySeq
<1>3. NewAttempt \in AttemptType
    BY <1>2 DEF NewAttempt, AttemptType
<1>4. NoAttempt \in AttemptType /\ NoAttempt.job = "none"
    BY <1>3 DEF NoAttempt, AttemptType
<1> QED
    BY <1>3, <1>4

(* The invariant holds before the first attempt.                           *)
LEMMA InitIsInd == Init => IndInv
<1> SUFFICES ASSUME Init PROVE IndInv
    OBVIOUS
<1>1. Types
  <2>1. request \in RequestType
      BY RecoveryAssumption DEF Init
  <2>2. att \in [Attempts -> AttemptType]
      BY <2>1, NewIs DEF Init
  <2>3. staged \in Seq(EventType) /\ seen \in Seq(EventType)
      BY EmptySeq DEF Init
  <2>4. started \in 0..MaxObjects /\ ordinal \in 1..2
      BY RecoveryAssumption DEF Init
  <2>5. lease \in [active : BOOLEAN, replaySafe : BOOLEAN]
      BY DEF Init
  <2>6. pc \in Setup
      BY DEF Init, Setup
  <2> QED
      BY <2>2, <2>3, <2>4, <2>5, <2>6 DEF Init, Types
<1>2. ControlInv
    BY DEF Init, ControlInv, Setup, Between
<1>3. StageInv
    BY EmptyIs DEF Init, StageInv
<1>4. SeenInv
    BY EmptyIs DEF Init, SeenInv, Owned
<1>5. RunInv
    BY DEF Init, RunInv
<1> QED
    BY <1>1, <1>2, <1>3, <1>4, <1>5 DEF IndInv

(* The line of the attempt that runs, as the parts it consists of.         *)
LEMMA RunParts ==
    ASSUME Types, ControlInv, pc = "run"
    PROVE  /\ cur \in Attempts /\ att[cur] \in AttemptType /\ Consumed \in Seq(EventType)
           /\ Consumed \o att[cur].pending \in Seq(EventType)
<1>1. cur \in Attempts
    BY DEF ControlInv, Setup
<1>2. Consumed \in Seq(EventType)
    BY DEF Types, Consumed
<1> QED
    BY <1>1, <1>2, AttemptIs, ConcatProperties

(* Cancellations, the release of the lease and the consumer's departure    *)
(* stop jobs and abort gates, and change nothing that was shown.           *)
LEMMA ControlStep ==
    ASSUME IndInv,
           UNCHANGED <<request, cur, ordinal, started, staged, published, begun, failure, seen>>,
           pc' = pc \/ (pc \notin Setup /\ pc' = "unwound"),
           pc \in Setup => UNCHANGED <<canceller, consumer>>,
           att' \in [Attempts -> AttemptType],
           \A k \in Attempts :
              /\ att'[k].job = att[k].job \/ att'[k].job # "running"
              /\ att'[k].pending = att[k].pending /\ att'[k].began = att[k].began
              /\ att'[k].terminal = att[k].terminal /\ att'[k].emitted = att[k].emitted
              /\ \/ att'[k].gate = att[k].gate
                 \/ /\ k = cur /\ att'[k].gate = Abort(att[k].gate)
                    /\ att[k].terminal \/ canceller' = cur,
           canceller = cur /\ cur # 0 => canceller' = cur \/ att'[cur].job # "running",
           cancelled' \in BOOLEAN, terminal' \in BOOLEAN, released' \in BOOLEAN,
           lease' \in [active : BOOLEAN, replaySafe : BOOLEAN],
           canceller' \in Attempts \cup {0},
           consumer' \in {"absent", "reading", "leaving", "left"},
           consumer' = "absent" => consumer = "absent",
           lease'.active <=> ~released',
           released' => \A k \in Attempts : att'[k].job # "running"
    PROVE  IndInv'
<1>0. Types /\ ControlInv /\ StageInv /\ SeenInv /\ RunInv
    BY DEF IndInv
<1>1. Types'
    BY <1>0 DEF Types, Over
<1>2. ControlInv'
  <2>1. pc = "starting" => Fresh(2)' /\ 2 \in Attempts /\ 2 # cur
    <3>1. ASSUME pc = "starting" PROVE started = 2 /\ cur = 1 /\ Fresh(2)
        BY <1>0, <3>1 DEF ControlInv
    <3>2. ASSUME pc = "starting" PROVE 2 \in Attempts
        BY <1>0, <3>1, <3>2, RecoveryAssumption DEF Types, Attempts
    <3> QED
        BY <3>1, <3>2 DEF Fresh
  <2>2. RecoveryUnavailable' <=> RecoveryUnavailable
      BY DEF RecoveryUnavailable
  <2> QED
      BY <1>0, <2>1, <2>2 DEF ControlInv, Setup, Between
<1>3. StageInv'
  <2>1. /\ RecoveryUnavailable' <=> RecoveryUnavailable
        /\ Streaming' <=> Streaming
        /\ Buffering' <=> Buffering
      BY DEF RecoveryUnavailable, Streaming, Buffering
  <2> QED
      BY <1>0, <2>1 DEF StageInv, Over
<1>4. Committed' <=> Committed
  <2>1. CASE cur = 0
      BY <2>1 DEF Committed
  <2>2. CASE cur \in Attempts
      BY <1>0, <2>2, AttemptIs, AbortIs DEF Committed
  <2> QED
      BY <1>0, <2>1, <2>2 DEF Types
<1>5. SeenInv'
  <2>1. RecoveryUnavailable' <=> RecoveryUnavailable
      BY DEF RecoveryUnavailable
  <2> QED
      BY <1>0, <1>4, <2>1 DEF SeenInv
<1>6. RunInv'
  <2>1. SUFFICES ASSUME pc = "run", pc' = "run"
                 PROVE  RunInv'
      BY DEF RunInv
  <2>a. PICK a : a = att[cur]
      OBVIOUS
  <2>b. PICK b : b = att'[cur]
      OBVIOUS
  <2>2. /\ cur \in Attempts /\ a \in AttemptType /\ b \in AttemptType
        /\ Consumed \in Seq(EventType) /\ Consumed \o a.pending \in Seq(EventType)
        /\ a.gate \in GateType /\ a.gate.buffered \in Seq(EventType) /\ a.emitted \in Nat
      BY <1>0, <2>1, <2>a, <2>b, RunParts, AttemptIs
  <2>3. /\ b.job = a.job \/ b.job # "running"
        /\ b.pending = a.pending /\ b.began = a.began
        /\ b.terminal = a.terminal /\ b.emitted = a.emitted
        /\ \/ b.gate = a.gate
           \/ b.gate = Abort(a.gate) /\ (a.terminal \/ canceller' = cur)
      BY <2>2, <2>a, <2>b
  <2>4. canceller = cur => canceller' = cur \/ b.job # "running"
      BY <2>2, <2>b, RecoveryAssumption DEF Attempts
  <2>5. /\ GateInv(a) /\ StartInv(a) /\ QuietInv(a) /\ ShownInv
        /\ Line(Consumed \o a.pending \o a.gate.buffered, a.emitted)
      BY <1>0, <2>1, <2>a DEF RunInv
  <2>6. att'[cur'] = b
      BY <2>b
  <2>7. /\ RecoveryUnavailable' <=> RecoveryUnavailable
        /\ Streaming' <=> Streaming
        /\ Consumed' = Consumed
      BY DEF RecoveryUnavailable, Streaming, Consumed
  <2>8. GateInv(b)' /\ QuietInv(b)'
    <3>1. CASE b.gate = a.gate
      <4>1. GateInv(b)'
          BY <2>3, <2>4, <2>5, <3>1 DEF GateInv
      <4> QED
          BY <2>3, <2>5, <2>7, <3>1, <4>1 DEF QuietInv
    <3>2. CASE /\ b.gate = Abort(a.gate) /\ a.gate.life # "COMMITTED"
               /\ a.terminal \/ canceller' = cur
      <4>1. b.gate.life = "ABORTED" /\ b.gate.buffered = <<>> /\ b.gate.atomic = a.gate.atomic
          BY <2>2, <3>2, AbortIs
      <4>2. b.terminal \/ canceller' = cur' \/ b.job # "running"
          BY <2>3, <3>2
      <4>3. GateInv(b)'
          BY <2>3, <2>5, <3>2, <4>1, <4>2, EmptyIs DEF GateInv
      <4> QED
          BY <2>3, <2>5, <2>7, <4>1, <4>3 DEF QuietInv
    <3>3. CASE b.gate = Abort(a.gate) /\ a.gate.life = "COMMITTED"
      <4>1. b.gate = a.gate
          BY <2>2, <3>3, AbortIs
      <4> QED
          BY <3>1, <4>1
    <3> QED
        BY <2>3, <3>1, <3>2, <3>3
  <2>9. StartInv(b)'
    <3>1. a.gate.buffered = <<>> => b.gate.buffered = <<>>
        BY <2>2, <2>3, AbortIs
    <3> QED
        BY <2>3, <2>5, <2>7, <3>1 DEF StartInv
  <2>10. ShownInv'
      BY <1>4, <2>5 DEF ShownInv
  <2>11. Line(Consumed \o b.pending \o b.gate.buffered, b.emitted)
    <3>1. CASE b.gate = a.gate
        BY <2>3, <2>5, <3>1
    <3>2. CASE b.gate = Abort(a.gate) /\ a.gate.life # "COMMITTED"
      <4>1. b.gate.buffered = <<>>
          BY <2>2, <3>2, AbortIs
      <4>2. Line(Consumed \o a.pending, a.emitted)
          BY <2>2, <2>5, LinePrefix
      <4>3. Consumed \o a.pending \o <<>> = Consumed \o a.pending
          BY <2>2, ConcatEmptySeq
      <4> QED
          BY <2>3, <4>1, <4>2, <4>3
    <3>3. CASE b.gate = Abort(a.gate) /\ a.gate.life = "COMMITTED"
        BY <2>2, <3>1, <3>3, AbortIs
    <3> QED
        BY <2>3, <3>1, <3>2, <3>3
  <2> QED
      BY <2>6, <2>7, <2>8, <2>9, <2>10, <2>11 DEF RunInv
<1> QED
    BY <1>1, <1>2, <1>3, <1>5, <1>6 DEF IndInv

(* An event the attempt makes now.                                         *)
LEMMA EventIs ==
    ASSUME Types, cur \in Attempts, NEW kind \in Kinds, NEW c \in Calls \cup {NoCall}
    PROVE  /\ Event(kind, c, cur) \in EventType /\ Event(kind, c, cur).kind = kind
           /\ Event(kind, c, cur).call = c /\ Event(kind, c, cur).att = cur
           /\ Event(kind, c, cur).at = att[cur].emitted
           /\ Plain(kind, cur) \in EventType /\ Plain(kind, cur).kind = kind
           /\ Plain(kind, cur).att = cur /\ Plain(kind, cur).at = att[cur].emitted
<1>1. att[cur].emitted \in Nat
    BY AttemptIs
<1> QED
    BY <1>1 DEF Event, Plain, EventType

(* The session of the attempt that runs takes a step of its own.           *)
LEMMA EmitStep ==
    ASSUME IndInv, pc = "run", ~att[cur].terminal, NEW b \in AttemptType,
           att' = [att EXCEPT ![cur] = b],
           UNCHANGED <<outer, cancelled, released, lease, canceller, consumer, seen>>,
           b.job = att[cur].job \/ b.job # "running",
           GateInv(b), StartInv(b), QuietInv(b),
           Line(Consumed \o b.pending \o b.gate.buffered, b.emitted)
    PROVE  IndInv'
<1>0. Types /\ ControlInv /\ StageInv /\ SeenInv /\ RunInv
    BY DEF IndInv
<1>1. /\ cur \in Attempts /\ ~Committed
      /\ att' \in [Attempts -> AttemptType] /\ att'[cur] = b
      /\ \A k \in Attempts : k # cur => att'[k] = att[k]
    BY <1>0, RunParts DEF Types, RunInv, GateInv, Committed
<1>2. /\ request' = request /\ pc' = "run" /\ cur' = cur /\ ordinal' = ordinal
      /\ started' = started /\ staged' = staged /\ published' = published /\ begun' = begun
      /\ failure' = failure /\ terminal' = terminal
    BY DEF outer
<1>3. Types'
    BY <1>0, <1>1, <1>2 DEF Types
<1>4. ControlInv'
  <2>1. released' => \A k \in Attempts : att'[k].job # "running"
      BY <1>0, <1>1 DEF ControlInv
  <2> QED
      BY <1>0, <1>2, <2>1 DEF ControlInv, Setup, Between
<1>5. /\ RecoveryUnavailable' <=> RecoveryUnavailable
      /\ Streaming' <=> Streaming
      /\ Buffering' <=> Buffering
      /\ Consumed' = Consumed
    BY <1>2 DEF RecoveryUnavailable, Streaming, Buffering, Consumed
<1>6. StageInv'
    BY <1>0, <1>2, <1>5 DEF StageInv, Over
<1>7. SeenInv'
    BY <1>0, <1>1, <1>2, <1>5 DEF SeenInv
<1>8. RunInv'
  <2>1. GateInv(b)'
      BY <1>2 DEF GateInv
  <2>2. StartInv(b)'
      BY <1>2, <1>5 DEF StartInv
  <2>3. QuietInv(b)'
      BY <1>2, <1>5 DEF QuietInv
  <2>4. ShownInv'
      BY <1>0, <1>1, <1>2 DEF RunInv, ShownInv
  <2> QED
      BY <1>1, <1>2, <1>5, <2>1, <2>2, <2>3, <2>4 DEF RunInv
<1> QED
    BY <1>3, <1>4, <1>6, <1>7, <1>8 DEF IndInv

(* The attempt ends without success; out was shown before it ended.        *)
LEMMA EndStep ==
    ASSUME IndInv, Awaiting, NEW out \in Seq(EventType), NEW kind \in {"failed", "cancelled"},
           NEW f \in Failures \cup {"none"}, NEW j \in {"none", "running", "ended", "cancelled"},
           NEW b, b = [EndsWith(att[cur], out, kind, f) EXCEPT !.job = j],
           j = att[cur].job \/ j # "running",
           att' = [att EXCEPT ![cur] = b],
           UNCHANGED <<outer, cancelled, released, lease, canceller, consumer, seen>>,
           From(out, cur), Only(out, {"text"} \cup CallEvents),
           out = <<>> \/ (att[cur].gate.life = "OPEN" /\ att[cur].gate.buffered = <<>>),
           Lacks(out, CallEvents) \/ (Lacks(out, {"text"}) /\ ~request.atomic),
           Line(Consumed \o out, att[cur].emitted)
    PROVE  IndInv'
<1>0. Types /\ ControlInv /\ StageInv /\ SeenInv /\ RunInv
    BY DEF IndInv
<1>1. pc = "run" /\ att[cur].pending = <<>> /\ ~att[cur].terminal
    BY DEF Awaiting
<1>a. PICK a : a = att[cur]
    OBVIOUS
<1>2. /\ cur \in Attempts /\ a \in AttemptType /\ Consumed \in Seq(EventType)
      /\ a.gate \in GateType /\ a.emitted \in Nat
      /\ GateInv(a) /\ StartInv(a) /\ QuietInv(a) /\ a.pending = <<>> /\ ~a.terminal
    BY <1>0, <1>1, <1>a, RunParts, AttemptIs DEF RunInv
<1>3. PICK t : t = Plain(kind, cur)
    OBVIOUS
<1>4. t \in EventType /\ t.kind = kind /\ t.att = cur
    BY <1>0, <1>2, <1>3, EventIs DEF Kinds, Terminals
<1>5. PICK g : g = Abort(a.gate)
    OBVIOUS
<1>6. g \in GateType /\ g.atomic = request.atomic /\ g.life = "ABORTED" /\ g.buffered = <<>>
      /\ a.gate.life # "COMMITTED"
    BY <1>2, <1>5, AbortIs DEF GateInv
<1>7. PICK p : p = out \o <<t>>
    OBVIOUS
<1>8. p \in Seq(EventType)
    BY <1>4, <1>7, SingleIs, ConcatProperties
<1>9. /\ b \in AttemptType /\ b.gate = g /\ b.terminal /\ b.pending = p /\ b.job = j
      /\ b.began = a.began /\ b.emitted = a.emitted
  <2>1. b = [[a EXCEPT !.gate = g, !.terminal = TRUE, !.failure = f, !.pending = p] EXCEPT !.job = j]
      BY <1>a, <1>3, <1>5, <1>7 DEF EndsWith
  <2> QED
      BY <1>2, <1>6, <1>8, <2>1 DEF AttemptType
<1>10. From(p, cur)
    BY <1>4, <1>7, ConcatAll, SingleIs, ZenonT(60)
<1> DEFINE K == {"text", "failed", "cancelled"} \cup CallEvents
<1>11. Only(p, K)
  <2>1. t.kind \in K /\ {"text"} \cup CallEvents \subseteq K
      BY <1>4
  <2> HIDE DEF K
  <2>2. Only(<<t>>, K)
      BY <1>4, <2>1, SingleIs
  <2>3. Only(out, K)
      BY <2>1, LacksLess
  <2>4. <<t>> \in Seq(EventType)
      BY <1>4, SingleIs
  <2> QED
      BY <1>7, <2>2, <2>3, <2>4, ConcatAll
<1>12. Lacks(out, CallEvents) => Lacks(p, CallEvents)
  <2>1. Lacks(<<t>>, CallEvents)
      BY <1>4, SingleIs DEF CallEvents
  <2> QED
      BY <1>4, <1>7, <2>1, ConcatAll, SingleIs
<1>13. Lacks(out, {"text"}) => Lacks(p, {"text"})
  <2>1. Lacks(<<t>>, {"text"})
      BY <1>4, SingleIs
  <2> QED
      BY <1>4, <1>7, <2>1, ConcatAll, SingleIs
<1>14. Lacks(p, {"completed", "tool_completed"}) /\ Lacks(p, {"started"})
  <2>1. K \cap {"completed", "tool_completed"} = {} /\ K \cap {"started"} = {}
      BY DEF CallEvents
  <2> HIDE DEF K
  <2> QED
      BY <1>11, <2>1, LacksLess
<1> HIDE DEF K
<1>15. GateInv(b)
    BY <1>2, <1>6, <1>9, <1>10, <1>12, <1>14, EmptyIs DEF GateInv
<1>16. StartInv(b)
    BY <1>2, <1>6, <1>9, <1>14 DEF StartInv
<1>17. QuietInv(b)
  <2>1. CASE Lacks(out, {"text"})
    <3>1. Behind(p, {"text"}, {"tool_completed"})
        BY <1>13, <2>1, LacksLess
    <3> QED
        BY <1>6, <1>9, <3>1 DEF QuietInv
  <2>2. CASE ~Lacks(out, {"text"})
    <3>1. Lacks(out, CallEvents) /\ out # <<>>
        BY <2>2, EmptyIs
    <3> QED
        BY <1>2, <1>9, <1>12, <1>a, <3>1 DEF QuietInv
  <2> QED
      BY <2>1, <2>2
<1>18. Line(Consumed \o p \o g.buffered, a.emitted)
  <2>1. Consumed \o out \in Seq(EventType) /\ <<t>> \in Seq(EventType)
        /\ Consumed \o p \in Seq(EventType)
      BY <1>2, <1>4, <1>8, ConcatProperties, SingleIs
  <2>2. Line(Consumed \o out \o <<t>>, a.emitted)
      BY <1>2, <1>4, <1>a, <2>1, LineGrows DEF Output
  <2>3. Consumed \o p = Consumed \o out \o <<t>>
      BY <1>2, <1>7, <2>1, ConcatAssociative
  <2>4. Consumed \o p \o <<>> = Consumed \o p
      BY <2>1, ConcatEmptySeq
  <2> QED
      BY <1>6, <2>2, <2>3, <2>4
<1> QED
    BY <1>1, <1>9, <1>15, <1>16, <1>17, <1>18, EmitStep

(* The parser's events went through the gate: out is shown at once, the    *)
(* rest is buffered.                                                       *)
LEMMA GrowStep ==
    ASSUME IndInv, CanEmit, NEW out \in Seq(EventType), NEW g \in GateType,
           att' = [att EXCEPT ![cur].gate = g, ![cur].pending = out, ![cur].emitted = @ + 1],
           UNCHANGED <<outer, cancelled, released, lease, canceller, consumer, seen>>,
           att[cur].gate.life = "OPEN", g.life = "OPEN", g.atomic = att[cur].gate.atomic,
           From(out, cur), Only(out, {"text"} \cup CallEvents),
           From(g.buffered, cur), Only(g.buffered, Output),
           g.buffered = <<>> \/ ~Lacks(g.buffered, {"tool_completed"}),
           Behind(g.buffered, {"text"}, {"tool_completed"}),
           \/ Lacks(out, CallEvents)
           \/ Lacks(out, {"text"}) /\ ~request.atomic /\ g.buffered # <<>>,
           att[cur].gate.buffered # <<>> => out = <<>> /\ g.buffered # <<>>,
           Line(Consumed \o out \o g.buffered, att[cur].emitted)
    PROVE  IndInv'
<1>0. Types /\ ControlInv /\ StageInv /\ SeenInv /\ RunInv
    BY DEF IndInv
<1>1. pc = "run" /\ att[cur].pending = <<>> /\ ~att[cur].terminal /\ att[cur].began
    BY DEF CanEmit, Awaiting
<1>a. PICK a : a = att[cur]
    OBVIOUS
<1>2. /\ cur \in Attempts /\ a \in AttemptType /\ Consumed \in Seq(EventType) /\ a.emitted \in Nat
      /\ GateInv(a) /\ StartInv(a) /\ QuietInv(a) /\ a.pending = <<>> /\ ~a.terminal /\ a.began
    BY <1>0, <1>1, <1>a, RunParts, AttemptIs DEF RunInv
<1>n. PICK n \in Nat : n = a.emitted + 1
    BY <1>2
<1>b. PICK b : b = [a EXCEPT !.gate = g, !.pending = out, !.emitted = n]
    OBVIOUS
<1>3. /\ b \in AttemptType /\ b.gate = g /\ ~b.terminal /\ b.pending = out /\ b.job = a.job
      /\ b.began /\ b.emitted = n
    BY <1>2, <1>b DEF AttemptType
<1>4. att' = [att EXCEPT ![cur] = b]
    BY <1>0, <1>2, <1>a, <1>b, <1>n DEF Types, AttemptType
<1>5. Lacks(out, {"started"}) /\ Lacks(out, {"completed", "tool_completed"})
  <2> DEFINE K == {"text"} \cup CallEvents
  <2>1. K \cap {"completed", "tool_completed"} = {} /\ K \cap {"started"} = {}
      BY DEF CallEvents
  <2>2. Only(out, K)
      OBVIOUS
  <2> HIDE DEF K
  <2> QED
      BY <2>1, <2>2, LacksLess
<1>6. GateInv(b)
    BY <1>2, <1>3, <1>5, <1>a DEF GateInv
<1>7. StartInv(b)
    BY <1>2, <1>3, <1>5 DEF StartInv
<1>8. QuietInv(b)
  <2>1. CASE a.gate.buffered # <<>>
    <3>1. out = <<>> /\ g.buffered # <<>>
        BY <1>a, <2>1
    <3> QED
        BY <1>3, <3>1, EmptyIs DEF QuietInv
  <2>2. CASE a.gate.buffered = <<>>
    <3>1. CASE Lacks(out, CallEvents)
      <4>1. Streaming /\ ~published => Lacks(staged, CallEvents)
          BY <1>2, <1>a, <2>2 DEF QuietInv
      <4> QED
          BY <1>3, <3>1, <4>1 DEF QuietInv
    <3>2. CASE Lacks(out, {"text"}) /\ g.buffered # <<>>
        BY <1>3, <3>2, LacksLess DEF QuietInv
    <3> QED
        BY <3>1, <3>2
  <2> QED
      BY <2>1, <2>2
<1>9. Line(Consumed \o out \o g.buffered, a.emitted + 1)
  <2>1. Consumed \o out \o g.buffered \in Seq(EventType)
      BY <1>2, ConcatProperties DEF GateType
  <2> QED
      BY <1>2, <1>a, <2>1, LineMonotone
<1> QED
    BY <1>1, <1>3, <1>4, <1>6, <1>7, <1>8, <1>9, <1>a, <1>n, EmitStep

(* What an awaiting session knows of its attempt.                          *)
LEMMA AwaitingIs ==
    ASSUME IndInv, Awaiting
    PROVE  /\ pc = "run" /\ cur \in Attempts /\ att[cur] \in AttemptType
           /\ att[cur].gate \in GateType /\ att[cur].gate.buffered \in Seq(EventType)
           /\ att[cur].emitted \in Nat /\ Consumed \in Seq(EventType)
           /\ att[cur].pending = <<>> /\ ~att[cur].terminal
           /\ GateInv(att[cur]) /\ StartInv(att[cur]) /\ QuietInv(att[cur])
           /\ att[cur].gate.life # "COMMITTED" /\ att[cur].gate.atomic = request.atomic
           /\ Line(Consumed \o att[cur].gate.buffered, att[cur].emitted)
           /\ Line(Consumed, att[cur].emitted)
<1>0. Types /\ ControlInv /\ RunInv
    BY DEF IndInv
<1>1. pc = "run" /\ att[cur].pending = <<>> /\ ~att[cur].terminal
    BY DEF Awaiting
<1>2. /\ cur \in Attempts /\ att[cur] \in AttemptType /\ Consumed \in Seq(EventType)
      /\ att[cur].gate \in GateType /\ att[cur].gate.buffered \in Seq(EventType)
      /\ att[cur].emitted \in Nat
    BY <1>0, <1>1, RunParts, AttemptIs
<1>3. /\ GateInv(att[cur]) /\ StartInv(att[cur]) /\ QuietInv(att[cur])
      /\ Line(Consumed \o <<>> \o att[cur].gate.buffered, att[cur].emitted)
    BY <1>0, <1>1 DEF RunInv
<1>4. Consumed \o <<>> = Consumed
    BY <1>2, ConcatEmptySeq
<1>5. Line(Consumed \o att[cur].gate.buffered, att[cur].emitted)
    BY <1>3, <1>4
<1>6. Line(Consumed, att[cur].emitted)
    BY <1>2, <1>5, LinePrefix
<1> QED
    BY <1>1, <1>2, <1>3, <1>5, <1>6 DEF GateInv

(* The runtime's first event.                                              *)
LEMMA StartedStep ==
    ASSUME IndInv, RuntimeStarted
    PROVE  IndInv'
<1>0. Types
    BY DEF IndInv
<1>1. Awaiting /\ ~att[cur].began
    BY DEF RuntimeStarted
<1>a. PICK a : a = att[cur]
    OBVIOUS
<1>2. /\ pc = "run" /\ cur \in Attempts /\ a \in AttemptType /\ Consumed \in Seq(EventType)
      /\ a.emitted \in Nat /\ a.pending = <<>> /\ ~a.terminal /\ ~a.began
      /\ GateInv(a) /\ StartInv(a) /\ QuietInv(a) /\ Line(Consumed, a.emitted)
    BY <1>1, <1>a, AwaitingIs
<1>3. PICK t : t = Plain("started", cur)
    OBVIOUS
<1>4. t \in EventType /\ t.kind = "started" /\ t.att = cur
    BY <1>0, <1>2, <1>3, EventIs DEF Kinds
<1>5. /\ <<t>> \in Seq(EventType) /\ From(<<t>>, cur) /\ Len(<<t>>) = 1
      /\ Lacks(<<t>>, {"failed", "cancelled"}) /\ Lacks(<<t>>, {"completed", "tool_completed"})
      /\ Lacks(<<t>>, CallEvents) /\ Behind(<<t>>, {"text"}, {"tool_completed"})
      /\ ~Lacks(<<t>>, {"started"})
  <2>1. t.kind \notin CallEvents
      BY <1>4 DEF CallEvents
  <2> QED
      BY <1>4, <2>1, SingleIs
<1>b. PICK b : b = [a EXCEPT !.began = TRUE, !.pending = <<t>>]
    OBVIOUS
<1>6. /\ b \in AttemptType /\ b.gate = a.gate /\ ~b.terminal /\ b.pending = <<t>>
      /\ b.job = a.job /\ b.began /\ b.emitted = a.emitted
    BY <1>2, <1>5, <1>b DEF AttemptType
<1>7. att' = [att EXCEPT ![cur] = b]
  <2>1. att' = [att EXCEPT ![cur].began = TRUE, ![cur].pending = <<t>>]
      BY <1>3 DEF RuntimeStarted
  <2> QED
      BY <1>0, <1>2, <1>a, <1>b, <2>1 DEF Types, AttemptType
<1>8. GateInv(b)
    BY <1>2, <1>5, <1>6 DEF GateInv
<1>9. StartInv(b) /\ a.gate.buffered = <<>>
    BY <1>2, <1>5, <1>6 DEF StartInv
<1>10. QuietInv(b)
    BY <1>2, <1>5, <1>6 DEF QuietInv
<1>11. Line(Consumed \o <<t>> \o <<>>, a.emitted)
  <2>1. Line(Consumed \o <<t>>, a.emitted)
      BY <1>2, <1>4, LineGrows DEF Output
  <2>2. Consumed \o <<t>> \o <<>> = Consumed \o <<t>>
      BY <1>2, <1>5, ConcatProperties, ConcatEmptySeq
  <2> QED
      BY <2>1, <2>2
<1> QED
    BY <1>2, <1>6, <1>7, <1>8, <1>9, <1>10, <1>11, <1>a, EmitStep DEF RuntimeStarted

(* What an awaiting session may show before it ends without success, and   *)
(* what it may show and buffer while it goes on.                           *)
Ends(out) ==
    /\ out \in Seq(EventType) /\ From(out, cur) /\ Only(out, {"text"} \cup CallEvents)
    /\ out = <<>> \/ (att[cur].gate.life = "OPEN" /\ att[cur].gate.buffered = <<>>)
    /\ Lacks(out, CallEvents) \/ (Lacks(out, {"text"}) /\ ~request.atomic)
    /\ Line(Consumed \o out, att[cur].emitted)

Grows(out, g) ==
    /\ out \in Seq(EventType) /\ g \in GateType
    /\ att[cur].gate.life = "OPEN" /\ g.life = "OPEN" /\ g.atomic = att[cur].gate.atomic
    /\ From(out, cur) /\ Only(out, {"text"} \cup CallEvents)
    /\ From(g.buffered, cur) /\ Only(g.buffered, Output)
    /\ g.buffered = <<>> \/ ~Lacks(g.buffered, {"tool_completed"})
    /\ Behind(g.buffered, {"text"}, {"tool_completed"})
    /\ \/ Lacks(out, CallEvents)
       \/ Lacks(out, {"text"}) /\ ~request.atomic /\ g.buffered # <<>>
    /\ att[cur].gate.buffered # <<>> => out = <<>> /\ g.buffered # <<>>
    /\ Line(Consumed \o out \o g.buffered, att[cur].emitted)

(* A parser event that is accepted lets the session grow; one that is      *)
(* refused ends it.                                                        *)
LEMMA SemanticStep ==
    ASSUME IndInv, CanEmit, NEW r, NEW f \in Failures, Semantic(r, f),
           UNCHANGED <<outer, cancelled, released, lease, canceller, consumer, seen>>,
           r.fail = "none" => Grows(r.out, r.gate),
           r.fail # "none" => Ends(r.out)
    PROVE  IndInv'
<1>0. Types
    BY DEF IndInv
<1>1. Awaiting /\ cur \in Attempts /\ att[cur] \in AttemptType
    BY AwaitingIs DEF CanEmit
<1>2. CASE r.fail = "none"
  <2>1. att' = [att EXCEPT ![cur].gate = r.gate, ![cur].pending = r.out, ![cur].emitted = @ + 1]
      BY <1>2 DEF Semantic
  <2> QED
      BY <1>2, <2>1, GrowStep DEF Grows
<1>3. CASE r.fail # "none" /\ canceller = cur
  <2>1. PICK b : b = EndsWith(att[cur], r.out, "cancelled", "none")
      OBVIOUS
  <2>2. att' = [att EXCEPT ![cur] = b]
      BY <1>3, <2>1 DEF Semantic
  <2>3. b = [EndsWith(att[cur], r.out, "cancelled", "none") EXCEPT !.job = att[cur].job]
      BY <1>1, <2>1 DEF EndsWith, AttemptType
  <2> QED
      BY <1>0, <1>1, <1>3, <2>2, <2>3, AttemptIs, EndStep DEF Ends
<1>4. CASE r.fail # "none" /\ canceller # cur
  <2>1. PICK b : b = [EndsWith(att[cur], r.out, "failed", f) EXCEPT !.job = "cancelled"]
      OBVIOUS
  <2>2. att' = [att EXCEPT ![cur] = b]
      BY <1>4, <2>1 DEF Semantic
  <2> QED
      BY <1>1, <1>4, <2>1, <2>2, EndStep DEF Ends
<1> QED
    BY <1>2, <1>3, <1>4

(* Nothing shown is a way to wait.                                         *)
LEMMA EndsEmpty ==
    ASSUME IndInv, Awaiting
    PROVE  Ends(<<>>)
<1>1. Consumed \o <<>> = Consumed
    BY AwaitingIs, ConcatEmptySeq
<1> QED
    BY <1>1, AwaitingIs, EmptyIs DEF Ends

(* Text, from the parser or from what it held back.                        *)
LEMMA TextIs ==
    ASSUME IndInv, Awaiting, NEW e, e = Plain("text", cur), NEW r,
           r = OnPassthrough(att[cur].gate, e)
    PROVE  /\ r.fail = "none" => Grows(r.out, r.gate)
           /\ Ends(r.out)
<1>0. Types
    BY DEF IndInv
<1>a. PICK a : a = att[cur]
    OBVIOUS
<1>1. /\ cur \in Attempts /\ a.gate \in GateType /\ a.gate.buffered \in Seq(EventType)
      /\ a.emitted \in Nat /\ Consumed \in Seq(EventType) /\ GateInv(a)
      /\ Line(Consumed, a.emitted) /\ Line(Consumed \o a.gate.buffered, a.emitted)
    BY <1>a, AwaitingIs
<1>2. e \in EventType /\ e.kind = "text" /\ e.att = cur /\ e.at = a.emitted
    BY <1>0, <1>1, <1>a, EventIs DEF Kinds
<1>3. /\ r.fail = "none" =>
            /\ a.gate.life = "OPEN" /\ r.gate \in GateType
            /\ r.gate.life = "OPEN" /\ r.gate.atomic = a.gate.atomic
            /\ \/ a.gate.buffered = <<>> /\ r.gate.buffered = <<>> /\ r.out = <<e>>
               \/ a.gate.buffered # <<>> /\ r.gate.buffered = a.gate.buffered \o <<e>> /\ r.out = <<>>
      /\ r.out = <<>> \/ (r.out = <<e>> /\ a.gate.life = "OPEN" /\ a.gate.buffered = <<>>)
    BY <1>1, <1>2, <1>a, PassthroughIs
<1>4. /\ <<e>> \in Seq(EventType) /\ From(<<e>>, cur) /\ Only(<<e>>, {"text"} \cup CallEvents)
      /\ Only(<<e>>, Output) /\ Lacks(<<e>>, CallEvents)
  <2>1. e.kind \in {"text"} \cup CallEvents /\ e.kind \in Output /\ e.kind \notin CallEvents
      BY <1>2 DEF CallEvents, Output
  <2> QED
      BY <1>2, <2>1, SingleIs
<1>5. Line(Consumed \o <<e>>, a.emitted) /\ Consumed \o <<e>> \in Seq(EventType)
    BY <1>1, <1>2, <1>4, LineGrows, ConcatProperties
<1>6. Ends(r.out)
  <2>1. CASE r.out = <<>>
      BY <2>1, EndsEmpty
  <2>2. CASE r.out = <<e>> /\ a.gate.life = "OPEN" /\ a.gate.buffered = <<>>
      BY <1>4, <1>5, <1>a, <2>2 DEF Ends
  <2> QED
      BY <1>3, <2>1, <2>2
<1>7. ASSUME r.fail = "none" PROVE Grows(r.out, r.gate)
  <2>1. CASE a.gate.buffered = <<>> /\ r.gate.buffered = <<>> /\ r.out = <<e>>
    <3>1. Line(Consumed \o <<e>> \o <<>>, a.emitted)
        BY <1>5, ConcatEmptySeq
    <3> QED
        BY <1>3, <1>4, <1>7, <1>a, <2>1, <3>1, EmptyIs DEF Grows
  <2>2. CASE a.gate.buffered # <<>> /\ r.gate.buffered = a.gate.buffered \o <<e>> /\ r.out = <<>>
    <3>1. PICK q : q = a.gate.buffered \o <<e>>
        OBVIOUS
    <3>2. From(a.gate.buffered, cur) /\ Only(a.gate.buffered, Output)
          /\ ~Lacks(a.gate.buffered, {"tool_completed"})
          /\ Behind(a.gate.buffered, {"text"}, {"tool_completed"})
        BY <1>1, <2>2 DEF GateInv
    <3>3. From(q, cur) /\ Only(q, Output) /\ ~Lacks(q, {"tool_completed"})
        BY <1>1, <1>4, <3>1, <3>2, ConcatAll
    <3>4. Behind(q, {"text"}, {"tool_completed"})
        BY <1>1, <1>4, <3>1, <3>2, ConcatBehind
    <3>5. Line(Consumed \o q, a.emitted)
      <4>1. Consumed \o a.gate.buffered \in Seq(EventType)
          BY <1>1, ConcatProperties
      <4>2. Line(Consumed \o a.gate.buffered \o <<e>>, a.emitted)
          BY <1>1, <1>2, <4>1, LineGrows
      <4>3. Consumed \o a.gate.buffered \o <<e>> = Consumed \o (a.gate.buffered \o <<e>>)
          BY <1>1, <1>2, RegroupOne
      <4> QED
          BY <3>1, <4>2, <4>3
    <3>6. Consumed \o <<>> \o q = Consumed \o q
        BY <1>1, ConcatEmptySeq
    <3>7. q # <<>>
        BY <3>3, EmptyIs
    <3> QED
        BY <1>3, <1>7, <1>a, <2>2, <3>1, <3>3, <3>4, <3>5, <3>6, <3>7, EmptyIs DEF Grows
  <2> QED
      BY <1>3, <1>7, <2>1, <2>2
<1> QED
    BY <1>6, <1>7

(* Text of the model.                                                      *)
LEMMA TextStep ==
    ASSUME IndInv, EmitText
    PROVE  IndInv'
<1>1. CanEmit /\ Awaiting
    BY DEF EmitText, CanEmit
<1>2. PICK r : r = OnPassthrough(att[cur].gate, Plain("text", cur))
    OBVIOUS
<1>3. Semantic(r, "other")
    BY <1>2 DEF EmitText
<1>4. /\ r.fail = "none" => Grows(r.out, r.gate)
      /\ r.fail # "none" => Ends(r.out)
    BY <1>1, <1>2, TextIs
<1> QED
    BY <1>1, <1>3, <1>4, SemanticStep DEF EmitText, Failures

(* A whole call may be put behind a line.                                  *)
LEMMA LineCall ==
    ASSUME NEW w \in Seq(EventType), NEW n \in Nat, Line(w, n),
           NEW e1 \in EventType, NEW e2 \in EventType, NEW e3 \in EventType,
           e1.kind = "tool_started", e2.kind = "tool_delta", e3.kind = "tool_completed",
           e2.call = e1.call, e3.call = e1.call, e1.at = n, e2.at = n, e3.at = n
    PROVE  /\ (w \o <<e1>>) \o <<e2>> \in Seq(EventType) /\ Line((w \o <<e1>>) \o <<e2>>, n)
           /\ ((w \o <<e1>>) \o <<e2>>) \o <<e3>> \in Seq(EventType)
           /\ Line(((w \o <<e1>>) \o <<e2>>) \o <<e3>>, n)
<1>1. PICK w1 \in Seq(EventType) : w1 = w \o <<e1>>
    BY RegroupOne
<1>2. Line(w1, n)
    BY <1>1, LineGrows
<1>3. \E j \in DOMAIN w1 : w1[j].kind = "tool_started" /\ w1[j].call = e1.call
  <2>1. Len(w) + 1 \in DOMAIN w1 /\ w1[Len(w) + 1] = e1
      BY <1>1
  <2> QED
      BY <2>1
<1>4. PICK w2 \in Seq(EventType) : w2 = w1 \o <<e2>>
    BY RegroupOne
<1>5. Line(w2, n)
    BY <1>2, <1>3, <1>4, LineGrows
<1>6. \E j \in DOMAIN w2 : w2[j].kind = "tool_started" /\ w2[j].call = e1.call
  <2>1. \A j \in DOMAIN w1 : j \in DOMAIN w2 /\ w2[j] = w1[j]
      BY <1>4
  <2> QED
      BY <1>3, <2>1
<1>7. w2 \o <<e3>> \in Seq(EventType) /\ Line(w2 \o <<e3>>, n)
    BY <1>5, <1>6, LineGrows, RegroupOne
<1> QED
    BY <1>1, <1>4, <1>5, <1>7

(* A Tool call of the model.                                               *)
LEMMA CallStep ==
    ASSUME IndInv, NEW c \in Calls, NEW v \in Verdicts, NEW f \in {"model_output", "other"},
           EmitCall(c, v, f)
    PROVE  IndInv'
<1>0. Types
    BY DEF IndInv
<1>a. PICK a : a = att[cur]
    OBVIOUS
<1>1. CanEmit /\ Awaiting
    BY DEF EmitCall, CanEmit
<1>2. /\ cur \in Attempts /\ a.gate \in GateType /\ a.gate.buffered \in Seq(EventType)
      /\ a.emitted \in Nat /\ Consumed \in Seq(EventType) /\ GateInv(a)
      /\ a.gate.atomic = request.atomic
      /\ Line(Consumed, a.emitted) /\ Line(Consumed \o a.gate.buffered, a.emitted)
    BY <1>1, <1>a, AwaitingIs
<1>3. PICK e1 : e1 = Event("tool_started", c, cur)
    OBVIOUS
<1>4. PICK e2 : e2 = Event("tool_delta", c, cur)
    OBVIOUS
<1>5. PICK e3 : e3 = Event("tool_completed", c, cur)
    OBVIOUS
<1>6. /\ e1 \in EventType /\ e2 \in EventType /\ e3 \in EventType
      /\ e1.kind = "tool_started" /\ e2.kind = "tool_delta" /\ e3.kind = "tool_completed"
      /\ e2.call = e1.call /\ e3.call = e1.call
      /\ e1.at = a.emitted /\ e2.at = a.emitted /\ e3.at = a.emitted
      /\ e1.att = cur /\ e2.att = cur /\ e3.att = cur
  <2>1. {"tool_started", "tool_delta", "tool_completed"} \subseteq Kinds
      BY DEF Kinds
  <2> QED
      BY <1>0, <1>2, <1>3, <1>4, <1>5, <1>a, <2>1, EventIs
<1>7. PICK r : r = CallThroughGate(a.gate, c, v)
    OBVIOUS
<1>8. /\ r.fail = "none" =>
            /\ a.gate.life = "OPEN" /\ r.gate \in GateType
            /\ r.gate.life = "OPEN" /\ r.gate.atomic = a.gate.atomic
            /\ \/ /\ ~a.gate.atomic /\ a.gate.buffered = <<>>
                  /\ r.out = <<e1>> \o <<e2>> /\ r.gate.buffered = <<e3>>
               \/ /\ r.out = <<>>
                  /\ r.gate.buffered = ((a.gate.buffered \o <<e1>>) \o <<e2>>) \o <<e3>>
      /\ r.fail # "none" =>
            \/ r.out = <<>>
            \/ /\ ~a.gate.atomic /\ a.gate.buffered = <<>> /\ a.gate.life = "OPEN"
               /\ r.out = <<e1>> \o <<e2>>
  <2>1. CallAnswer(r, a.gate, e1, e2, e3)
      BY <1>2, <1>3, <1>4, <1>5, <1>6, <1>7, CallIs
  <2> QED
      BY <2>1 DEF CallAnswer
<1>9. /\ <<e1>> \in Seq(EventType) /\ <<e2>> \in Seq(EventType) /\ <<e3>> \in Seq(EventType)
      /\ From(<<e1>>, cur) /\ From(<<e2>>, cur) /\ From(<<e3>>, cur)
      /\ Only(<<e1>>, Output) /\ Only(<<e2>>, Output) /\ Only(<<e3>>, Output)
      /\ Only(<<e1>>, CallEvents) /\ Only(<<e2>>, CallEvents) /\ ~Lacks(<<e3>>, {"tool_completed"})
      /\ Lacks(<<e1>>, {"text"}) /\ Lacks(<<e2>>, {"text"}) /\ Lacks(<<e3>>, {"text"})
  <2>1. /\ e1.kind \in Output /\ e2.kind \in Output /\ e3.kind \in Output
        /\ e1.kind \in CallEvents /\ e2.kind \in CallEvents
        /\ e1.kind \notin {"text"} /\ e2.kind \notin {"text"} /\ e3.kind \notin {"text"}
        /\ e3.kind \in {"tool_completed"}
      BY <1>6 DEF Output, CallEvents
  <2> QED
      BY <1>6, <2>1, SingleIs
<1>10. PICK o : o = <<e1>> \o <<e2>>
    OBVIOUS
<1>11. /\ o \in Seq(EventType) /\ From(o, cur) /\ Only(o, CallEvents) /\ Lacks(o, {"text"})
       /\ Only(o, {"text"} \cup CallEvents)
  <2>1. /\ o \in Seq(EventType) /\ From(o, cur) /\ Only(o, CallEvents) /\ Lacks(o, {"text"})
      BY <1>9, <1>10, ConcatAll, Regroup
  <2> QED
      BY <2>1, LacksLess
<1>12. Consumed \o o = (Consumed \o <<e1>>) \o <<e2>>
    BY <1>2, <1>6, <1>9, <1>10, RegroupOne
<1>13. Line(Consumed \o o, a.emitted) /\ Line(Consumed \o o \o <<e3>>, a.emitted)
    BY <1>2, <1>6, <1>12, LineCall
<1>14. ASSUME ~a.gate.atomic, a.gate.buffered = <<>>, a.gate.life = "OPEN"
       PROVE  Ends(o)
    BY <1>2, <1>11, <1>13, <1>14, <1>a DEF Ends
<1>15. ASSUME r.fail # "none" PROVE Ends(r.out)
    BY <1>1, <1>8, <1>10, <1>14, <1>15, EndsEmpty
<1>16. ASSUME r.fail = "none" PROVE Grows(r.out, r.gate)
  <2>1. CASE /\ ~a.gate.atomic /\ a.gate.buffered = <<>>
             /\ r.out = <<e1>> \o <<e2>> /\ r.gate.buffered = <<e3>>
    <3>1. r.out = o /\ Behind(<<e3>>, {"text"}, {"tool_completed"}) /\ <<e3>> # <<>>
        BY <1>9, <1>10, <2>1, LacksLess
    <3> QED
        BY <1>2, <1>8, <1>9, <1>11, <1>13, <1>16, <1>a, <2>1, <3>1 DEF Grows
  <2>2. CASE /\ r.out = <<>>
             /\ r.gate.buffered = ((a.gate.buffered \o <<e1>>) \o <<e2>>) \o <<e3>>
    <3>1. PICK b1 \in Seq(EventType) : b1 = a.gate.buffered \o <<e1>>
        BY <1>2, <1>6, RegroupOne
    <3>2. PICK b2 \in Seq(EventType) : b2 = b1 \o <<e2>>
        BY <1>6, RegroupOne
    <3>3. PICK b3 \in Seq(EventType) : b3 = b2 \o <<e3>>
        BY <1>6, RegroupOne
    <3>4. From(a.gate.buffered, cur) /\ Only(a.gate.buffered, Output)
          /\ Behind(a.gate.buffered, {"text"}, {"tool_completed"})
        BY <1>2 DEF GateInv
    <3>5. From(b1, cur) /\ Only(b1, Output) /\ Behind(b1, {"text"}, {"tool_completed"})
        BY <1>2, <1>9, <3>1, <3>4, ConcatAll, ConcatBehind
    <3>6. From(b2, cur) /\ Only(b2, Output) /\ Behind(b2, {"text"}, {"tool_completed"})
        BY <1>9, <3>2, <3>5, ConcatAll, ConcatBehind
    <3>7. /\ From(b3, cur) /\ Only(b3, Output) /\ Behind(b3, {"text"}, {"tool_completed"})
          /\ ~Lacks(b3, {"tool_completed"})
        BY <1>9, <3>3, <3>6, ConcatAll, ConcatBehind
    <3>8. Line(Consumed \o b3, a.emitted)
      <4>1. PICK q \in Seq(EventType) : q = Consumed
          BY <1>2
      <4>2. PICK b0 \in Seq(EventType) : b0 = a.gate.buffered
          BY <1>2
      <4>3. PICK w \in Seq(EventType) : w = q \o b0
          BY Regroup
      <4>4. Line(((w \o <<e1>>) \o <<e2>>) \o <<e3>>, a.emitted)
          BY <1>2, <1>6, <4>1, <4>2, <4>3, LineCall
      <4>5. b1 = b0 \o <<e1>>
          BY <3>1, <4>2
      <4>6. w \o <<e1>> = q \o b1
        <5>1. (q \o b0) \o <<e1>> = q \o (b0 \o <<e1>>)
            BY <1>6, RegroupOne, ZenonT(60)
        <5> QED
            BY <4>3, <4>5, <5>1
      <4>7. q \o b1 \o <<e2>> = q \o b2
          BY <1>6, <3>2, RegroupOne, ZenonT(60)
      <4>8. q \o b2 \o <<e3>> = q \o b3
          BY <1>6, <3>3, RegroupOne, ZenonT(60)
      <4> QED
          BY <4>1, <4>4, <4>6, <4>7, <4>8
    <3>9. Consumed \o <<>> \o b3 = Consumed \o b3 /\ b3 # <<>>
        BY <1>2, <3>7, Regroup, EmptyIs
    <3>10. r.gate.buffered = b3
        BY <2>2, <3>1, <3>2, <3>3
    <3> QED
        BY <1>8, <1>16, <1>a, <2>2, <3>7, <3>8, <3>9, <3>10, EmptyIs DEF Grows
  <2> QED
      BY <1>8, <1>16, <2>1, <2>2
<1> QED
  <2>1. Semantic(r, f) /\ f \in Failures
      BY <1>7, <1>a DEF EmitCall, Failures
  <2> QED
      BY <1>1, <1>15, <1>16, <2>1, SemanticStep DEF EmitCall

(* The runtime finishes: the batch is committed behind what was shown.     *)
LEMMA FinishStep ==
    ASSUME IndInv, RuntimeFinishes
    PROVE  IndInv'
<1>0. Types
    BY DEF IndInv
<1>1. Awaiting /\ att[cur].began /\ att[cur].job = "running" /\ canceller # cur
    BY DEF RuntimeFinishes
<1>a. PICK a : a = att[cur]
    OBVIOUS
<1>2. /\ pc = "run" /\ cur \in Attempts /\ a \in AttemptType /\ Consumed \in Seq(EventType)
      /\ a.gate \in GateType /\ a.gate.buffered \in Seq(EventType)
      /\ a.emitted \in Nat /\ a.pending = <<>> /\ ~a.terminal /\ a.began
      /\ GateInv(a) /\ StartInv(a) /\ QuietInv(a)
      /\ Line(Consumed \o a.gate.buffered, a.emitted)
    BY <1>1, <1>a, AwaitingIs
<1>3. a.gate.life = "OPEN"
    BY <1>1, <1>2, <1>a DEF GateInv, GateType
<1>4. PICK q \in Seq(EventType) : q = a.gate.buffered
    BY <1>2
<1>5. PICK g : g = CommitEvents(a.gate).gate
    OBVIOUS
<1>6. /\ g \in GateType /\ g.atomic = a.gate.atomic /\ g.life = "COMMITTED"
      /\ g.buffered = <<>> /\ CommitEvents(a.gate).out = q
    BY <1>2, <1>3, <1>4, <1>5, CommitIs
<1>7. PICK u : u = Plain("usage", cur)
    OBVIOUS
<1>8. PICK d : d = Plain("completed", cur)
    OBVIOUS
<1>9. /\ u \in EventType /\ u.kind = "usage" /\ u.att = cur
      /\ d \in EventType /\ d.kind = "completed" /\ d.att = cur
  <2>1. "usage" \in Kinds /\ "completed" \in Kinds
      BY DEF Kinds, Terminals
  <2> QED
      BY <1>0, <1>2, <1>7, <1>8, <2>1, EventIs
<1>10. PICK p1 \in Seq(EventType) : p1 = q \o <<u>>
    BY <1>9, RegroupOne
<1>11. PICK p \in Seq(EventType) : p = p1 \o <<d>>
    BY <1>9, RegroupOne
<1>12. q \o <<u, d>> = p
  <2>1. <<u>> \o <<d>> = <<u, d>>
    <3>1. <<u>> \o <<d>> \in Seq(EventType) /\ <<u, d>> \in Seq(EventType)
        BY <1>9
    <3>2. Len(<<u>> \o <<d>>) = 2 /\ Len(<<u, d>>) = 2
        OBVIOUS
    <3>3. \A i \in 1..2 : (<<u>> \o <<d>>)[i] = <<u, d>>[i]
        OBVIOUS
    <3> QED
        BY <3>1, <3>2, <3>3, SeqEqual
  <2>2. <<u>> \in Seq(EventType)
      BY <1>9
  <2>3. q \o <<u>> \o <<d>> = q \o (<<u>> \o <<d>>)
      BY <1>9, <2>2, RegroupOne
  <2> QED
      BY <1>10, <1>11, <2>1, <2>3
<1>b. PICK b : b = [a EXCEPT !.job = "ended", !.terminal = TRUE, !.gate = g, !.pending = p]
    OBVIOUS
<1>13. /\ b \in AttemptType /\ b.gate = g /\ b.terminal /\ b.pending = p /\ b.job = "ended"
       /\ b.began /\ b.emitted = a.emitted
    BY <1>2, <1>6, <1>b DEF AttemptType
<1>14. att' = [att EXCEPT ![cur] = b]
  <2>1. att' = [att EXCEPT ![cur].job = "ended", ![cur].terminal = TRUE, ![cur].gate = g,
                           ![cur].pending = p]
      BY <1>5, <1>6, <1>7, <1>8, <1>12, <1>a DEF RuntimeFinishes
  <2> QED
      BY <1>0, <1>2, <1>a, <1>b, <2>1 DEF Types, AttemptType
<1>15. From(q, cur) /\ Only(q, Output) /\ Behind(q, {"text"}, {"tool_completed"})
    BY <1>2, <1>4 DEF GateInv
<1>16. Lacks(q, {"failed", "cancelled"}) /\ Lacks(q, {"started"})
  <2>1. Output \cap {"failed", "cancelled"} = {} /\ Output \cap {"started"} = {}
      BY DEF Output
  <2> QED
      BY <1>15, <2>1, LacksLess
<1>17. /\ <<u>> \in Seq(EventType) /\ From(<<u>>, cur) /\ Lacks(<<u>>, {"failed", "cancelled"})
       /\ Lacks(<<u>>, {"started"}) /\ Lacks(<<u>>, {"text"})
       /\ <<d>> \in Seq(EventType) /\ From(<<d>>, cur) /\ Lacks(<<d>>, {"failed", "cancelled"})
       /\ Lacks(<<d>>, {"started"}) /\ Lacks(<<d>>, {"text"})
    BY <1>9, SingleIs
<1>18. /\ From(p1, cur) /\ Lacks(p1, {"failed", "cancelled"}) /\ Lacks(p1, {"started"})
       /\ Behind(p1, {"text"}, {"tool_completed"})
    BY <1>10, <1>15, <1>16, <1>17, ConcatAll, ConcatBehind
<1>19. /\ From(p, cur) /\ Lacks(p, {"failed", "cancelled"}) /\ Lacks(p, {"started"})
       /\ Behind(p, {"text"}, {"tool_completed"})
    BY <1>11, <1>17, <1>18, ConcatAll, ConcatBehind
<1>20. GateInv(b)
    BY <1>2, <1>6, <1>13, <1>19, EmptyIs DEF GateInv
<1>21. StartInv(b)
    BY <1>2, <1>13, <1>19 DEF StartInv
<1>22. QuietInv(b)
    BY <1>6, <1>13, <1>19 DEF QuietInv
<1>23. Line(Consumed \o p \o <<>>, a.emitted)
  <2>1. PICK s \in Seq(EventType) : s = Consumed
      BY <1>2
  <2>2. PICK w \in Seq(EventType) : w = s \o q
      BY Regroup
  <2>3. Line(w, a.emitted)
      BY <1>2, <1>4, <2>1, <2>2
  <2>4. PICK w1 \in Seq(EventType) : w1 = w \o <<u>>
      BY <1>9, RegroupOne
  <2>5. Line(w1, a.emitted)
      BY <1>2, <1>9, <2>3, <2>4, LineGrows DEF Output
  <2>6. Line(w1 \o <<d>>, a.emitted)
      BY <1>2, <1>9, <2>5, LineGrows DEF Output
  <2>7. w1 = s \o p1
      BY <1>9, <1>10, <2>2, <2>4, RegroupOne, SMTT(60)
  <2>8. w1 \o <<d>> = s \o p
      BY <1>9, <1>11, <2>7, RegroupOne, ZenonT(60)
  <2>9. s \o p \o <<>> = s \o p
      BY Regroup
  <2> QED
      BY <2>1, <2>6, <2>8, <2>9
<1> QED
    BY <1>2, <1>6, <1>13, <1>14, <1>20, <1>21, <1>22, <1>23, <1>a, EmitStep DEF RuntimeFinishes

(* What the parser held back is text.                                      *)
LEMMA FlushIs ==
    ASSUME IndInv, Awaiting, NEW text \in BOOLEAN
    PROVE  Ends(Flushed(text))
<1>1. CASE text
  <2>1. PICK r : r = OnPassthrough(att[cur].gate, Plain("text", cur))
      OBVIOUS
  <2>2. Ends(r.out)
      BY <2>1, TextIs
  <2> QED
      BY <1>1, <2>1, <2>2 DEF Flushed
<1>2. CASE ~text
    BY <1>2, EndsEmpty DEF Flushed
<1> QED
    BY <1>1, <1>2

(* The runtime fails, with the text the parser still held.                 *)
LEMMA FailStep ==
    ASSUME IndInv, NEW f \in Failures, NEW text \in BOOLEAN, RuntimeFails(f, text)
    PROVE  IndInv'
<1>1. Awaiting
    BY DEF RuntimeFails
<1>2. PICK out : out = Flushed(text)
    OBVIOUS
<1>3. Ends(out)
    BY <1>1, <1>2, FlushIs
<1>4. PICK b : b = [EndsWith(att[cur], out, "failed", f) EXCEPT !.job = "ended"]
    OBVIOUS
<1>5. att' = [att EXCEPT ![cur] = b]
    BY <1>2, <1>4 DEF RuntimeFails
<1> QED
    BY <1>1, <1>3, <1>4, <1>5, EndStep DEF RuntimeFails, Ends

(* The runtime reports its cancellation.                                   *)
LEMMA CancelledStep ==
    ASSUME IndInv, NEW text \in BOOLEAN, RuntimeCancelled(text)
    PROVE  IndInv'
<1>0. Types
    BY DEF IndInv
<1>1. Awaiting
    BY DEF RuntimeCancelled
<1>2. PICK out : out = Flushed(text)
    OBVIOUS
<1>3. Ends(out)
    BY <1>1, <1>2, FlushIs
<1>4. PICK j : j = IF att[cur].job = "running" THEN "ended" ELSE att[cur].job
    OBVIOUS
<1>5. cur \in Attempts /\ att[cur] \in AttemptType
      /\ j \in {"none", "running", "ended", "cancelled"} /\ j # "running"
    BY <1>0, <1>1, <1>4, AwaitingIs, AttemptIs
<1>6. PICK e : e = EndsWith(att[cur], out, "cancelled", "none")
    OBVIOUS
<1>7. e.job = att[cur].job
    BY <1>5, <1>6 DEF EndsWith, AttemptType
<1>8. PICK b : b = [e EXCEPT !.job = j]
    OBVIOUS
<1>9. att' = [att EXCEPT ![cur] = b]
  <2>1. att' = [att EXCEPT ![cur] = [EndsWith(@, out, "cancelled", "none") EXCEPT !.job = j]]
      BY <1>2, <1>4 DEF RuntimeCancelled
  <2> QED
      BY <1>6, <1>8, <2>1
<1> QED
    BY <1>1, <1>3, <1>5, <1>6, <1>8, <1>9, EndStep DEF RuntimeCancelled, Ends

-----------------------------------------------------------------------------
(* More about sequences: what the consumer is given.                       *)

(* Events that carry no output do not disturb the order behind them.       *)
LEMMA OrderKept ==
    ASSUME NEW s \in Seq(EventType), NEW t \in Seq(EventType), Lacks(t, Output),
           Sorted(s), Announced(s)
    PROVE  Sorted(s \o t) /\ Announced(s \o t)
<1> DEFINE u == s \o t
<1>1. /\ DOMAIN s = 1..Len(s) /\ DOMAIN t = 1..Len(t) /\ Len(s) \in Nat /\ Len(t) \in Nat
      /\ \A i \in DOMAIN s : i \in DOMAIN u /\ u[i] = s[i]
      /\ \A i \in DOMAIN u : \/ i \in DOMAIN s
                             \/ i - Len(s) \in DOMAIN t /\ u[i] = t[i - Len(s)] /\ i > Len(s)
      /\ DOMAIN u = 1..Len(s) + Len(t)
    BY ConcatIs
<1> HIDE DEF u
<1>2. \A i \in DOMAIN u : u[i].kind \in Output => i \in DOMAIN s /\ u[i] = s[i]
    BY <1>1 DEF Lacks
<1>3. Sorted(u)
    BY <1>2 DEF Sorted
<1>4. ASSUME NEW i \in DOMAIN u, u[i].kind \in {"tool_delta", "tool_completed"}
      PROVE  \E j \in DOMAIN u : j < i /\ u[j].kind = "tool_started" /\ u[j].call = u[i].call
  <2>1. i \in DOMAIN s /\ u[i] = s[i]
      BY <1>2, <1>4 DEF Output
  <2>2. PICK j \in DOMAIN s : j < i /\ s[j].kind = "tool_started" /\ s[j].call = s[i].call
      BY <1>4, <2>1 DEF Announced
  <2> QED
      BY <1>1, <2>1, <2>2
<1> QED
    BY <1>3, <1>4 DEF Announced, u

(* Taking away an event nothing looks back to.                             *)
LEMMA BehindTail ==
    ASSUME NEW e \in EventType, NEW t \in Seq(EventType), NEW X, NEW Y,
           Behind(<<e>> \o t, X, Y), e.kind \notin Y
    PROVE  Behind(t, X, Y)
<1> DEFINE u == <<e>> \o t
<1>1. /\ DOMAIN t = 1..Len(t) /\ Len(t) \in Nat /\ DOMAIN u = 1..Len(t) + 1
      /\ u[1] = e /\ \A i \in DOMAIN t : i + 1 \in DOMAIN u /\ u[i + 1] = t[i]
    OBVIOUS
<1> HIDE DEF u
<1>2. SUFFICES ASSUME NEW i \in DOMAIN t, t[i].kind \in X
               PROVE  \E j \in DOMAIN t : j < i /\ t[j].kind \in Y
    BY DEF Behind
<1>3. PICK j \in DOMAIN u : j < i + 1 /\ u[j].kind \in Y
    BY <1>1, <1>2 DEF Behind, u
<1>4. j # 1
    BY <1>1, <1>3
<1>5. j - 1 \in DOMAIN t /\ j - 1 < i /\ u[j] = t[j - 1]
    BY <1>1, <1>3, <1>4
<1> QED
    BY <1>3, <1>5

(* The first event of a sequence has nothing before it.                    *)
LEMMA BehindHead ==
    ASSUME NEW e \in EventType, NEW t \in Seq(EventType), NEW X, NEW Y,
           Behind(<<e>> \o t, X, Y)
    PROVE  e.kind \notin X
<1> DEFINE u == <<e>> \o t
<1>1. Len(t) \in Nat /\ DOMAIN u = 1..Len(t) + 1 /\ u[1] = e
    OBVIOUS
<1> HIDE DEF u
<1>2. ~ \E j \in DOMAIN u : j < 1
    BY <1>1
<1>3. 1 \in DOMAIN u
    BY <1>1
<1> QED
    BY <1>1, <1>2, <1>3 DEF Behind, u

(* Events of one attempt, or none with output, have one owner.             *)
LEMMA OwnedIs ==
    ASSUME NEW s, NEW k
    PROVE  /\ From(s, k) => Owned(s, k)
           /\ Lacks(s, Output \cup {"completed"}) => Owned(s, k)
BY DEF From, Owned, Lacks

(* Nothing is left of nothing.                                             *)
LEMMA DrainEmpty == WithoutStagedTools(<<>>) = <<>>
<1>1. <<>> \in Seq({})
    BY EmptySeq
<1>2. WithoutStagedTools(<<>>) \in Seq({e \in {} : ~IsStagedTool(e)})
    BY <1>1, FilterIs
<1>3. {e \in {} : ~IsStagedTool(e)} = {}
    OBVIOUS
<1>4. \A q \in Seq({}) : q = <<>>
  <2>1. SUFFICES ASSUME NEW q \in Seq({}), q # <<>> PROVE FALSE
      OBVIOUS
  <2>2. Head(q) \in {}
      BY <2>1, HeadTailProperties
  <2> QED
      BY <2>2
<1> QED
    BY <1>2, <1>3, <1>4

(* What is drained at the end of a request that did not succeed: nothing,  *)
(* or usage records.                                                       *)
LEMMA DrainAtEndIs ==
    ASSUME Types, StageInv
    PROVE  /\ DrainAtEnd \in Seq(EventType)
           /\ ~RecoveryUnavailable => Only(DrainAtEnd, {"usage"})
<1>1. staged \in Seq(EventType)
    BY DEF Types
<1>2. CASE request.visibility # "streaming"
    BY <1>2, EmptyIs DEF DrainAtEnd
<1>3. CASE request.visibility = "streaming" /\ RecoveryUnavailable
    BY <1>3, DrainEmpty, EmptyIs DEF DrainAtEnd, Drain, StageInv
<1>4. CASE request.visibility = "streaming" /\ ~RecoveryUnavailable
  <2>1. Only(staged, CallEvents \cup {"usage"})
      BY <1>4 DEF StageInv, Streaming
  <2>2. DrainAtEnd = WithoutStagedTools(staged)
      BY <1>4 DEF DrainAtEnd, Drain
  <2> QED
      BY <1>1, <2>1, <2>2, DrainIs
<1> QED
    BY <1>2, <1>3, <1>4

-----------------------------------------------------------------------------
(* The steps of the outer session.                                         *)

(* Its last event is yielded.                                              *)
LEMMA LastStep ==
    ASSUME IndInv, pc \in {"run"} \cup Between, pc' = "yielded", staged' = <<>>,
           UNCHANGED <<request, cur, published, begun, terminal, cancelled, released, lease,
                       canceller, consumer>>,
           ordinal' \in 1..2, started' \in 0..MaxObjects, started' <= 2,
           failure' \in Failures \cup {"none"},
           att' \in [Attempts -> AttemptType],
           \A k \in Attempts : att'[k].job = att[k].job \/ att'[k].job # "running",
           seen' \in Seq(EventType), SeenInv'
    PROVE  IndInv'
<1>0. Types /\ ControlInv /\ StageInv
    BY DEF IndInv
<1>1. Types'
    BY <1>0, EmptySeq DEF Types, Over
<1>2. ControlInv'
    BY <1>0 DEF ControlInv, Setup, Between
<1>3. /\ RecoveryUnavailable' <=> RecoveryUnavailable
      /\ Streaming' <=> Streaming
    BY DEF RecoveryUnavailable, Streaming
<1>4. StageInv'
    BY <1>0, <1>3, EmptyIs DEF StageInv, Over
<1>5. RunInv'
    BY DEF RunInv
<1> QED
    BY <1>1, <1>2, <1>4, <1>5 DEF IndInv

(* It is yielded behind the usage records that were staged.                *)
LEMMA YieldStep ==
    ASSUME IndInv, pc \in {"run"} \cup Between,
           NEW o \in Seq(EventType), Only(o, {"usage"}),
           NEW e \in EventType, e.kind \in Terminals, e.att = cur, YieldsTerminal(o \o <<e>>),
           UNCHANGED <<request, cur, published, begun, terminal, cancelled, released, lease,
                       canceller, consumer>>,
           ordinal' \in 1..2, started' \in 0..MaxObjects, started' <= 2,
           failure' \in Failures \cup {"none"},
           att' \in [Attempts -> AttemptType],
           \A k \in Attempts : att'[k].job = att[k].job \/ att'[k].job # "running",
           Committed => Committed',
           e.kind = "completed" \/ Lacks(seen, {"tool_completed"})
    PROVE  IndInv'
<1>0. Types /\ ControlInv /\ StageInv /\ SeenInv
    BY DEF IndInv
<1>1. PICK x : x = o \o <<e>>
    OBVIOUS
<1>2. pc' = "yielded" /\ seen' = seen \o x /\ staged' = <<>>
    BY <1>1 DEF YieldsTerminal
<1>3. <<e>> \in Seq(EventType) /\ x \in Seq(EventType) /\ seen \in Seq(EventType)
      /\ seen \o x \in Seq(EventType)
    BY <1>0, <1>1, RegroupOne, Regroup, SingleIs DEF Types
<1>4. /\ Lacks(<<e>>, Output) /\ Lacks(<<e>>, {"started"}) /\ Lacks(<<e>>, CallEvents)
      /\ Lacks(<<e>>, {"tool_completed"}) /\ ~Lacks(<<e>>, Terminals)
      /\ e.kind = "completed" => Lacks(<<e>>, {"failed", "cancelled"})
      /\ From(<<e>>, cur)
  <2>1. e.kind \notin Output /\ e.kind \notin CallEvents
        /\ e.kind \notin {"tool_completed"} /\ e.kind \notin {"started"}
      BY DEF Terminals, Output, CallEvents
  <2> QED
      BY <2>1, SingleIs
<1>5. /\ Lacks(o, Output) /\ Lacks(o, {"started"}) /\ Lacks(o, CallEvents)
      /\ Lacks(o, {"tool_completed"}) /\ Lacks(o, {"failed", "cancelled"})
      /\ Lacks(o, Output \cup {"completed"})
  <2>1. /\ {"usage"} \cap Output = {} /\ {"usage"} \cap {"started"} = {}
        /\ {"usage"} \cap CallEvents = {} /\ {"usage"} \cap {"tool_completed"} = {}
        /\ {"usage"} \cap {"failed", "cancelled"} = {}
        /\ {"usage"} \cap (Output \cup {"completed"}) = {}
      BY DEF Output, CallEvents
  <2> QED
      BY <2>1, LacksLess
<1>6. /\ Lacks(x, Output) /\ Lacks(x, {"started"}) /\ Lacks(x, CallEvents)
      /\ Lacks(x, {"tool_completed"}) /\ ~Lacks(x, Terminals)
      /\ e.kind = "completed" => Lacks(x, {"failed", "cancelled"})
      /\ Owned(x, cur)
  <2>1. Owned(<<e>>, cur) /\ Owned(o, cur)
      BY <1>4, <1>5, OwnedIs
  <2>2. Owned(x, cur)
      BY <1>1, <1>3, <2>1, ConcatAll
  <2>3. /\ Lacks(x, Output) /\ Lacks(x, {"started"}) /\ Lacks(x, CallEvents)
        /\ Lacks(x, {"tool_completed"})
      BY <1>1, <1>3, <1>4, <1>5, ConcatAll
  <2>4. ~Lacks(x, Terminals)
      BY <1>1, <1>3, <1>4, ConcatAll
  <2>5. e.kind = "completed" => Lacks(x, {"failed", "cancelled"})
    <3>1. Lacks(o \o <<e>>, {"failed", "cancelled"})
            <=> Lacks(o, {"failed", "cancelled"}) /\ Lacks(<<e>>, {"failed", "cancelled"})
        BY <1>3, ConcatAll
    <3> QED
        BY <1>1, <1>4, <1>5, <3>1
  <2> QED
      BY <2>2, <2>3, <2>4, <2>5
<1>7. OneStart(x)
    BY <1>6 DEF OneStart, Lacks
<1>8. SeenInv'
  <2>1. OneStart(seen') /\ Sorted(seen') /\ Announced(seen')
      BY <1>0, <1>2, <1>3, <1>6, <1>7, OrderKept, ConcatOneStart DEF SeenInv
  <2>2. Owned(seen', cur')
      BY <1>0, <1>2, <1>3, <1>6, ConcatAll DEF SeenInv
  <2>3. Committed' \/ Lacks(seen', {"tool_completed"})
      BY <1>0, <1>2, <1>3, <1>6, ConcatAll DEF SeenInv
  <2>4. Lacks(seen', {"tool_completed"}) \/ Lacks(seen', {"failed", "cancelled"})
    <3>1. CASE e.kind = "completed"
      <4>1. Lacks(seen, Terminals) /\ {"failed", "cancelled"} \subseteq Terminals
          BY <1>0 DEF StageInv, Between, Over, Terminals
      <4>2. Lacks(seen, {"failed", "cancelled"})
          BY <4>1 DEF Lacks
      <4>3. Lacks(x, {"failed", "cancelled"})
          BY <1>6, <3>1
      <4>4. Lacks(seen \o x, {"failed", "cancelled"})
          BY <1>3, <4>2, <4>3, ConcatAll
      <4> QED
          BY <1>2, <4>4
    <3>2. CASE Lacks(seen, {"tool_completed"})
        BY <1>2, <1>3, <1>6, <3>2, ConcatAll
    <3> QED
        BY <3>1, <3>2
  <2>5. \/ Committed'
        \/ Lacks(seen', CallEvents)
        \/ ~request'.atomic /\ (RecoveryUnavailable' \/ Behind(seen', CallEvents, {"text"}))
    <3>1. RecoveryUnavailable' <=> RecoveryUnavailable
        BY DEF RecoveryUnavailable
    <3>2. Lacks(seen, CallEvents) => Lacks(seen', CallEvents)
        BY <1>2, <1>3, <1>6, ConcatAll
    <3>3. Behind(seen, CallEvents, {"text"}) => Behind(seen', CallEvents, {"text"})
        BY <1>2, <1>3, <1>6, ConcatBehind
    <3> QED
        BY <1>0, <3>1, <3>2, <3>3 DEF SeenInv
  <2>6. ~Lacks(seen', Terminals)
      BY <1>2, <1>3, <1>6, ConcatAll
  <2> QED
      BY <2>1, <2>2, <2>3, <2>4, <2>5, <2>6 DEF SeenInv
<1> QED
    BY <1>2, <1>3, <1>8, LastStep

(* One event before others.                                                *)
LEMMA ConsLacks ==
    ASSUME NEW e \in EventType, NEW t \in Seq(EventType), NEW K
    PROVE  Lacks(<<e>> \o t, K) <=> e.kind \notin K /\ Lacks(t, K)
<1>1. PICK s \in Seq(EventType) : s = <<e>>
    BY SingleIs
<1>2. Lacks(s \o t, K) <=> Lacks(s, K) /\ Lacks(t, K)
    BY ConcatAll
<1>3. Lacks(s, K) <=> e.kind \notin K
    BY <1>1, SingleIs
<1> QED
    BY <1>1, <1>2, <1>3

(* A queue is of one attempt when its first event and the rest are.        *)
LEMMA ConsFrom ==
    ASSUME NEW e \in EventType, NEW t \in Seq(EventType), NEW k
    PROVE  From(<<e>> \o t, k) <=> e.att = k /\ From(t, k)
<1>1. PICK s \in Seq(EventType) : s = <<e>>
    BY SingleIs
<1>2. From(s \o t, k) <=> From(s, k) /\ From(t, k)
    BY ConcatAll
<1>3. From(s, k) <=> e.att = k
    BY <1>1, SingleIs
<1> QED
    BY <1>1, <1>2, <1>3

(* The next event e of the attempt a, and what it leaves pending.          *)
Takes(a, e, t) ==
    a = att[cur] /\ a.pending # <<>> /\ e = Head(a.pending) /\ t = Tail(a.pending)

(* What the loop takes from the current attempt.                           *)
LEMMA HeadIs ==
    ASSUME IndInv, pc = "run", NEW a, NEW e, NEW t, Takes(a, e, t)
    PROVE  /\ cur \in Attempts /\ a \in AttemptType /\ a.gate \in GateType
           /\ a.gate.buffered \in Seq(EventType) /\ a.emitted \in Nat
           /\ e \in EventType /\ t \in Seq(EventType) /\ Consumed \in Seq(EventType)
           /\ a.pending = <<e>> \o t /\ e.att = cur /\ From(t, cur)
           /\ GateInv(a) /\ StartInv(a) /\ QuietInv(a) /\ ShownInv
           /\ ~Committed => e.kind \notin {"completed", "tool_completed"}
           /\ ~Committed /\ request.atomic => e.kind \notin CallEvents
           /\ Committed => e.kind \notin {"failed", "cancelled"}
           /\ e.kind = "started" =>
                 /\ t = <<>> /\ a.began /\ a.gate.buffered = <<>>
                 /\ Lacks(staged, {"started"})
                 /\ RecoveryUnavailable => Lacks(seen, {"started"})
           /\ Line((Consumed \o <<e>>) \o t \o a.gate.buffered, a.emitted)
           /\ Line(Consumed \o <<e>>, a.emitted)
<1>0. Types /\ ControlInv /\ RunInv
    BY DEF IndInv
<1>1. /\ cur \in Attempts /\ a \in AttemptType /\ a.gate \in GateType
      /\ a.gate.buffered \in Seq(EventType) /\ a.emitted \in Nat /\ a.pending \in Seq(EventType)
      /\ Consumed \in Seq(EventType)
    BY <1>0, RunParts, AttemptIs DEF Takes
<1>2. /\ e \in EventType /\ t \in Seq(EventType) /\ a.pending = <<e>> \o t
      /\ Len(a.pending) = 1 => t = <<>>
    BY <1>1, SplitIs DEF Takes
<1>3. <<e>> \in Seq(EventType)
    BY <1>2
<1>4. /\ GateInv(a) /\ StartInv(a) /\ QuietInv(a) /\ ShownInv
      /\ Line(Consumed \o a.pending \o a.gate.buffered, a.emitted)
    BY <1>0 DEF RunInv, Takes
<1>5. e.att = cur /\ From(t, cur)
    BY <1>2, <1>4, ConsFrom DEF GateInv
<1>7. \A K : Lacks(a.pending, K) => e.kind \notin K
  <2>1. SUFFICES ASSUME NEW K, Lacks(a.pending, K) PROVE e.kind \notin K
      OBVIOUS
  <2> QED
      BY <1>2, <2>1, ConsLacks
<1>8. Committed <=> a.gate.life = "COMMITTED"
    BY <1>1, RecoveryAssumption DEF Committed, Attempts, Takes
<1>9. /\ ~Committed => e.kind \notin {"completed", "tool_completed"}
      /\ ~Committed /\ request.atomic => e.kind \notin CallEvents
      /\ Committed => e.kind \notin {"failed", "cancelled"}
    BY <1>4, <1>7, <1>8 DEF GateInv
<1>10. ASSUME e.kind = "started"
       PROVE  /\ t = <<>> /\ a.began /\ a.gate.buffered = <<>>
              /\ Lacks(staged, {"started"})
              /\ RecoveryUnavailable => Lacks(seen, {"started"})
  <2>1. ~Lacks(a.pending, {"started"})
      BY <1>7, <1>10
  <2> QED
      BY <1>2, <1>4, <2>1 DEF StartInv
<1>11. PICK s \in Seq(EventType) : s = Consumed
    BY <1>1
<1>12. PICK b \in Seq(EventType) : b = a.gate.buffered
    BY <1>1
<1>13. PICK s1 \in Seq(EventType) : s1 = s \o <<e>>
    BY <1>2, RegroupOne
<1>14. s \o a.pending = s1 \o t
    BY <1>2, <1>3, <1>13, Regroup, SMTT(60)
<1>15. Line(s1 \o t \o b, a.emitted)
    BY <1>4, <1>11, <1>12, <1>14
<1>16. Line(s1, a.emitted)
  <2>1. s1 \o t \in Seq(EventType)
      BY <1>2, Regroup
  <2>2. Line(s1 \o t, a.emitted)
      BY <1>1, <1>15, <2>1, LinePrefix
  <2> QED
      BY <1>1, <1>2, <2>2, LinePrefix
<1> QED
    BY <1>1, <1>2, <1>4, <1>5, <1>9, <1>10, <1>11, <1>12, <1>13, <1>15, <1>16

(* It is taken, and the request goes on.                                   *)
LEMMA MoveStep ==
    ASSUME IndInv, pc = "run", NEW a, NEW e, NEW t, Takes(a, e, t),
           att' = [att EXCEPT ![cur].pending = Tail(@)],
           UNCHANGED <<request, pc, cur, ordinal, started, terminal, cancelled, released, lease,
                       canceller, consumer, failure>>,
           staged' \in Seq(EventType), seen' \in Seq(EventType),
           published' \in BOOLEAN, begun' \in BOOLEAN,
           StageInv', SeenInv', ShownInv', OneStart(staged'),
           e.kind # "started" /\ Lacks(staged, {"started"}) => Lacks(staged', {"started"}),
           e.kind # "started" /\ RecoveryUnavailable /\ Lacks(seen, {"started"}) =>
               Lacks(seen', {"started"}),
           Streaming /\ ~published' =>
               /\ ~published /\ e.kind # "tool_completed"
               /\ e.kind \notin CallEvents /\ Lacks(staged, CallEvents) => Lacks(staged', CallEvents),
           Line(Consumed' \o t \o a.gate.buffered, a.emitted)
    PROVE  IndInv'
<1>0. Types /\ ControlInv
    BY DEF IndInv
<1>1. /\ cur \in Attempts /\ a \in AttemptType /\ a.gate \in GateType
      /\ e \in EventType /\ t \in Seq(EventType)
      /\ a.pending = <<e>> \o t /\ From(t, cur)
      /\ GateInv(a) /\ StartInv(a) /\ QuietInv(a)
      /\ e.kind = "started" =>
            /\ t = <<>> /\ a.began /\ a.gate.buffered = <<>>
    BY HeadIs
<1>2. PICK b : b = [a EXCEPT !.pending = t]
    OBVIOUS
<1>3. /\ b \in AttemptType /\ b.gate = a.gate /\ b.pending = t /\ b.terminal = a.terminal
      /\ b.job = a.job /\ b.began = a.began /\ b.emitted = a.emitted
    BY <1>1, <1>2 DEF AttemptType
<1>4. /\ att' = [att EXCEPT ![cur] = b]
      /\ att' \in [Attempts -> AttemptType] /\ att'[cur] = b
      /\ \A k \in Attempts : att'[k].job = att[k].job
    BY <1>0, <1>1, <1>2, <1>3 DEF Types, Takes
<1>5. Types'
    BY <1>0, <1>4 DEF Types
<1>6. ControlInv'
    BY <1>0, <1>4 DEF ControlInv, Setup, Between
<1>7. \A K : Lacks(a.pending, K) => Lacks(t, K)
    BY <1>1, ConsLacks
<1>8. GateInv(b)'
    BY <1>1, <1>3, <1>7 DEF GateInv
<1>9. /\ RecoveryUnavailable' <=> RecoveryUnavailable
      /\ Streaming' <=> Streaming
    BY DEF RecoveryUnavailable, Streaming
<1>10. StartInv(b)'
  <2>1. CASE e.kind = "started"
    <3>1. Lacks(t, {"started"}) /\ a.began
        BY <1>1, <2>1, EmptyIs
    <3> QED
        BY <1>3, <3>1 DEF StartInv
  <2>2. CASE e.kind # "started"
    <3>2. Lacks(t, {"started"}) <=> Lacks(a.pending, {"started"})
        BY <1>1, <2>2, ConsLacks
    <3>3. Len(a.pending) = 1 => t = <<>>
      <4>1. a.pending \in Seq(EventType)
          BY <1>1 DEF AttemptType
      <4> QED
          BY <4>1, SplitIs DEF Takes
    <3>4. Lacks(t, {"started"})
        BY <1>1, <3>2, <3>3, EmptyIs DEF StartInv
    <3> QED
        BY <1>1, <1>3, <1>9, <2>2, <3>2, <3>4 DEF StartInv
  <2> QED
      BY <2>1, <2>2
<1>11. QuietInv(b)'
  <2>1. SUFFICES ASSUME Streaming, ~published'
                 PROVE  \/ Lacks(staged', CallEvents) /\ Lacks(t, CallEvents)
                        \/ /\ Behind(t, {"text"}, {"tool_completed"})
                           /\ a.gate.life = "OPEN" => a.gate.buffered # <<>>
      BY <1>3, <1>9 DEF QuietInv
  <2>2. CASE Lacks(staged, CallEvents) /\ Lacks(a.pending, CallEvents)
    <3>2. e.kind \notin CallEvents
        BY <1>1, <2>2, ConsLacks
    <3> QED
        BY <1>7, <2>1, <2>2, <3>2
  <2>3. CASE /\ Behind(a.pending, {"text"}, {"tool_completed"})
             /\ a.gate.life = "OPEN" => a.gate.buffered # <<>>
      BY <1>1, <2>1, <2>3, BehindTail
  <2> QED
      BY <1>1, <2>1, <2>2, <2>3 DEF QuietInv
<1>12. RunInv'
    BY <1>3, <1>4, <1>8, <1>10, <1>11 DEF RunInv
<1> QED
    BY <1>5, <1>6, <1>12 DEF IndInv

(* More is shown while the attempt runs.                                   *)
LEMMA SeenGrows ==
    ASSUME IndInv, pc = "run", NEW x \in Seq(EventType), seen' = seen \o x,
           UNCHANGED <<request, pc, cur>>, Committed => Committed',
           Owned(x, cur), Lacks(x, Terminals), Committed \/ Lacks(x, {"tool_completed"}),
           \/ Committed
           \/ Lacks(x, CallEvents)
           \/ ~request.atomic /\ (RecoveryUnavailable \/ ~Lacks(seen, {"text"})),
           OneStart(seen'), Sorted(seen'), Announced(seen')
    PROVE  SeenInv'
<1>0. Types /\ StageInv /\ SeenInv
    BY DEF IndInv
<1>1. seen \in Seq(EventType) /\ Lacks(seen, Terminals)
    BY <1>0 DEF Types, StageInv, Over
<1>2. Owned(seen', cur')
    BY <1>0, <1>1, ConcatAll DEF SeenInv
<1>3. Committed' \/ Lacks(seen', {"tool_completed"})
    BY <1>0, <1>1, ConcatAll DEF SeenInv
<1>4. Lacks(seen', {"failed", "cancelled"})
  <2>1. Lacks(seen \o x, Terminals)
      BY <1>1, ConcatAll
  <2> QED
      BY <2>1 DEF Lacks, Terminals
<1>5. \/ Committed'
      \/ Lacks(seen', CallEvents)
      \/ ~request'.atomic /\ (RecoveryUnavailable' \/ Behind(seen', CallEvents, {"text"}))
  <2>1. RecoveryUnavailable' <=> RecoveryUnavailable
      BY DEF RecoveryUnavailable
  <2>2. Lacks(seen, CallEvents) /\ Lacks(x, CallEvents) => Lacks(seen', CallEvents)
      BY <1>1, ConcatAll
  <2>3. Behind(seen, CallEvents, {"text"}) /\ Lacks(x, CallEvents) =>
            Behind(seen', CallEvents, {"text"})
      BY <1>1, ConcatBehind
  <2>4. Behind(seen, CallEvents, {"text"}) /\ ~Lacks(seen, {"text"}) =>
            Behind(seen', CallEvents, {"text"})
      BY <1>1, ConcatBehind
  <2>5. Lacks(seen, CallEvents) => Behind(seen, CallEvents, {"text"})
      BY LacksLess
  <2> QED
      BY <1>0, <2>1, <2>2, <2>3, <2>4, <2>5 DEF SeenInv
<1> QED
    BY <1>0, <1>2, <1>3, <1>4, <1>5 DEF SeenInv

(* An attempt stays committed.                                             *)
LEMMA CommittedStays ==
    ASSUME IndInv, pc = "run", att' = [att EXCEPT ![cur].pending = Tail(@)], UNCHANGED cur
    PROVE  Committed' <=> Committed
<1>1. cur \in Attempts /\ att \in [Attempts -> AttemptType]
    BY RunParts DEF IndInv, Types
<1>2. att'[cur].gate = att[cur].gate
    BY <1>1 DEF AttemptType
<1> QED
    BY <1>2 DEF Committed

(* The event is passed on: recovery is not available, or something public  *)
(* was published before.                                                   *)
LEMMA PassStep ==
    ASSUME IndInv, pc = "run", NEW a, NEW e, NEW t, Takes(a, e, t), e.kind \notin Terminals,
           att' = [att EXCEPT ![cur].pending = Tail(@)],
           UNCHANGED <<request, pc, cur, ordinal, started, terminal, cancelled, released, lease,
                       canceller, consumer, failure, staged, published, begun>>,
           seen' = Append(seen, e),
           \/ RecoveryUnavailable
           \/ Streaming /\ published /\ e.kind \in CallEvents \cup {"usage"}
    PROVE  IndInv'
<1>0. Types /\ StageInv /\ SeenInv
    BY DEF IndInv
<1>1. /\ cur \in Attempts /\ a.gate \in GateType /\ a.gate.buffered \in Seq(EventType)
      /\ a.emitted \in Nat
      /\ e \in EventType /\ t \in Seq(EventType)
      /\ e.att = cur /\ GateInv(a) /\ ShownInv
      /\ ~Committed => e.kind \notin {"completed", "tool_completed"}
      /\ ~Committed /\ request.atomic => e.kind \notin CallEvents
      /\ e.kind = "started" => (RecoveryUnavailable => Lacks(seen, {"started"}))
      /\ Line((Consumed \o <<e>>) \o t \o a.gate.buffered, a.emitted)
      /\ Line(Consumed \o <<e>>, a.emitted)
      /\ OneStart(staged)
    BY HeadIs DEF StartInv
<1>2. Consumed = seen /\ Consumed' = seen' /\ seen \in Seq(EventType)
    BY <1>0 DEF Consumed, RecoveryUnavailable, Types
<1>3. PICK x \in Seq(EventType) : x = <<e>>
    BY <1>1, SingleIs
<1>4. seen' = seen \o x /\ seen' \in Seq(EventType)
    BY <1>1, <1>2, <1>3, AppendIsConcat, AppendProperties
<1>5. /\ Owned(x, cur) /\ Lacks(x, Terminals)
      /\ \A K : e.kind \notin K => Lacks(x, K)
    BY <1>1, <1>3, SingleIs, OwnedIs
<1>6. Committed' <=> Committed
    BY CommittedStays
<1>7. Line(seen', a.emitted)
    BY <1>1, <1>2, <1>3, <1>4
<1>8. OneStart(seen')
  <2>1. OneStart(x) /\ OneStart(seen)
      BY <1>0, <1>1, <1>3, SingleIs DEF SeenInv
  <2>2. CASE e.kind # "started"
      BY <1>2, <1>4, <1>5, <2>1, <2>2, ConcatOneStart
  <2>3. CASE e.kind = "started"
    <3>1. RecoveryUnavailable
        BY <2>3 DEF CallEvents
    <3> QED
        BY <1>1, <1>2, <1>4, <2>1, <2>3, <3>1, ConcatOneStart
  <2> QED
      BY <2>2, <2>3
<1>9. SeenInv'
  <2>1. Committed \/ Lacks(x, {"tool_completed"})
      BY <1>1, <1>5
  <2>2. \/ Committed
        \/ Lacks(x, CallEvents)
        \/ ~request.atomic /\ (RecoveryUnavailable \/ ~Lacks(seen, {"text"}))
      BY <1>1, <1>5 DEF ShownInv
  <2> QED
      BY <1>4, <1>5, <1>6, <1>7, <1>8, <2>1, <2>2, SeenGrows DEF Line
<1>10. /\ RecoveryUnavailable' <=> RecoveryUnavailable
       /\ Streaming' <=> Streaming
       /\ Buffering' <=> Buffering
       /\ ~Buffering /\ ~(RecoveryUnavailable /\ Streaming)
    BY <1>0, ModeIs DEF RecoveryUnavailable, Streaming, Buffering
<1>11. StageInv'
  <2>1. Lacks(seen', Terminals)
      BY <1>0, <1>2, <1>4, <1>5, ConcatLacks DEF StageInv, Over
  <2>2. Streaming /\ ~begun => Lacks(seen', {"started"})
    <3>1. ASSUME Streaming, ~begun PROVE Lacks(seen', {"started"})
      <4>1. e.kind # "started" /\ Lacks(seen, {"started"})
          BY <1>0, <1>10, <3>1 DEF StageInv, CallEvents, Over
      <4>2. Lacks(x, {"started"})
          BY <1>5, <4>1
      <4> QED
          BY <1>2, <1>4, <4>1, <4>2, ConcatLacks
    <3> QED
        BY <3>1
  <2> QED
      BY <1>0, <1>10, <2>1, <2>2 DEF StageInv, Over
<1>12. ShownInv'
  <2>1. ~Lacks(seen, {"text"}) => ~Lacks(seen', {"text"})
      BY <1>2, <1>4, ConcatLacks
  <2> QED
      BY <1>1, <1>6, <2>1 DEF ShownInv
<1>13. Line(Consumed' \o t \o a.gate.buffered, a.emitted)
    BY <1>1, <1>2, <1>3, <1>4
<1>14. e.kind # "started" /\ Lacks(seen, {"started"}) => Lacks(seen', {"started"})
  <2>1. e.kind # "started" => Lacks(x, {"started"})
      BY <1>5
  <2> QED
      BY <1>2, <1>4, <2>1, ConcatLacks
<1>15. staged' \in Seq(EventType) /\ published' \in BOOLEAN /\ begun' \in BOOLEAN
       /\ OneStart(staged') /\ ~(Streaming /\ ~published')
    BY <1>0, <1>1, <1>10 DEF Types
<1> QED
    BY <1>4, <1>9, <1>11, <1>12, <1>13, <1>14, <1>15, MoveStep

(* The event is held back: the attempt is buffered, or nothing public was  *)
(* published yet and it is of a call that is not complete or a usage       *)
(* record.                                                                 *)
LEMMA HoldStep ==
    ASSUME IndInv, pc = "run", NEW a, NEW e, NEW t, Takes(a, e, t), e.kind \notin Terminals,
           att' = [att EXCEPT ![cur].pending = Tail(@)],
           UNCHANGED <<request, pc, cur, ordinal, started, terminal, cancelled, released, lease,
                       canceller, consumer, failure, seen, published, begun>>,
           staged' = Append(staged, e),
           \/ Buffering
           \/ Streaming /\ ~published /\ e.kind \in CallEvents \cup {"usage"}
    PROVE  IndInv'
<1>0. Types /\ StageInv /\ SeenInv
    BY DEF IndInv
<1>1. /\ cur \in Attempts /\ a.gate \in GateType /\ a.gate.buffered \in Seq(EventType)
      /\ a.emitted \in Nat
      /\ e \in EventType /\ t \in Seq(EventType)
      /\ e.att = cur /\ GateInv(a) /\ ShownInv
      /\ ~Committed => e.kind \notin {"completed", "tool_completed"}
      /\ ~Committed /\ request.atomic => e.kind \notin CallEvents
      /\ e.kind = "started" => Lacks(staged, {"started"})
      /\ Line((Consumed \o <<e>>) \o t \o a.gate.buffered, a.emitted)
      /\ OneStart(staged)
    BY HeadIs DEF StartInv
<1>2. /\ RecoveryUnavailable' <=> RecoveryUnavailable
      /\ Streaming' <=> Streaming
      /\ Buffering' <=> Buffering
      /\ ~RecoveryUnavailable /\ ~published
    BY <1>0, ModeIs DEF RecoveryUnavailable, Streaming, Buffering, StageInv
<1>3. Consumed = staged /\ Consumed' = staged' /\ staged \in Seq(EventType)
    BY <1>0, <1>2 DEF Consumed, Types
<1>4. PICK x \in Seq(EventType) : x = <<e>>
    BY <1>1, SingleIs
<1>5. staged' = staged \o x /\ staged' \in Seq(EventType)
    BY <1>1, <1>3, <1>4, AppendIsConcat, AppendProperties
<1>6. /\ From(x, cur) /\ OneStart(x)
      /\ \A K : e.kind \notin K => Lacks(x, K)
      /\ \A K : e.kind \in K => Only(x, K)
    BY <1>1, <1>4, SingleIs
<1>7. Committed' <=> Committed
    BY CommittedStays
<1>8. OneStart(staged')
  <2>1. CASE e.kind # "started"
      BY <1>1, <1>3, <1>5, <1>6, <2>1, ConcatOneStart
  <2>2. CASE e.kind = "started"
      BY <1>1, <1>3, <1>5, <1>6, <2>2, ConcatOneStart
  <2> QED
      BY <2>1, <2>2
<1>9. SeenInv'
    BY <1>0, <1>2, <1>7 DEF SeenInv
<1>10. \A K : Lacks(staged, K) /\ e.kind \notin K => Lacks(staged', K)
    BY <1>3, <1>5, <1>6, ConcatLacks
<1>11. StageInv'
  <2>1. Lacks(staged', Terminals)
      BY <1>0, <1>10 DEF StageInv
  <2>2. Streaming => Only(staged', CallEvents \cup {"usage"})
    <3>1. ASSUME Streaming PROVE Only(staged \o x, CallEvents \cup {"usage"})
      <4>1. Only(staged, CallEvents \cup {"usage"}) /\ Only(x, CallEvents \cup {"usage"})
          BY <1>0, <1>6, <3>1, ModeIs DEF StageInv
      <4> QED
          BY <1>3, <4>1, ConcatAll
    <3> QED
        BY <1>5, <3>1
  <2> QED
      BY <1>0, <1>2, <2>1, <2>2 DEF StageInv
<1>12. ShownInv'
  <2>1. From(staged', cur')
      BY <1>1, <1>3, <1>5, <1>6, ConcatFrom DEF ShownInv
  <2>2. Committed \/ Lacks(staged', {"tool_completed"})
      BY <1>1, <1>10 DEF ShownInv
  <2>3. Committed \/ ~request.atomic \/ Lacks(staged', CallEvents)
      BY <1>1, <1>10 DEF ShownInv
  <2> QED
      BY <1>2, <1>7, <2>1, <2>2, <2>3 DEF ShownInv
<1>13. Line(Consumed' \o t \o a.gate.buffered, a.emitted)
    BY <1>1, <1>3, <1>4, <1>5
<1>14. e.kind # "started" /\ Lacks(staged, {"started"}) => Lacks(staged', {"started"})
    BY <1>10
<1>15. Streaming /\ ~published' =>
          /\ ~published /\ e.kind # "tool_completed"
          /\ e.kind \notin CallEvents /\ Lacks(staged, CallEvents) => Lacks(staged', CallEvents)
    BY <1>0, <1>2, <1>10, ModeIs DEF CallEvents
<1>16. seen' \in Seq(EventType) /\ published' \in BOOLEAN /\ begun' \in BOOLEAN
    BY <1>0 DEF Types
<1> QED
    BY <1>2, <1>5, <1>8, <1>9, <1>11, <1>12, <1>13, <1>14, <1>15, <1>16, MoveStep

(* The start of the attempt is shown unless one was shown before.          *)
LEMMA StartShownStep ==
    ASSUME IndInv, pc = "run", NEW a, NEW e, NEW t, Takes(a, e, t), e.kind = "started",
           att' = [att EXCEPT ![cur].pending = Tail(@)],
           UNCHANGED <<request, pc, cur, ordinal, started, terminal, cancelled, released, lease,
                       canceller, consumer, failure, staged, published>>,
           Streaming, begun' = TRUE, seen' = WithStart(e)
    PROVE  IndInv'
<1>0. Types /\ StageInv /\ SeenInv
    BY DEF IndInv
<1>1. /\ cur \in Attempts /\ a.gate.buffered = <<>> /\ a.emitted \in Nat
      /\ e \in EventType /\ t = <<>> /\ e.att = cur /\ ShownInv
      /\ Line(Consumed \o <<e>>, a.emitted)
      /\ OneStart(staged) /\ Consumed \in Seq(EventType)
    BY HeadIs DEF StartInv
<1>2. /\ RecoveryUnavailable' <=> RecoveryUnavailable
      /\ Streaming' <=> Streaming
      /\ Buffering' <=> Buffering
      /\ ~RecoveryUnavailable /\ ~Buffering
    BY <1>0, ModeIs DEF RecoveryUnavailable, Streaming, Buffering
<1>3. PICK x \in Seq(EventType) : x = <<e>>
    BY <1>1, SingleIs
<1>4. seen \in Seq(EventType) /\ staged \in Seq(EventType)
    BY <1>0 DEF Types
<1>5. \/ begun /\ seen' = seen
      \/ ~begun /\ seen' = seen \o x
    BY <1>0, <1>1, <1>3, <1>4, AppendIsConcat DEF WithStart, Types
<1>6. /\ Owned(x, cur) /\ OneStart(x) /\ Only(x, {"started"})
      /\ Lacks(x, Terminals) /\ Lacks(x, {"tool_completed"}) /\ Lacks(x, CallEvents)
      /\ Lacks(x, Output)
  <2>1. e.kind \notin Terminals /\ e.kind \notin {"tool_completed"} /\ e.kind \notin CallEvents
        /\ e.kind \notin Output
      BY DEF Terminals, CallEvents, Output
  <2> QED
      BY <1>1, <1>3, <2>1, SingleIs, OwnedIs
<1>7. Committed' <=> Committed
    BY CommittedStays
<1>8. seen' \in Seq(EventType)
    BY <1>4, <1>5, JoinIs
<1>9. SeenInv'
  <2>1. CASE seen' = seen
      BY <1>0, <1>2, <1>7, <2>1 DEF SeenInv
  <2>2. CASE ~begun /\ seen' = seen \o x
    <3>1. Lacks(seen, {"started"})
        BY <1>0, <2>2 DEF StageInv, Over
    <3>2. OneStart(seen') /\ Sorted(seen') /\ Announced(seen')
        BY <1>0, <1>4, <1>6, <2>2, <3>1, ConcatOneStart, OrderKept DEF SeenInv
    <3> QED
        BY <1>6, <1>7, <2>2, <3>2, SeenGrows
  <2> QED
      BY <1>5, <2>1, <2>2
<1>10. \A K : Lacks(seen, K) /\ Lacks(x, K) => Lacks(seen', K)
    BY <1>4, <1>5, ConcatLacks, ZenonT(60)
<1>11. StageInv'
  <2>1. Lacks(seen', Terminals)
      BY <1>0, <1>6, <1>10 DEF StageInv, Over
  <2>2. ~published => Only(seen', {"started"})
    <3>1. ASSUME ~published PROVE Only(seen', {"started"})
      <4>1. Only(seen, {"started"})
          BY <1>0, <3>1 DEF StageInv, Over
      <4>2. Only(seen \o x, {"started"})
          BY <1>4, <1>6, <4>1, ConcatAll
      <4> QED
          BY <1>5, <4>1, <4>2
    <3> QED
        BY <3>1
  <2> QED
      BY <1>0, <1>2, <2>1, <2>2 DEF StageInv
<1>12. ShownInv'
  <2>1. ~Lacks(seen, {"text"}) => ~Lacks(seen', {"text"})
      BY <1>4, <1>5, ConcatLacks
  <2> QED
      BY <1>1, <1>7, <2>1 DEF ShownInv
<1>13. Line(Consumed' \o t \o a.gate.buffered, a.emitted)
  <2>1. Line(Consumed, a.emitted)
      BY <1>1, <1>3, LinePrefix
  <2>2. Line(Consumed', a.emitted)
    <3>1. CASE published
        BY <1>1, <1>2, <1>3, <1>5, <2>1, <3>1 DEF Consumed
    <3>2. CASE ~published
        BY <1>2, <2>1, <3>2 DEF Consumed
    <3> QED
        BY <3>1, <3>2
  <2>3. Consumed' \in Seq(EventType)
      BY <1>4, <1>8 DEF Consumed
  <2> QED
      BY <1>1, <2>2, <2>3, ConcatEmptySeq
<1>14. /\ staged' \in Seq(EventType) /\ published' \in BOOLEAN /\ begun' \in BOOLEAN
       /\ OneStart(staged')
       /\ Streaming /\ ~published' =>
             /\ ~published /\ e.kind # "tool_completed"
             /\ e.kind \notin CallEvents /\ Lacks(staged, CallEvents) => Lacks(staged', CallEvents)
    BY <1>0, <1>1, <1>4 DEF Types
<1> QED
    BY <1>2, <1>8, <1>9, <1>11, <1>12, <1>13, <1>14, MoveStep

(* Something public is shown, with what may be shown before it.            *)
LEMMA ShowStep ==
    ASSUME IndInv, pc = "run", NEW a, NEW e, NEW t, Takes(a, e, t), e.kind # "started",
           att' = [att EXCEPT ![cur].pending = Tail(@)],
           UNCHANGED <<request, pc, cur, ordinal, started, terminal, cancelled, released, lease,
                       canceller, consumer, failure, begun>>,
           Streaming, published' = TRUE, staged' = <<>>,
           NEW x \in Seq(EventType), seen' = seen \o x,
           Owned(x, cur), Lacks(x, Terminals), Lacks(x, {"started"}),
           Committed \/ Lacks(x, {"tool_completed"}), Committed \/ Lacks(x, CallEvents),
           Committed \/ ~Lacks(x, {"text"}),
           Line((seen \o x) \o t \o a.gate.buffered, a.emitted)
    PROVE  IndInv'
<1>0. Types /\ StageInv /\ SeenInv
    BY DEF IndInv
<1>1. /\ cur \in Attempts /\ a.gate.buffered \in Seq(EventType) /\ a.emitted \in Nat
      /\ e \in EventType /\ t \in Seq(EventType)
    BY HeadIs
<1>2. /\ RecoveryUnavailable' <=> RecoveryUnavailable
      /\ Streaming' <=> Streaming
      /\ Buffering' <=> Buffering
      /\ ~RecoveryUnavailable /\ ~Buffering
    BY <1>0, ModeIs DEF RecoveryUnavailable, Streaming, Buffering
<1>3. seen \in Seq(EventType) /\ seen' \in Seq(EventType)
    BY <1>0, Regroup DEF Types
<1>4. Line(seen', a.emitted)
  <2>1. seen' \o t \in Seq(EventType)
      BY <1>1, <1>3, Regroup
  <2>2. Line(seen' \o t, a.emitted)
      BY <1>1, <2>1, LinePrefix
  <2> QED
      BY <1>1, <1>3, <2>2, LinePrefix
<1>5. Committed' <=> Committed
    BY CommittedStays
<1>6. OneStart(seen')
  <2>1. OneStart(x)
      BY DEF OneStart, Lacks
  <2> QED
      BY <1>0, <1>3, <2>1, ConcatOneStart DEF SeenInv
<1>7. SeenInv'
    BY <1>4, <1>5, <1>6, SeenGrows DEF Line
<1>8. \A K : Lacks(seen', K) <=> Lacks(seen, K) /\ Lacks(x, K)
    BY <1>3, ConcatLacks
<1>9. StageInv'
  <2>1. Lacks(seen', Terminals)
      BY <1>0, <1>8 DEF StageInv, Over
  <2>2. ~begun => Lacks(seen', {"started"})
      BY <1>0, <1>8 DEF StageInv, Over
  <2> QED
      BY <1>2, <2>1, <2>2, EmptyIs DEF StageInv
<1>10. ShownInv'
    BY <1>5, <1>8, EmptyIs DEF ShownInv
<1>11. Line(Consumed' \o t \o a.gate.buffered, a.emitted)
    BY DEF Consumed
<1>12. /\ staged' \in Seq(EventType) /\ published' \in BOOLEAN /\ begun' \in BOOLEAN
       /\ OneStart(staged') /\ Lacks(staged', {"started"})
    BY <1>0, EmptyIs DEF Types
<1> QED
    BY <1>2, <1>3, <1>7, <1>9, <1>10, <1>11, <1>12, MoveStep

(* Events that carry no output are shown in front of the line, or in place *)
(* of others that carry none.                                              *)
LEMMA LineShown ==
    ASSUME NEW s \in Seq(EventType), NEW g \in Seq(EventType), NEW d \in Seq(EventType),
           NEW y \in Seq(EventType), NEW t \in Seq(EventType), NEW b \in Seq(EventType),
           NEW n \in Nat, Lacks(s, Output), Line((g \o y) \o t \o b, n)
    PROVE  /\ Line((s \o (g \o y)) \o t \o b, n)
           /\ Lacks(g, Output) /\ Lacks(d, Output) => Line((s \o (d \o y)) \o t \o b, n)
<1>1. PICK w \in Seq(EventType) : w = t \o b
    BY JoinIs
<1>4. PICK v \in Seq(EventType) : v = y \o w
    BY JoinIs
<1>5. ASSUME NEW p \in Seq(EventType)
      PROVE  /\ ((p \o y) \o t) \o b = p \o v
             /\ ((s \o (p \o y)) \o t) \o b = s \o (p \o v)
             /\ p \o v \in Seq(EventType)
  <2>1. PICK z \in Seq(EventType) : z = p \o y
      BY JoinIs
  <2>2. PICK z1 \in Seq(EventType) : z1 = s \o z
      BY JoinIs
  <2>r. /\ Regroups(z, t, b) /\ Regroups(z1, t, b) /\ Regroups(p, y, w) /\ Regroups(s, z, w)
      BY RegroupsIs
  <2>3. (z \o t) \o b = z \o w /\ (z1 \o t) \o b = z1 \o w
      BY <1>1, <2>r DEF Regroups
  <2>4. z \o w = p \o v
      BY <1>4, <2>1, <2>r DEF Regroups
  <2>5. z1 \o w = s \o (z \o w)
      BY <2>2, <2>r DEF Regroups
  <2>6. p \o v \in Seq(EventType)
      BY JoinIs
  <2> QED
      BY <2>1, <2>2, <2>3, <2>4, <2>5, <2>6
<1>6. PICK gv \in Seq(EventType) : gv = g \o v
    BY JoinIs
<1>7. PICK dv \in Seq(EventType) : dv = d \o v
    BY JoinIs
<1>8. Line(gv, n)
    BY <1>5, <1>6
<1>9. Line(s \o gv, n)
    BY <1>8, LineSkips
<1>10. ASSUME Lacks(g, Output), Lacks(d, Output)
       PROVE  Line(s \o dv, n)
  <2>1. Line(v, n)
      BY <1>6, <1>8, <1>10, LineSkips
  <2>2. Line(dv, n)
      BY <1>7, <1>10, <2>1, LineSkips
  <2> QED
      BY <2>2, LineSkips
<1> QED
    BY <1>5, <1>6, <1>7, <1>9, <1>10

(* A public event is shown: text behind the usage records that were        *)
(* staged, the completion of a call behind the whole of its batch.         *)
LEMMA PublicStep ==
    ASSUME IndInv, pc = "run", NEW a, NEW e, NEW t, Takes(a, e, t), IsPublic(e),
           att' = [att EXCEPT ![cur].pending = Tail(@)],
           UNCHANGED <<request, pc, cur, ordinal, started, terminal, cancelled, released, lease,
                       canceller, consumer, failure, begun>>,
           Streaming, published' = TRUE, staged' = <<>>,
           seen' = seen \o Drain(staged, e.kind = "tool_completed") \o <<e>>
    PROVE  IndInv'
<1>0. Types /\ StageInv /\ SeenInv
    BY DEF IndInv
<1>1. /\ cur \in Attempts /\ a.gate.buffered \in Seq(EventType) /\ a.emitted \in Nat
      /\ e \in EventType /\ t \in Seq(EventType) /\ e.att = cur
      /\ a.pending = <<e>> \o t
      /\ QuietInv(a) /\ ShownInv
      /\ ~Committed => e.kind \notin {"completed", "tool_completed"}
      /\ Line((Consumed \o <<e>>) \o t \o a.gate.buffered, a.emitted)
    BY HeadIs
<1>2. seen \in Seq(EventType) /\ staged \in Seq(EventType) /\ ~RecoveryUnavailable
    BY <1>0 DEF Types, Streaming
<1>3. PICK b \in Seq(EventType) : b = a.gate.buffered
    BY <1>1
<1>4. PICK y \in Seq(EventType) : y = <<e>>
    BY <1>1, SingleIs
<1>5. e.kind \in {"text", "tool_completed"}
    BY DEF IsPublic
<1>6. /\ Owned(y, cur) /\ Lacks(y, Terminals) /\ Lacks(y, {"started"}) /\ Lacks(y, CallEvents)
      /\ e.kind = "text" => Lacks(y, {"tool_completed"}) /\ ~Lacks(y, {"text"})
  <2>1. e.kind \notin Terminals /\ e.kind \notin {"started"} /\ e.kind \notin CallEvents
      BY <1>5 DEF Terminals, CallEvents
  <2> QED
      BY <1>1, <1>4, <2>1, SingleIs, OwnedIs
<1>7. ASSUME NEW d \in Seq(EventType), d = Drain(staged, e.kind = "tool_completed"),
             Owned(d, cur), Lacks(d, Terminals), Lacks(d, {"started"}),
             \/ e.kind = "tool_completed"
             \/ Lacks(d, {"tool_completed"}) /\ Lacks(d, CallEvents),
             Line((seen \o (d \o y)) \o t \o b, a.emitted)
      PROVE  IndInv'
  <2>1. PICK x \in Seq(EventType) : x = d \o y
      BY Regroup
  <2>2. seen' = seen \o x
      BY <1>2, <1>4, <1>7, <2>1, Regroup, SMTT(60)
  <2>3. Owned(x, cur)
      BY <1>6, <1>7, <2>1, ConcatAll
  <2>4. \A K : Lacks(x, K) <=> Lacks(d, K) /\ Lacks(y, K)
      BY <2>1, ConcatLacks
  <2>5. Lacks(x, Terminals) /\ Lacks(x, {"started"})
      BY <1>6, <1>7, <2>4
  <2>6. /\ Committed \/ Lacks(x, {"tool_completed"})
        /\ Committed \/ Lacks(x, CallEvents)
        /\ Committed \/ ~Lacks(x, {"text"})
      BY <1>1, <1>5, <1>6, <1>7, <2>4
  <2>7. Line((seen \o x) \o t \o a.gate.buffered, a.emitted)
      BY <1>3, <1>7, <2>1
  <2> QED
      BY <1>5, <2>2, <2>3, <2>5, <2>6, <2>7, ShowStep
<1>8. CASE published
  <2>1. staged = <<>> /\ Consumed = seen
      BY <1>0, <1>8 DEF StageInv, Consumed
  <2>2. Drain(staged, e.kind = "tool_completed") = <<>>
      BY <2>1, DrainEmpty DEF Drain
  <2>3. PICK d \in Seq(EventType) : d = <<>>
      BY EmptyIs
  <2>4. d \o y = y
      BY <2>3, Regroup
  <2>5. Owned(d, cur) /\ \A K : Lacks(d, K)
      BY <2>3, EmptyIs, OwnedIs
  <2>6. Line((seen \o (d \o y)) \o t \o b, a.emitted)
      BY <1>1, <1>3, <1>4, <2>1, <2>4
  <2> QED
      BY <1>7, <2>2, <2>3, <2>5, <2>6
<1>9. CASE ~published
  <2>1. /\ Consumed = staged /\ Only(seen, {"started"})
        /\ Only(staged, CallEvents \cup {"usage"}) /\ Lacks(staged, Terminals)
      BY <1>0, <1>2, <1>9 DEF StageInv, Consumed, Over
  <2>2. Lacks(seen, Output) /\ Lacks(staged, {"started"})
    <3>1. {"started"} \cap Output = {} /\ (CallEvents \cup {"usage"}) \cap {"started"} = {}
        BY DEF Output, CallEvents
    <3> QED
        BY <2>1, <3>1, LacksLess
  <2>3. Line((staged \o y) \o t \o b, a.emitted)
      BY <1>1, <1>3, <1>4, <2>1
  <2>6. CASE e.kind = "tool_completed"
    <3>1. Drain(staged, e.kind = "tool_completed") = staged
        BY <2>6 DEF Drain
    <3>2. Line((seen \o (staged \o y)) \o t \o b, a.emitted)
        BY <1>1, <1>2, <2>2, <2>3, LineShown
    <3>3. Owned(staged, cur)
        BY <1>1, OwnedIs DEF ShownInv
    <3> QED
        BY <1>2, <1>7, <2>1, <2>2, <2>6, <3>1, <3>2, <3>3
  <2>7. CASE e.kind = "text"
    <3>1. PICK d \in Seq(EventType) : d = WithoutStagedTools(staged)
        BY <1>2, <2>1, DrainIs
    <3>2. d = Drain(staged, e.kind = "tool_completed") /\ Only(d, {"usage"})
        BY <1>2, <2>1, <2>7, <3>1, DrainIs DEF Drain
    <3>3. Lacks(staged, CallEvents)
      <4>1. ~Behind(a.pending, {"text"}, {"tool_completed"})
        <5>1. ASSUME Behind(<<e>> \o t, {"text"}, {"tool_completed"}) PROVE FALSE
          <6>1. e.kind \notin {"text"}
              BY <1>1, <5>1, BehindHead
          <6> QED
              BY <2>7, <6>1
        <5> QED
            BY <1>1, <5>1
      <4> QED
          BY <1>1, <1>9, <4>1 DEF QuietInv
    <3>4. Lacks(staged, Output)
        BY <2>1, <3>3 DEF Lacks, Only, Output
    <3>5. /\ Lacks(d, Output) /\ Lacks(d, Terminals) /\ Lacks(d, {"started"})
          /\ Lacks(d, {"tool_completed"}) /\ Lacks(d, CallEvents)
          /\ Lacks(d, Output \cup {"completed"})
      <4>1. /\ {"usage"} \cap Output = {} /\ {"usage"} \cap Terminals = {}
            /\ {"usage"} \cap {"started"} = {} /\ {"usage"} \cap {"tool_completed"} = {}
            /\ {"usage"} \cap CallEvents = {} /\ {"usage"} \cap (Output \cup {"completed"}) = {}
          BY DEF Output, CallEvents, Terminals
      <4> QED
          BY <3>2, <4>1, LacksLess
    <3>6. Line((seen \o (d \o y)) \o t \o b, a.emitted)
      <4>1. PICK st \in Seq(EventType) : st = staged
          BY <1>2
      <4>2. PICK sn \in Seq(EventType) : sn = seen
          BY <1>2
      <4>3. Lacks(sn, Output) /\ Lacks(st, Output) /\ Line((st \o y) \o t \o b, a.emitted)
          BY <2>2, <2>3, <3>4, <4>1, <4>2
      <4>4. Line((sn \o (d \o y)) \o t \o b, a.emitted)
          BY <1>1, <3>5, <4>3, LineShown
      <4> QED
          BY <4>2, <4>4
    <3> QED
        BY <1>7, <3>2, <3>5, <3>6, OwnedIs
  <2> QED
      BY <1>5, <2>6, <2>7
<1> QED
    BY <1>8, <1>9

(* What taking an event leaves of the attempts.                            *)
LEMMA TakenIs ==
    ASSUME IndInv, pc = "run", NEW a, NEW e, NEW t, Takes(a, e, t),
           att' = [att EXCEPT ![cur].pending = Tail(@)], UNCHANGED cur
    PROVE  /\ att' \in [Attempts -> AttemptType]
           /\ \A k \in Attempts : att'[k].job = att[k].job \/ att'[k].job # "running"
           /\ Committed' <=> Committed
           /\ e.kind \in {"failed", "cancelled"} => ~Committed /\ Lacks(seen, {"tool_completed"})
<1>0. att \in [Attempts -> AttemptType] /\ SeenInv
    BY DEF IndInv, Types
<1>1. /\ cur \in Attempts /\ a \in AttemptType /\ t \in Seq(EventType)
      /\ Committed => e.kind \notin {"failed", "cancelled"}
    BY HeadIs
<1>2. PICK b : b = [a EXCEPT !.pending = t]
    OBVIOUS
<1>3. b \in AttemptType /\ b.job = a.job
    BY <1>1, <1>2 DEF AttemptType
<1>4. att' = [att EXCEPT ![cur] = b] /\ a = att[cur]
    BY <1>0, <1>1, <1>2 DEF Takes
<1>5. /\ att' \in [Attempts -> AttemptType]
      /\ \A k \in Attempts : att'[k].job = att[k].job
    BY <1>0, <1>1, <1>3, <1>4
<1>6. Committed' <=> Committed
    BY CommittedStays
<1> QED
    BY <1>0, <1>1, <1>5, <1>6 DEF SeenInv

(* The attempt ends the request, behind the usage records that are drained *)
(* or none.                                                                *)
LEMMA EndsStep ==
    ASSUME IndInv, pc = "run", NEW a, NEW e, NEW t, Takes(a, e, t),
           att' = [att EXCEPT ![cur].pending = Tail(@)],
           UNCHANGED <<request, cur, ordinal, started, terminal, cancelled, released, lease,
                       canceller, consumer, published, begun>>,
           failure' \in Failures \cup {"none"},
           NEW u \in EventType, u.kind \in Terminals, u.att = cur,
           u.kind = "completed" \/ Lacks(seen, {"tool_completed"}),
           \/ YieldsTerminal(<<u>>)
           \/ ~RecoveryUnavailable /\ YieldsTerminal(DrainAtEnd \o <<u>>)
    PROVE  IndInv'
<1>0. Types /\ ControlInv /\ StageInv
    BY DEF IndInv
<1>1. ordinal' \in 1..2 /\ started' \in 0..MaxObjects /\ started' <= 2
    BY <1>0 DEF Types, ControlInv
<1>2. /\ att' \in [Attempts -> AttemptType]
      /\ \A k \in Attempts : att'[k].job = att[k].job \/ att'[k].job # "running"
      /\ Committed' <=> Committed
    BY TakenIs
<1>3. CASE YieldsTerminal(<<u>>)
  <2>1. PICK o \in Seq(EventType) : o = <<>>
      BY EmptyIs
  <2>2. Only(o, {"usage"})
      BY <2>1, EmptyIs
  <2>3. o \o <<u>> = <<u>>
      BY <2>1, SingleIs, Regroup
  <2>4. YieldsTerminal(o \o <<u>>)
      BY <1>3, <2>3
  <2> QED
      BY <1>1, <1>2, <2>2, <2>4, YieldStep
<1>4. CASE ~RecoveryUnavailable /\ YieldsTerminal(DrainAtEnd \o <<u>>)
  <2>1. DrainAtEnd \in Seq(EventType) /\ Only(DrainAtEnd, {"usage"})
      BY <1>0, <1>4, DrainAtEndIs
  <2>2. PICK o \in Seq(EventType) : o = DrainAtEnd
      BY <2>1
  <2>3. YieldsTerminal(o \o <<u>>)
      BY <1>4, <2>2
  <2> QED
      BY <1>1, <1>2, <2>1, <2>2, <2>3, YieldStep
<1> QED
    BY <1>3, <1>4

(* A failed attempt: the request ends, or waits, or starts another one.    *)
LEMMA RetryStep ==
    ASSUME IndInv, pc = "run", NEW a, NEW e, NEW t, Takes(a, e, t), e.kind = "failed",
           ~RecoveryUnavailable,
           att' = [att EXCEPT ![cur].pending = Tail(@)],
           UNCHANGED <<request, cur, ordinal, started, terminal, cancelled, released, lease,
                       canceller, consumer>>,
           NEW f \in Failures \cup {"none"}, RetryOrFail(e, f)
    PROVE  IndInv'
<1>0. Types /\ ControlInv /\ StageInv /\ SeenInv
    BY DEF IndInv
<1>1. cur \in Attempts /\ e \in EventType /\ e.att = cur
    BY HeadIs
<1>2. /\ att' \in [Attempts -> AttemptType]
      /\ \A k \in Attempts : att'[k].job = att[k].job \/ att'[k].job # "running"
      /\ Committed' <=> Committed
      /\ Lacks(seen, {"tool_completed"})
    BY TakenIs
<1>3. failure' \in Failures \cup {"none"} /\ UNCHANGED <<published, begun>>
    BY DEF RetryOrFail
<1>4. CASE YieldsTerminal(DrainAtEnd \o <<e>>)
  <2>1. e.kind \in Terminals
      BY DEF Terminals
  <2> QED
      BY <1>1, <1>2, <1>3, <1>4, <2>1, EndsStep
<1>5. CASE YieldsTerminal(DrainAtEnd \o <<Plain("cancelled", cur)>>)
  <2>1. PICK u : u = Plain("cancelled", cur)
      OBVIOUS
  <2>2. u \in EventType /\ u.kind = "cancelled" /\ u.att = cur
      BY <1>0, <1>1, <2>1, EventIs DEF Kinds, Terminals
  <2>3. u.kind \in Terminals
      BY <2>2 DEF Terminals
  <2> QED
      BY <1>2, <1>3, <1>5, <2>1, <2>2, <2>3, EndsStep
<1>6. CASE /\ Classify(f, ordinal, published, lease.replaySafe) # "none"
           /\ pc' \in {"waiting", "factory"} /\ UNCHANGED <<staged, seen>>
  <2>1. ordinal = 1 /\ ~published
      BY <1>0, <1>6 DEF Classify, MaxExtra, Types
  <2>2. Types'
      BY <1>0, <1>2, <1>3, <1>6 DEF Types, Between
  <2>3. ControlInv'
      BY <1>0, <1>1, <1>2, <1>3, <1>6, <2>1 DEF ControlInv, Setup, RecoveryUnavailable
  <2>4. /\ RecoveryUnavailable' <=> RecoveryUnavailable
        /\ Streaming' <=> Streaming
        /\ Buffering' <=> Buffering
      BY DEF RecoveryUnavailable, Streaming, Buffering
  <2>5. StageInv'
      BY <1>0, <1>3, <1>6, <2>4 DEF StageInv, Over
  <2>6. SeenInv'
      BY <1>0, <1>2, <1>6, <2>4 DEF SeenInv
  <2>7. RunInv'
      BY <1>6 DEF RunInv
  <2> QED
      BY <2>2, <2>3, <2>5, <2>6, <2>7 DEF IndInv
<1> QED
    BY <1>4, <1>5, <1>6 DEF RetryOrFail

(* A buffered attempt succeeded: all of it is shown at once.               *)
LEMMA BatchStep ==
    ASSUME IndInv, pc = "run", NEW a, NEW e, NEW t, Takes(a, e, t), e.kind = "completed",
           Buffering, YieldsTerminal(Append(staged, e)),
           att' = [att EXCEPT ![cur].pending = Tail(@)],
           UNCHANGED <<request, cur, ordinal, started, terminal, cancelled, released, lease,
                       canceller, consumer, published, begun, failure>>
    PROVE  IndInv'
<1>0. Types /\ ControlInv /\ StageInv
    BY DEF IndInv
<1>1. /\ cur \in Attempts /\ e \in EventType /\ e.att = cur /\ a.emitted \in Nat /\ ShownInv
      /\ Committed /\ OneStart(staged)
      /\ Line(Consumed \o <<e>>, a.emitted)
    BY HeadIs DEF StartInv
<1>2. /\ att' \in [Attempts -> AttemptType]
      /\ \A k \in Attempts : att'[k].job = att[k].job \/ att'[k].job # "running"
      /\ Committed'
    BY <1>1, TakenIs
<1>3. staged \in Seq(EventType) /\ seen = <<>> /\ Consumed = staged /\ Lacks(staged, Terminals)
    BY <1>0, ModeIs DEF Types, StageInv, Over, Consumed
<1>4. PICK x \in Seq(EventType) : x = <<e>>
    BY <1>1, SingleIs
<1>5. pc' = "yielded" /\ staged' = <<>> /\ seen' = staged \o x /\ seen' \in Seq(EventType)
  <2>1. Append(staged, e) = staged \o x /\ staged \o x \in Seq(EventType)
      BY <1>1, <1>3, <1>4, AppendIsConcat, JoinIs
  <2>2. PICK y \in Seq(EventType) : y = Append(staged, e)
      BY <2>1
  <2>3. <<>> \o y = y
      BY JoinEmpty
  <2> QED
      BY <1>3, <2>1, <2>2, <2>3 DEF YieldsTerminal
<1>6. /\ OneStart(x) /\ From(x, cur) /\ ~Lacks(x, Terminals)
      /\ Lacks(x, {"started"}) /\ Lacks(x, {"failed", "cancelled"})
    BY <1>1, <1>4, SingleIs DEF Terminals
<1>7. SeenInv'
  <2>1. OneStart(seen') /\ Sorted(seen') /\ Announced(seen')
      BY <1>1, <1>3, <1>4, <1>5, <1>6, ConcatOneStart DEF Line
  <2>2. Owned(seen', cur')
    <3>1. From(staged \o x, cur)
        BY <1>1, <1>3, <1>6, ConcatAll DEF ShownInv
    <3> QED
        BY <1>5, <3>1, OwnedIs
  <2>3. Lacks(seen', {"failed", "cancelled"})
    <3>1. Lacks(staged, {"failed", "cancelled"})
        BY <1>3 DEF Lacks, Terminals
    <3> QED
        BY <1>3, <1>5, <1>6, <3>1, ConcatLacks
  <2>4. ~Lacks(seen', Terminals)
      BY <1>3, <1>5, <1>6, ConcatLacks
  <2> QED
      BY <1>2, <2>1, <2>2, <2>3, <2>4 DEF SeenInv
<1> QED
    BY <1>0, <1>2, <1>5, <1>7, LastStep DEF Types, ControlInv

(* The outer session takes the next event of the attempt.                  *)
LEMMA ConsumeStep ==
    ASSUME IndInv, Consume
    PROVE  IndInv'
<1>0. Types /\ pc = "run"
    BY DEF IndInv, Consume
<1>1. PICK a : a = att[cur]
    OBVIOUS
<1>2. PICK e : e = Head(a.pending)
    OBVIOUS
<1>3. PICK t : t = Tail(a.pending)
    OBVIOUS
<1>4. Takes(a, e, t)
    BY <1>1, <1>2, <1>3 DEF Takes, Consume
<1>5. /\ att' = [att EXCEPT ![cur].pending = Tail(@)]
      /\ UNCHANGED <<request, cur, ordinal, started, terminal, cancelled, released, lease,
                     canceller, consumer>>
      /\ IF RecoveryUnavailable THEN PassOn(e)
         ELSE IF request.visibility = "buffered" THEN Buffer(e) ELSE Stream(e)
    BY <1>1, <1>2 DEF Consume
<1>6. e \in EventType /\ e.kind \in Kinds /\ e.att = cur /\ cur \in Attempts
  <2>1. e \in EventType /\ e.att = cur /\ cur \in Attempts
      BY <1>0, <1>4, HeadIs
  <2> QED
      BY <2>1 DEF EventType
<1>7. e.kind = "completed" \/ e.kind \notin Terminals \/ Lacks(seen, {"tool_completed"})
    BY <1>0, <1>4, <1>5, TakenIs DEF Terminals
<1>8. failure \in Failures \cup {"none"} /\ att[cur].failure \in Failures \cup {"none"}
    BY <1>0, <1>6, AttemptIs DEF Types
<1>9. CASE RecoveryUnavailable
  <2>1. PassOn(e)
      BY <1>5, <1>9
  <2>2. CASE IsTerminal(e)
    <3>1. YieldsTerminal(<<e>>) /\ UNCHANGED <<published, begun, failure>>
        BY <2>1, <2>2 DEF PassOn
    <3> QED
        BY <1>0, <1>4, <1>5, <1>6, <1>7, <1>8, <2>2, <3>1, EndsStep DEF IsTerminal
  <2>3. CASE ~IsTerminal(e)
    <3>1. seen' = Append(seen, e) /\ UNCHANGED <<pc, staged, published, begun, failure>>
        BY <2>1, <2>3 DEF PassOn
    <3> QED
        BY <1>0, <1>4, <1>5, <1>9, <2>3, <3>1, PassStep DEF IsTerminal
  <2> QED
      BY <2>2, <2>3
<1>10. CASE ~RecoveryUnavailable /\ request.visibility = "buffered"
  <2>1. Buffer(e) /\ Buffering
      BY <1>5, <1>10 DEF Buffering
  <2>2. CASE e.kind = "failed"
    <3>1. RetryOrFail(e, att[cur].failure)
        BY <2>1, <2>2 DEF Buffer
    <3> QED
        BY <1>0, <1>4, <1>5, <1>8, <1>10, <2>2, <3>1, RetryStep
  <2>3. CASE e.kind # "failed"
    <3>1. /\ \/ e.kind = "cancelled" /\ YieldsTerminal(<<e>>)
             \/ e.kind = "completed" /\ YieldsTerminal(Append(staged, e))
             \/ ~IsTerminal(e) /\ staged' = Append(staged, e) /\ UNCHANGED <<pc, seen>>
          /\ UNCHANGED <<published, begun, failure>>
        BY <2>1, <2>3 DEF Buffer
    <3>2. CASE e.kind = "cancelled" /\ YieldsTerminal(<<e>>)
      <4>1. e.kind \in Terminals
          BY <3>2 DEF Terminals
      <4> QED
          BY <1>0, <1>4, <1>5, <1>6, <1>7, <1>8, <3>1, <3>2, <4>1, EndsStep
    <3>3. CASE e.kind = "completed" /\ YieldsTerminal(Append(staged, e))
        BY <1>0, <1>4, <1>5, <2>1, <3>1, <3>3, BatchStep
    <3>4. CASE ~IsTerminal(e) /\ staged' = Append(staged, e) /\ UNCHANGED <<pc, seen>>
        BY <1>0, <1>4, <1>5, <2>1, <3>1, <3>4, HoldStep DEF IsTerminal
    <3> QED
        BY <3>1, <3>2, <3>3, <3>4
  <2> QED
      BY <2>2, <2>3
<1>11. CASE ~RecoveryUnavailable /\ request.visibility # "buffered"
  <2>1. Stream(e)
      BY <1>5, <1>11
  <2>2. Streaming
      BY <1>0, <1>11, ModeIs DEF Buffering, Streaming, RecoveryUnavailable, RequestType, Types
  <2>3. CASE e.kind = "failed" /\ RetryOrFail(e, att[cur].failure)
      BY <1>0, <1>4, <1>5, <1>8, <1>11, <2>3, RetryStep
  <2>4. CASE /\ e.kind \in {"completed", "cancelled"}
             /\ YieldsTerminal(DrainAtEnd \o <<e>>)
             /\ UNCHANGED <<published, begun, failure>>
    <3>1. e.kind \in Terminals
        BY <2>4 DEF Terminals
    <3> QED
        BY <1>0, <1>4, <1>5, <1>6, <1>7, <1>8, <1>11, <2>4, <3>1, EndsStep
  <2>5. CASE /\ e.kind = "started"
             /\ begun' = TRUE
             /\ seen' = WithStart(e)
             /\ UNCHANGED <<pc, staged, published, failure>>
      BY <1>0, <1>4, <1>5, <2>2, <2>5, StartShownStep
  <2>6. CASE /\ IsPublic(e)
             /\ seen' = seen \o Drain(staged, e.kind = "tool_completed") \o <<e>>
             /\ staged' = <<>>
             /\ published' = TRUE
             /\ UNCHANGED <<pc, begun, failure>>
      BY <1>0, <1>4, <1>5, <2>2, <2>6, PublicStep
  <2>7. CASE /\ IsStagedTool(e) \/ e.kind = "usage"
             /\ IF published THEN seen' = Append(seen, e) /\ UNCHANGED staged
                ELSE staged' = Append(staged, e) /\ UNCHANGED seen
             /\ UNCHANGED <<pc, published, begun, failure>>
    <3>1. e.kind \in CallEvents \cup {"usage"} /\ e.kind \notin Terminals
        BY <2>7 DEF IsStagedTool, CallEvents, Terminals
    <3>2. CASE published
        BY <1>0, <1>4, <1>5, <2>2, <2>7, <3>1, <3>2, PassStep
    <3>3. CASE ~published
        BY <1>0, <1>4, <1>5, <2>2, <2>7, <3>1, <3>3, HoldStep
    <3> QED
        BY <3>2, <3>3
  <2> QED
      BY <2>1, <2>3, <2>4, <2>5, <2>6, <2>7 DEF Stream
<1> QED
    BY <1>9, <1>10, <1>11

-----------------------------------------------------------------------------
(* The steps between two attempts, and those of submit().                  *)

(* Between two attempts nothing but a start was shown.                     *)
LEMMA BetweenIs ==
    ASSUME IndInv, pc \in Between
    PROVE  /\ cur \in Attempts /\ ~published /\ ~RecoveryUnavailable
           /\ Lacks(seen, Output \cup {"completed"})
           /\ Lacks(seen, {"tool_completed"}) /\ Lacks(seen, CallEvents)
<1>0. Types /\ ControlInv /\ StageInv
    BY DEF IndInv
<1>1. cur \in Attempts /\ ~published /\ ~RecoveryUnavailable
    BY <1>0 DEF ControlInv, Between, Setup
<1>2. Lacks(seen, Output \cup {"completed"})
  <2>1. CASE Buffering
    <3>1. seen = <<>>
        BY <1>0, <2>1 DEF StageInv, Over, Between
    <3> QED
        BY <3>1, EmptyIs
  <2>2. CASE Streaming
    <3>1. Only(seen, {"started"})
        BY <1>0, <1>1, <2>2 DEF StageInv, Over, Between
    <3>2. {"started"} \cap (Output \cup {"completed"}) = {}
        BY DEF Output
    <3> QED
        BY <3>1, <3>2, LacksLess
  <2> QED
      BY <1>0, <1>1, <2>1, <2>2, ModeIs
<1>3. {"tool_completed"} \subseteq Output \cup {"completed"} /\ CallEvents \subseteq Output \cup {"completed"}
    BY DEF Output, CallEvents
<1> QED
    BY <1>1, <1>2, <1>3, LacksLess

(* The request ends there.                                                 *)
LEMMA GivesUpStep ==
    ASSUME IndInv, pc \in Between, NEW kind \in {"failed", "cancelled"},
           YieldsTerminal(DrainAtEnd \o <<Plain(kind, cur)>>),
           UNCHANGED <<request, cur, published, begun, terminal, cancelled, released, lease,
                       canceller, consumer, failure>>,
           ordinal' \in 1..2, started' \in 0..MaxObjects, started' <= 2,
           att' \in [Attempts -> AttemptType],
           \A k \in Attempts : att'[k].job = att[k].job \/ att'[k].job # "running",
           Committed => Committed'
    PROVE  IndInv'
<1>0. Types /\ StageInv
    BY DEF IndInv
<1>1. cur \in Attempts /\ ~RecoveryUnavailable /\ Lacks(seen, {"tool_completed"})
    BY BetweenIs
<1>2. PICK u : u = Plain(kind, cur)
    OBVIOUS
<1>3. u \in EventType /\ u.kind = kind /\ u.att = cur
    BY <1>0, <1>1, <1>2, EventIs DEF Kinds, Terminals
<1>4. u.kind \in Terminals
    BY <1>3 DEF Terminals
<1>5. PICK o \in Seq(EventType) : o = DrainAtEnd
    BY <1>0, DrainAtEndIs
<1>6. Only(o, {"usage"})
    BY <1>0, <1>1, <1>5, DrainAtEndIs
<1>7. YieldsTerminal(o \o <<u>>)
    BY <1>2, <1>5
<1>8. failure' \in Failures \cup {"none"}
    BY <1>0 DEF Types
<1> QED
    BY <1>1, <1>3, <1>4, <1>6, <1>7, <1>8, YieldStep

(* The request passes on to the next place between two attempts, or has a  *)
(* new attempt.                                                            *)
LEMMA OnwardStep ==
    ASSUME IndInv, pc \in Between, pc' \in Between \cup {"run"},
           UNCHANGED <<request, published, begun, failure, terminal, cancelled, released, lease,
                       canceller, consumer, seen>>,
           staged' = staged \/ staged' = <<>>,
           Types', ControlInv', RunInv',
           \/ UNCHANGED cur /\ att'[cur].gate = att[cur].gate
           \/ att'[cur'].gate.life = "OPEN"
    PROVE  IndInv'
<1>0. Types /\ ControlInv /\ StageInv /\ SeenInv
    BY DEF IndInv
<1>1. /\ ~published /\ ~RecoveryUnavailable
      /\ Lacks(seen, Output \cup {"completed"})
      /\ Lacks(seen, {"tool_completed"}) /\ Lacks(seen, CallEvents)
    BY BetweenIs
<1>2. /\ RecoveryUnavailable' <=> RecoveryUnavailable
      /\ Streaming' <=> Streaming
      /\ Buffering' <=> Buffering
    BY DEF RecoveryUnavailable, Streaming, Buffering
<1>3. StageInv'
  <2>1. /\ Lacks(staged', Terminals)
        /\ Streaming => Only(staged', CallEvents \cup {"usage"})
      BY <1>0, EmptyIs DEF StageInv
  <2> QED
      BY <1>0, <1>1, <1>2, <2>1 DEF StageInv, Over, Between
<1>4. Owned(seen', cur')
    BY <1>1, OwnedIs
<1>5. SeenInv'
    BY <1>0, <1>1, <1>4 DEF SeenInv, Between
<1> QED
    BY <1>3, <1>5 DEF IndInv

(* A fresh attempt begins with nothing shown or held back.                 *)
LEMMA FreshStep ==
    ASSUME request' \in RequestType, NEW b, b = att'[cur'], b \in AttemptType,
           b.pending = <<>>, b.gate = NewGate(request'.atomic),
           ~b.began, ~b.terminal, b.emitted = 0,
           staged' = <<>>, published' = FALSE, seen' \in Seq(EventType),
           RecoveryUnavailable' => seen' = <<>>
    PROVE  RunInv'
<1>1. /\ b.gate.atomic = request'.atomic /\ b.gate.life = "OPEN" /\ b.gate.buffered = <<>>
    BY DEF NewGate
<1>2. GateInv(b)'
    BY <1>1, EmptyIs DEF GateInv
<1>3. StartInv(b)'
    BY <1>1, EmptyIs DEF StartInv
<1>4. QuietInv(b)'
    BY <1>1, EmptyIs DEF QuietInv
<1>5. ShownInv'
    BY EmptyIs DEF ShownInv
<1>6. Line(Consumed' \o b.pending \o b.gate.buffered, b.emitted)
  <2>1. PICK z \in Seq(EventType) : z = <<>>
      BY EmptyIs
  <2>2. Consumed' = z
      BY <2>1 DEF Consumed
  <2>3. z \o z = z /\ Line(z, b.emitted)
    <3>1. Line(<<>>, 0)
        BY EmptyIs
    <3> QED
        BY <2>1, <3>1, JoinEmpty
  <2> QED
      BY <1>1, <2>1, <2>2, <2>3
<1> QED
    BY <1>2, <1>3, <1>4, <1>5, <1>6 DEF RunInv

(* The wait for the runtime is over.                                       *)
LEMMA WaitedStep ==
    ASSUME IndInv, NEW readiness, Waited(readiness)
    PROVE  IndInv'
<1>0. Types /\ ControlInv /\ pc = "waiting" /\ pc \in Between
    BY DEF IndInv, Waited, Between
<1>1. /\ UNCHANGED <<request, cur, ordinal, started, published, begun, failure, terminal, att,
                     cancelled, released, lease, canceller, consumer>>
      /\ \/ YieldsTerminal(DrainAtEnd \o <<Plain("cancelled", cur)>>)
         \/ YieldsTerminal(DrainAtEnd \o <<Plain("failed", cur)>>)
         \/ pc' = "factory" /\ UNCHANGED <<staged, seen>>
    BY DEF Waited
<1>2. /\ ordinal' \in 1..2 /\ started' \in 0..MaxObjects /\ started' <= 2
      /\ att' \in [Attempts -> AttemptType]
      /\ Committed' <=> Committed
    BY <1>0, <1>1 DEF Types, ControlInv, Committed
<1>3. CASE YieldsTerminal(DrainAtEnd \o <<Plain("cancelled", cur)>>)
    BY <1>0, <1>1, <1>2, <1>3, GivesUpStep
<1>4. CASE YieldsTerminal(DrainAtEnd \o <<Plain("failed", cur)>>)
    BY <1>0, <1>1, <1>2, <1>4, GivesUpStep
<1>5. CASE pc' = "factory" /\ UNCHANGED <<staged, seen>>
  <2>1. Types'
      BY <1>0, <1>1, <1>5 DEF Types, Between
  <2>2. ControlInv'
      BY <1>0, <1>1, <1>5 DEF ControlInv, Between, Setup, RecoveryUnavailable
  <2>3. RunInv'
      BY <1>5 DEF RunInv
  <2>4. pc' \in Between
      BY <1>5 DEF Between
  <2> QED
      BY <1>0, <1>1, <1>5, <2>1, <2>2, <2>3, <2>4, OnwardStep
<1> QED
    BY <1>1, <1>3, <1>4, <1>5

(* The factory hands the second attempt to the runtime.                    *)
LEMMA FactorySubmitsStep ==
    ASSUME IndInv, FactorySubmits
    PROVE  IndInv'
<1>0. Types /\ ControlInv /\ pc = "factory" /\ pc \in Between
    BY DEF IndInv, FactorySubmits, Between
<1>1. /\ lease.active /\ started < MaxObjects
      /\ started' = started + 1
      /\ att' = [att EXCEPT ![started + 1] = NewAttempt]
      /\ pc' = "starting"
      /\ UNCHANGED <<request, cur, ordinal, staged, published, begun, failure, terminal,
                     cancelled, released, lease, canceller, consumer, seen>>
    BY DEF FactorySubmits, StartsAttempt
<1>2. /\ cur = 1 /\ started = 1 /\ ordinal = 1 /\ ~released
      /\ ~RecoveryUnavailable /\ ~published
    BY <1>0, <1>1 DEF ControlInv
<1>3. 2 \in Attempts /\ 1 \in Attempts
    BY <1>1, <1>2, RecoveryAssumption DEF Attempts
<1>4. NewAttempt \in AttemptType /\ request \in RequestType
    BY <1>0, RequestIs, NewIs
<1>5. /\ att' \in [Attempts -> AttemptType] /\ att'[2] = NewAttempt
      /\ att'[cur] = att[cur]
    BY <1>0, <1>1, <1>2, <1>3, <1>4 DEF Types
<1>6. Types'
    BY <1>0, <1>1, <1>2, <1>3, <1>5 DEF Types, Between, Attempts
<1>7. Fresh(2)'
    BY <1>1, <1>5 DEF Fresh, NewAttempt
<1>8. ControlInv'
  <2>1. RecoveryUnavailable' <=> RecoveryUnavailable
      BY <1>1 DEF RecoveryUnavailable
  <2> QED
      BY <1>0, <1>1, <1>2, <1>3, <1>7, <2>1 DEF ControlInv, Between, Setup
<1>9. RunInv'
    BY <1>1 DEF RunInv
<1>10. pc' \in Between
    BY <1>1 DEF Between
<1> QED
    BY <1>0, <1>1, <1>5, <1>6, <1>8, <1>9, <1>10, OnwardStep

(* The factory is refused: the request ends.                               *)
LEMMA FactoryRefusedStep ==
    ASSUME IndInv, NEW ran \in BOOLEAN, FactoryRefused(ran)
    PROVE  IndInv'
<1>0. Types /\ ControlInv /\ pc = "factory" /\ pc \in Between
    BY DEF IndInv, FactoryRefused, Between
<1>1. started = 1 /\ ordinal = 1 /\ started \in 0..MaxObjects
    BY <1>0 DEF ControlInv, Types
<1>2. /\ UNCHANGED <<request, cur, published, begun, failure, terminal, att, cancelled, released,
                     lease, canceller, consumer>>
      /\ \/ /\ YieldsTerminal(DrainAtEnd \o <<Plain("cancelled", cur)>>)
            /\ UNCHANGED <<ordinal, started>>
         \/ /\ YieldsTerminal(DrainAtEnd \o <<Plain("failed", cur)>>)
            /\ ran => started < MaxObjects
            /\ ordinal' = IF ran THEN ordinal + 1 ELSE ordinal
            /\ started' = IF ran THEN started + 1 ELSE started
    BY DEF FactoryRefused
<1>3. /\ ordinal' \in 1..2 /\ started' \in 0..MaxObjects /\ started' <= 2
    BY <1>1, <1>2, RecoveryAssumption
<1>4. att' \in [Attempts -> AttemptType] /\ (Committed' <=> Committed)
    BY <1>0, <1>2 DEF Types, Committed
<1>5. CASE YieldsTerminal(DrainAtEnd \o <<Plain("cancelled", cur)>>)
    BY <1>0, <1>2, <1>3, <1>4, <1>5, GivesUpStep
<1>6. CASE YieldsTerminal(DrainAtEnd \o <<Plain("failed", cur)>>)
    BY <1>0, <1>2, <1>3, <1>4, <1>6, GivesUpStep
<1> QED
    BY <1>2, <1>5, <1>6

(* The second attempt becomes the current one.                             *)
LEMMA FactoryReturnsStep ==
    ASSUME IndInv, FactoryReturns
    PROVE  IndInv'
<1>0. Types /\ ControlInv /\ StageInv /\ pc = "starting" /\ pc \in Between
    BY DEF IndInv, FactoryReturns, Between
<1>1. /\ cur' = started /\ ordinal' = ordinal + 1
      /\ \/ pc' = "discard" /\ UNCHANGED staged
         \/ pc' = "run" /\ staged' = <<>>
      /\ UNCHANGED <<request, started, published, begun, failure, terminal, att, cancelled,
                     released, lease, canceller, consumer, seen>>
    BY DEF FactoryReturns
<1>2. /\ started = 2 /\ ordinal = 1 /\ Fresh(2) /\ ~RecoveryUnavailable /\ ~published
      /\ started \in 0..MaxObjects
    BY <1>0 DEF ControlInv, Types
<1>3. 2 \in Attempts
    BY <1>2, RecoveryAssumption DEF Attempts
<1>4. pc' \in Between \cup {"run"}
    BY <1>1 DEF Between
<1>5. Types'
  <2>1. staged' \in Seq(EventType)
    <3>1. <<>> \in Seq(EventType) /\ staged \in Seq(EventType)
        BY <1>0 DEF Types
    <3> QED
        BY <1>1, <3>1
  <2>2. cur' \in Attempts /\ ordinal' \in 1..2
      BY <1>1, <1>2, <1>3
  <2> QED
      BY <1>0, <1>1, <2>1, <2>2 DEF Types, Between
<1>6. /\ RecoveryUnavailable' <=> RecoveryUnavailable
    BY <1>1 DEF RecoveryUnavailable
<1>7. ControlInv'
    BY <1>0, <1>1, <1>2, <1>3, <1>6 DEF ControlInv, Between, Setup
<1>8. PICK b : b = att'[cur']
    OBVIOUS
<1>9. /\ b = att[2] /\ b \in AttemptType
      /\ b.pending = <<>> /\ b.gate = NewGate(request.atomic)
      /\ ~b.began /\ ~b.terminal /\ b.emitted = 0
    BY <1>0, <1>1, <1>2, <1>3, <1>8 DEF Fresh, Types
<1>10. RunInv'
  <2>1. CASE pc' = "discard"
      BY <2>1 DEF RunInv
  <2>2. CASE pc' = "run" /\ staged' = <<>>
    <3>1. request' \in RequestType /\ seen' \in Seq(EventType)
        BY <1>0, <1>1, RequestIs DEF Types
    <3>2. request' = request /\ published' = FALSE
        BY <1>0, <1>1, <1>2 DEF Types
    <3> QED
        BY <1>2, <1>6, <1>8, <1>9, <2>2, <3>1, <3>2, FreshStep
  <2> QED
      BY <1>1, <2>1, <2>2
<1>11. att'[cur'].gate.life = "OPEN"
    BY <1>8, <1>9 DEF NewGate
<1> QED
    BY <1>0, <1>1, <1>4, <1>5, <1>7, <1>10, <1>11, OnwardStep

(* The second attempt came too late and is cancelled.                      *)
LEMMA DiscardedStep ==
    ASSUME IndInv, Discarded
    PROVE  IndInv'
<1>0. Types /\ ControlInv /\ pc \in Between
    BY DEF IndInv, Discarded, Between
<1>1. cur \in Attempts
    BY BetweenIs, <1>0
<1>2. PICK a : a = att[cur]
    OBVIOUS
<1>3. a \in AttemptType /\ a.gate \in GateType
    BY <1>0, <1>1, <1>2, AttemptIs
<1>4. PICK b : b = [a EXCEPT !.job = IF @ = "running" THEN "cancelled" ELSE @, !.gate = Abort(@)]
    OBVIOUS
<1>5. PICK g \in GateType : g = Abort(a.gate) /\ (a.gate.life = "COMMITTED" => g = a.gate)
    BY <1>3, AbortIs
<1>6. PICK j : j = IF a.job = "running" THEN "cancelled" ELSE a.job
    OBVIOUS
<1>7. b = [a EXCEPT !.job = j, !.gate = g]
    BY <1>4, <1>5, <1>6
<1>8. b \in AttemptType /\ b.job # "running" /\ b.gate = g
    BY <1>3, <1>5, <1>6, <1>7 DEF AttemptType
<1>9. /\ att' = [att EXCEPT ![cur] = b]
      /\ att \in [Attempts -> AttemptType]
    BY <1>0, <1>1, <1>2, <1>4 DEF Types, Discarded
<1>10. /\ att' \in [Attempts -> AttemptType] /\ att'[cur] = b
       /\ \A k \in Attempts : att'[k].job = att[k].job \/ att'[k].job # "running"
    BY <1>1, <1>8, <1>9
<1>11. /\ UNCHANGED <<request, cur, ordinal, started, published, begun, failure, terminal,
                      cancelled, released, lease, canceller, consumer>>
       /\ YieldsTerminal(DrainAtEnd \o <<Plain("cancelled", cur)>>)
    BY DEF Discarded
<1>12. Committed => Committed'
    BY <1>1, <1>2, <1>5, <1>8, <1>10, <1>11 DEF Committed
<1>13. ordinal' \in 1..2 /\ started' \in 0..MaxObjects /\ started' <= 2
    BY <1>0, <1>11 DEF Types, ControlInv
<1> QED
    BY <1>0, <1>10, <1>11, <1>12, <1>13, GivesUpStep

(* The lease is given back: no job of the request runs any more, whatever  *)
(* cancel() made of the attempts just before.                              *)
LEMMA ReleaseIs ==
    ASSUME Types, ControlInv, NEW A \in [Attempts -> AttemptType],
           \A k \in Attempts : A[k].job = att[k].job \/ A[k].job # "running",
           ReleaseOnce(A) \/ (released' = TRUE /\ LeaseReleased(A))
    PROVE  /\ released' = TRUE /\ lease' \in [active : BOOLEAN, replaySafe : BOOLEAN]
           /\ ~lease'.active /\ att' \in [Attempts -> AttemptType]
           /\ \A k \in Attempts :
                 /\ att'[k].job # "running"
                 /\ att'[k].pending = A[k].pending /\ att'[k].began = A[k].began
                 /\ att'[k].terminal = A[k].terminal /\ att'[k].emitted = A[k].emitted
                 /\ att'[k].gate = A[k].gate
<1>0. released \in BOOLEAN /\ lease \in [active : BOOLEAN, replaySafe : BOOLEAN]
    BY DEF Types
<1>1. CASE released /\ att' = A /\ UNCHANGED lease /\ released' = TRUE
    BY <1>0, <1>1 DEF ControlInv
<1>2. CASE LeaseReleased(A) /\ released' = TRUE
  <2>1. lease' \in [active : BOOLEAN, replaySafe : BOOLEAN] /\ ~lease'.active
      BY <1>0, <1>2 DEF LeaseReleased
  <2>2. ASSUME NEW k \in Attempts
        PROVE  /\ att'[k] \in AttemptType /\ att'[k].job # "running"
               /\ att'[k].pending = A[k].pending /\ att'[k].began = A[k].began
               /\ att'[k].terminal = A[k].terminal /\ att'[k].emitted = A[k].emitted
               /\ att'[k].gate = A[k].gate
    <3>1. A[k] \in AttemptType
        OBVIOUS
    <3>2. att'[k] = IF A[k].job = "running" THEN [A[k] EXCEPT !.job = "cancelled"] ELSE A[k]
        BY <1>2, <2>2 DEF LeaseReleased
    <3>3. CASE A[k].job = "running"
        BY <3>1, <3>2, <3>3 DEF AttemptType
    <3>4. CASE A[k].job # "running"
        BY <3>1, <3>2, <3>4
    <3> QED
        BY <3>3, <3>4
  <2>3. att' = [k \in Attempts |-> att'[k]]
      BY <1>2 DEF LeaseReleased
  <2> QED
      BY <1>2, <2>1, <2>2, <2>3
<1> QED
    BY <1>1, <1>2 DEF ReleaseOnce

(* submit() before it hands the session out, or raises.                    *)
LEMMA SetupStep ==
    ASSUME IndInv, pc \in Setup, pc' \in Setup \ {"submit"},
           UNCHANGED <<request, cur, ordinal, staged, published, begun, failure, terminal,
                       cancelled, canceller, consumer, seen>>,
           started' \in 0..MaxObjects, started' <= 2,
           pc' \in {"submitWait", "submitRetry"} => started' <= 1,
           UNCHANGED <<att, released, lease>> \/ Rejects
    PROVE  IndInv'
<1>0. Types /\ ControlInv /\ StageInv /\ SeenInv
    BY DEF IndInv
<1>1. CASE UNCHANGED <<att, released, lease>>
  <2>1. Types'
      BY <1>0, <1>1 DEF Types
  <2>2. ControlInv'
      BY <1>0, <1>1 DEF ControlInv, Setup, Between, Fresh
  <2> QED
      BY <1>0, <1>1, <2>1, <2>2
         DEF IndInv, StageInv, SeenInv, RunInv, Committed, Setup, Over, Streaming, Buffering,
             RecoveryUnavailable
<1>2. CASE Rejects
  <2>1. released' = TRUE /\ LeaseReleased(att)
      BY <1>2 DEF Rejects
  <2>2. att \in [Attempts -> AttemptType]
      BY <1>0 DEF Types
  <2>3. /\ lease' \in [active : BOOLEAN, replaySafe : BOOLEAN]
        /\ ~lease'.active /\ att' \in [Attempts -> AttemptType]
        /\ \A k \in Attempts : att'[k].job # "running"
      BY <1>0, <2>1, <2>2, ReleaseIs
  <2>4. Types'
      BY <1>0, <2>1, <2>3 DEF Types
  <2>5. ControlInv'
      BY <1>0, <2>1, <2>3 DEF ControlInv, Setup, Between
  <2> QED
      BY <1>0, <2>4, <2>5
         DEF IndInv, StageInv, SeenInv, RunInv, Committed, Setup, Over, Streaming, Buffering,
             RecoveryUnavailable, ControlInv
<1> QED
    BY <1>1, <1>2

(* submit() hands out the session of the first attempt.                    *)
LEMMA SubmitStartsStep ==
    ASSUME IndInv, SubmitStarts
    PROVE  IndInv'
<1>0. Types /\ ControlInv /\ StageInv /\ pc \in {"submit", "submitRetry"} /\ pc \in Setup
    BY DEF IndInv, SubmitStarts, Setup
<1>1. /\ lease.active /\ started < MaxObjects
      /\ started' = started + 1
      /\ att' = [att EXCEPT ![started + 1] = NewAttempt]
      /\ cur' = started' /\ pc' = "run" /\ consumer' = "reading"
      /\ ordinal' = IF pc = "submit" THEN 1 ELSE 2
      /\ UNCHANGED <<request, staged, published, begun, failure, terminal, cancelled, released,
                     lease, canceller, seen>>
    BY DEF SubmitStarts, StartsAttempt
<1>2. /\ seen = <<>> /\ staged = <<>> /\ ~published /\ ~begun /\ canceller = 0 /\ ~released
      /\ started <= 1 /\ (pc = "submit" => started = 0) /\ started \in Nat
    BY <1>0, <1>1 DEF ControlInv, Types
<1>3. started + 1 \in Attempts
    BY <1>1, <1>2, RecoveryAssumption DEF Attempts
<1>4. NewAttempt \in AttemptType /\ request \in RequestType
    BY <1>0, RequestIs, NewIs
<1>5. /\ att' \in [Attempts -> AttemptType] /\ att'[cur'] = NewAttempt
    BY <1>0, <1>1, <1>3, <1>4 DEF Types
<1>6. Types'
    BY <1>0, <1>1, <1>2, <1>3, <1>5 DEF Types, Attempts
<1>7. ControlInv'
    BY <1>0, <1>1, <1>2, <1>3 DEF ControlInv, Between, Setup
<1>8. StageInv'
    BY <1>1, <1>2, EmptyIs DEF StageInv
<1>9. SeenInv'
    BY <1>1, <1>2, EmptyIs, OwnedIs DEF SeenInv
<1>10. PICK b : b = NewAttempt
    OBVIOUS
<1>11. /\ b.pending = <<>> /\ b.gate = NewGate(request.atomic)
       /\ ~b.began /\ ~b.terminal /\ b.emitted = 0
    BY <1>10 DEF NewAttempt
<1>12. RunInv'
  <2>1. published' = FALSE /\ seen' \in Seq(EventType) /\ request' = request
      BY <1>0, <1>1, <1>2 DEF Types
  <2> QED
      BY <1>1, <1>2, <1>4, <1>5, <1>10, <1>11, <2>1, FreshStep
<1> QED
    BY <1>6, <1>7, <1>8, <1>9, <1>12 DEF IndInv

(* All of submit().                                                        *)
LEMMA SubmittingStep ==
    ASSUME IndInv, Submitting \/ SubmitInterrupted
    PROVE  IndInv'
<1>0. Types /\ ControlInv
    BY DEF IndInv
<1>1. started \in 0..MaxObjects /\ started <= 2 /\ MaxObjects \in Nat
      /\ (pc = "submit" => started = 0)
      /\ (pc \in {"submitWait", "submitRetry"} => started <= 1)
    BY <1>0, RecoveryAssumption DEF Types, ControlInv
<1>2. CASE SubmitStarts
    BY <1>2, SubmitStartsStep
<1>3. ASSUME NEW ran \in BOOLEAN, NEW f \in Failures, SubmitRefused(ran, f)
      PROVE  IndInv'
  <2>1. /\ pc \in {"submit", "submitRetry"}
        /\ started' = IF ran /\ started < MaxObjects THEN started + 1 ELSE started
        /\ UNCHANGED <<request, cur, ordinal, staged, published, begun, failure, terminal,
                       cancelled, canceller, consumer, seen>>
        /\ \/ pc = "submit" /\ pc' = "submitWait" /\ UNCHANGED <<att, released, lease>>
           \/ Rejects
      BY <1>3 DEF SubmitRefused
  <2>2. /\ started' \in 0..MaxObjects /\ started' <= 2
        /\ pc' = "submitWait" /\ pc = "submit" => started' <= 1
      BY <1>1, <2>1
  <2>3. Rejects => pc' = "rejected"
      BY DEF Rejects
  <2> QED
      BY <2>1, <2>2, <2>3, SetupStep DEF Setup
<1>4. ASSUME NEW r, SubmitWaited(r)
      PROVE  IndInv'
  <2>1. /\ pc = "submitWait"
        /\ UNCHANGED <<request, cur, ordinal, started, staged, published, begun, failure, terminal,
                       cancelled, canceller, consumer, seen>>
        /\ \/ pc' = "submitRetry" /\ UNCHANGED <<att, released, lease>>
           \/ Rejects
      BY <1>4 DEF SubmitWaited
  <2>2. Rejects => pc' = "rejected"
      BY DEF Rejects
  <2> QED
      BY <1>1, <2>1, <2>2, SetupStep DEF Setup
<1>5. CASE SubmitInterrupted
  <2>1. /\ pc = "submitWait" /\ Rejects /\ pc' = "rejected"
        /\ UNCHANGED <<request, cur, ordinal, started, staged, published, begun, failure, terminal,
                       cancelled, canceller, consumer, seen>>
      BY <1>5 DEF SubmitInterrupted, Rejects
  <2> QED
      BY <1>1, <2>1, SetupStep DEF Setup
<1> QED
    BY <1>2, <1>3, <1>4, <1>5 DEF Submitting

-----------------------------------------------------------------------------
(* The steps of the consumer, of cancel() and of the controller.           *)

(* The request unwinds or is cancelled: the lease is given back.           *)
LEMMA ReleaseStep ==
    ASSUME IndInv, pc \notin Setup, NEW A \in [Attempts -> AttemptType],
           \A k \in Attempts :
              /\ A[k].job = att[k].job \/ A[k].job # "running"
              /\ A[k].pending = att[k].pending /\ A[k].began = att[k].began
              /\ A[k].terminal = att[k].terminal /\ A[k].emitted = att[k].emitted
              /\ A[k].gate = att[k].gate,
           ReleaseOnce(A),
           UNCHANGED <<request, cur, ordinal, started, staged, published, begun, failure, seen>>,
           pc' = pc \/ pc' = "unwound",
           cancelled' \in BOOLEAN, terminal' \in BOOLEAN,
           canceller' \in {0, canceller},
           consumer' \in {"reading", "leaving", "left"}
    PROVE  IndInv'
<1>0. Types /\ ControlInv
    BY DEF IndInv
<1>1. /\ released' = TRUE /\ lease' \in [active : BOOLEAN, replaySafe : BOOLEAN]
      /\ ~lease'.active /\ att' \in [Attempts -> AttemptType]
      /\ \A k \in Attempts :
            /\ att'[k].job # "running"
            /\ att'[k].pending = att[k].pending /\ att'[k].began = att[k].began
            /\ att'[k].terminal = att[k].terminal /\ att'[k].emitted = att[k].emitted
            /\ att'[k].gate = att[k].gate
  <2>1. /\ released' = TRUE /\ lease' \in [active : BOOLEAN, replaySafe : BOOLEAN]
        /\ ~lease'.active /\ att' \in [Attempts -> AttemptType]
        /\ \A k \in Attempts :
              /\ att'[k].job # "running"
              /\ att'[k].pending = A[k].pending /\ att'[k].began = A[k].began
              /\ att'[k].terminal = A[k].terminal /\ att'[k].emitted = A[k].emitted
              /\ att'[k].gate = A[k].gate
      BY <1>0, ReleaseIs
  <2> QED
      BY <2>1
<1>2. cur \in Attempts /\ canceller' \in Attempts \cup {0}
    BY <1>0 DEF ControlInv, Types
<1>3. released' \in BOOLEAN /\ (lease'.active <=> ~released')
      /\ consumer' \in {"absent", "reading", "leaving", "left"} /\ consumer' # "absent"
    BY <1>1
<1> QED
    BY <1>1, <1>2, <1>3, ControlStep

(* The controller cancels a job, or lets the request take more text.       *)
LEMMA ControllerStep ==
    ASSUME IndInv, InjectText \/ \E k \in Attempts : ControllerCancels(k)
    PROVE  IndInv'
<1>0. Types /\ ControlInv
    BY DEF IndInv
<1>1. CASE InjectText
  <2>1. /\ lease' \in [active : BOOLEAN, replaySafe : BOOLEAN]
        /\ lease'.active <=> lease.active
        /\ UNCHANGED <<outer, att, cancelled, released, canceller, consumer, seen>>
      BY <1>0, <1>1 DEF InjectText, Types
  <2> QED
      BY <1>0, <2>1, ControlStep DEF Types, ControlInv, outer
<1>2. ASSUME NEW k \in Attempts, ControllerCancels(k)
      PROVE  IndInv'
  <2>1. /\ att' = [att EXCEPT ![k].job = "cancelled"]
        /\ UNCHANGED <<outer, cancelled, released, lease, canceller, consumer, seen>>
      BY <1>2 DEF ControllerCancels
  <2>2. PICK a : a = att[k]
      OBVIOUS
  <2>3. a \in AttemptType /\ att \in [Attempts -> AttemptType]
      BY <1>0, <1>2, <2>2 DEF Types
  <2>4. PICK b : b = [a EXCEPT !.job = "cancelled"]
      OBVIOUS
  <2>5. /\ b \in AttemptType /\ b.job = "cancelled" /\ b.pending = a.pending
        /\ b.began = a.began /\ b.terminal = a.terminal /\ b.emitted = a.emitted /\ b.gate = a.gate
      BY <2>3, <2>4 DEF AttemptType
  <2>6. att' = [att EXCEPT ![k] = b]
      BY <1>2, <2>1, <2>2, <2>3, <2>4
  <2>7. /\ att' \in [Attempts -> AttemptType]
        /\ \A i \in Attempts :
              /\ att'[i].job = att[i].job \/ att'[i].job # "running"
              /\ att'[i].pending = att[i].pending /\ att'[i].began = att[i].began
              /\ att'[i].terminal = att[i].terminal /\ att'[i].emitted = att[i].emitted
              /\ att'[i].gate = att[i].gate
      BY <1>2, <2>2, <2>3, <2>5, <2>6
  <2>8. released' => \A i \in Attempts : att'[i].job # "running"
      BY <1>0, <2>1, <2>7 DEF ControlInv
  <2> QED
      BY <1>0, <2>1, <2>7, <2>8, ControlStep DEF Types, ControlInv, outer
<1> QED
    BY <1>1, <1>2

(* The consumer is done, or is cancelled.                                  *)
LEMMA LeavingStep ==
    ASSUME IndInv, Exhausts \/ DisconnectInside \/ DisconnectOutside
    PROVE  IndInv'
<1>0. Types /\ ControlInv /\ att \in [Attempts -> AttemptType]
    BY DEF IndInv, Types
<1>1. CASE Exhausts
    BY <1>0, <1>1, ReleaseStep DEF Exhausts, Setup, Types
<1>2. CASE DisconnectInside
    BY <1>0, <1>2, ReleaseStep DEF DisconnectInside, Setup, Types
<1>3. CASE DisconnectOutside
  <2>1. /\ consumer' = "leaving" /\ pc \notin Setup
        /\ UNCHANGED <<outer, att, cancelled, released, lease, canceller, seen>>
      BY <1>3 DEF DisconnectOutside, Setup
  <2> QED
      BY <1>0, <2>1, ControlStep DEF Types, ControlInv, outer
<1> QED
    BY <1>1, <1>2, <1>3

(* cancel(), by another task or by the consumer that leaves.               *)
LEMMA CancelStep ==
    ASSUME IndInv, CancelCall, consumer # "absent",
           consumer' \in {"reading", "leaving", "left"}
    PROVE  IndInv'
<1>0. Types /\ ControlInv /\ att \in [Attempts -> AttemptType]
    BY DEF IndInv, Types
<1>1. pc \notin Setup /\ cur \in Attempts
    BY <1>0 DEF ControlInv
<1>2. cancelled' = TRUE /\ UNCHANGED <<outer, seen>>
    BY DEF CancelCall
<1>3. CASE att[cur].terminal
  <2>1. ReleaseOnce(att) /\ UNCHANGED canceller
      BY <1>3 DEF CancelCall
  <2> QED
      BY <1>0, <1>1, <1>2, <2>1, ReleaseStep DEF outer, Types
<1>4. CASE ~att[cur].terminal
  <2>1. /\ canceller' = cur
        /\ att' = [att EXCEPT ![cur].gate = Abort(@)]
        /\ UNCHANGED <<released, lease>>
      BY <1>4 DEF CancelCall
  <2>2. PICK a : a = att[cur]
      OBVIOUS
  <2>3. a \in AttemptType /\ a.gate \in GateType
      BY <1>0, <1>1, <2>2, AttemptIs
  <2>4. PICK g \in GateType : g = Abort(a.gate)
      BY <2>3, AbortIs
  <2>5. PICK b : b = [a EXCEPT !.gate = g]
      OBVIOUS
  <2>6. /\ b \in AttemptType /\ b.job = a.job /\ b.pending = a.pending
        /\ b.began = a.began /\ b.terminal = a.terminal /\ b.emitted = a.emitted /\ b.gate = g
      BY <2>3, <2>5 DEF AttemptType
  <2>7. att' = [att EXCEPT ![cur] = b]
      BY <1>0, <1>1, <2>1, <2>2, <2>4, <2>5
  <2>8. /\ att' \in [Attempts -> AttemptType]
        /\ \A k \in Attempts :
              /\ att'[k].job = att[k].job
              /\ att'[k].pending = att[k].pending /\ att'[k].began = att[k].began
              /\ att'[k].terminal = att[k].terminal /\ att'[k].emitted = att[k].emitted
              /\ \/ att'[k].gate = att[k].gate
                 \/ k = cur /\ att'[k].gate = Abort(att[k].gate)
      BY <1>0, <1>1, <2>2, <2>4, <2>6, <2>7
  <2>9. released' => \A k \in Attempts : att'[k].job # "running"
      BY <1>0, <2>1, <2>8 DEF ControlInv
  <2> QED
      BY <1>0, <1>1, <1>2, <2>1, <2>8, <2>9, ControlStep DEF Types, ControlInv, outer
<1> QED
    BY <1>3, <1>4

(* The cancellation is over.                                               *)
LEMMA CancelEndsStep ==
    ASSUME IndInv, CancelEnds
    PROVE  IndInv'
<1>0. Types /\ ControlInv /\ att \in [Attempts -> AttemptType]
    BY DEF IndInv, Types
<1>1. canceller \in Attempts /\ pc \notin Setup /\ consumer # "absent"
    BY <1>0 DEF CancelEnds, ControlInv, Types
<1>2. PICK a : a = att[canceller]
    OBVIOUS
<1>3. a \in AttemptType
    BY <1>0, <1>1, <1>2
<1>4. PICK j : j = IF a.job = "running" THEN "cancelled" ELSE a.job
    OBVIOUS
<1>5. PICK b : b = [a EXCEPT !.job = j]
    OBVIOUS
<1>6. /\ b \in AttemptType /\ b.job # "running" /\ b.pending = a.pending
      /\ b.began = a.began /\ b.terminal = a.terminal /\ b.emitted = a.emitted /\ b.gate = a.gate
    BY <1>3, <1>4, <1>5 DEF AttemptType
<1>7. PICK A : A = [att EXCEPT ![canceller] = b]
    OBVIOUS
<1>8. A = [att EXCEPT ![canceller].job = IF @ = "running" THEN "cancelled" ELSE @]
    BY <1>0, <1>1, <1>2, <1>4, <1>5, <1>7
<1>9. /\ A \in [Attempts -> AttemptType]
      /\ \A k \in Attempts :
            /\ A[k].job = att[k].job \/ A[k].job # "running"
            /\ A[k].pending = att[k].pending /\ A[k].began = att[k].began
            /\ A[k].terminal = att[k].terminal /\ A[k].emitted = att[k].emitted
            /\ A[k].gate = att[k].gate
    BY <1>0, <1>1, <1>2, <1>6, <1>7
<1>10. ReleaseOnce(A) /\ canceller' = 0 /\ UNCHANGED <<outer, cancelled, consumer, seen>>
    BY <1>8 DEF CancelEnds
<1> QED
    BY <1>0, <1>1, <1>9, <1>10, ReleaseStep DEF outer, Types

-----------------------------------------------------------------------------
(* Every step keeps the invariant.                                         *)
LEMMA NextStep ==
    ASSUME IndInv, [Next]_vars
    PROVE  IndInv'
<1>1. CASE Submitting \/ SubmitInterrupted
    BY <1>1, SubmittingStep
<1>2. CASE RuntimeStep
  <2>1. CASE RuntimeStarted
      BY <2>1, StartedStep
  <2>2. CASE RuntimeFinishes
      BY <2>2, FinishStep
  <2>3. CASE \E f \in Failures, text \in BOOLEAN : RuntimeFails(f, text)
      BY <2>3, FailStep
  <2>4. CASE \E text \in BOOLEAN : RuntimeCancelled(text)
      BY <2>4, CancelledStep
  <2> QED
      BY <1>2, <2>1, <2>2, <2>3, <2>4 DEF RuntimeStep
<1>3. CASE Emit
    BY <1>3, TextStep, CallStep DEF Emit
<1>4. CASE InjectText \/ \E k \in Attempts : ControllerCancels(k)
    BY <1>4, ControllerStep
<1>5. CASE Recovering
    BY <1>5, ConsumeStep, WaitedStep, FactorySubmitsStep, FactoryRefusedStep, FactoryReturnsStep,
       DiscardedStep, LeavingStep DEF Recovering
<1>6. CASE DisconnectInside \/ DisconnectOutside
    BY <1>6, LeavingStep
<1>7. CASE Cancels \/ ConsumerLeaves
  <2>0. Types
      BY DEF IndInv
  <2>1. CASE CancelCall /\ consumer # "absent" /\ consumer' \in {consumer, "left"}
      BY <2>0, <2>1, CancelStep DEF Types
  <2>2. CASE /\ consumer' = "left" /\ consumer = "leaving"
             /\ UNCHANGED <<outer, att, cancelled, released, lease, canceller, seen>>
    <3>1. ControlInv
        BY DEF IndInv
    <3> QED
        BY <2>0, <2>2, <3>1, ControlStep DEF Types, ControlInv, outer
  <2> QED
      BY <1>7, <2>1, <2>2 DEF Cancels, ConsumerLeaves
<1>8. CASE CancelEnds
    BY <1>8, CancelEndsStep
<1>9. CASE UNCHANGED vars
  <2>1. Types /\ ControlInv
      BY DEF IndInv
  <2> QED
      BY <1>9, <2>1, ControlStep DEF Types, ControlInv, vars, outer
<1> QED
    BY <1>1, <1>2, <1>3, <1>4, <1>5, <1>6, <1>7, <1>8, <1>9 DEF Next

(* The invariant always holds.                                             *)
LEMMA Invariant == Spec => []IndInv
BY InitIsInd, NextStep, PTL DEF Spec

-----------------------------------------------------------------------------
(* What the invariant says of the request.                                 *)

(* The variables always have their types.                                  *)
THEOREM TypesCorrect == Spec => []TypeOK
<1>1. IndInv => TypeOK
  <2>1. SUFFICES ASSUME IndInv PROVE TypeOK
      OBVIOUS
  <2>2. Types
      BY <2>1 DEF IndInv
  <2>3. ASSUME NEW k \in Attempts
        PROVE  /\ att[k].job \in {"none", "running", "ended", "cancelled"}
               /\ att[k].terminal \in BOOLEAN
               /\ att[k].failure \in Failures \cup {"none"}
               /\ att[k].gate.life \in {"OPEN", "COMMITTED", "ABORTED"}
      BY <2>2, AttemptIs DEF GateType
  <2>4. ASSUME NEW i \in DOMAIN seen PROVE seen[i].kind \in Kinds
    <3>1. seen[i] \in EventType
        BY <2>2 DEF Types
    <3> QED
        BY <3>1 DEF EventType
  <2> QED
      BY <2>2, <2>3, <2>4 DEF TypeOK, Types, MaxExtra, Setup, Between, Over
<1> QED
    BY <1>1, Invariant, PTL

(* Tool calls are shown as whole batches that were committed, in the order *)
(* of the parser and with one start, whatever was staged, buffered,        *)
(* discarded and retried: RecoveringServingSession with the Tool gates of  *)
(* its attempts.                                                           *)
THEOREM BatchesCorrect == Spec => []BatchIsAtomic
<1>1. IndInv => BatchIsAtomic
  <2>1. SUFFICES ASSUME IndInv PROVE BatchIsAtomic
      OBVIOUS
  <2>2. Types /\ SeenInv
      BY <2>1 DEF IndInv
  <2>3. seen \in Seq(EventType)
      BY <2>2 DEF Types
  <2>4. Cardinality(SeenKind({"started"})) <= 1
    <3>1. CASE SeenKind({"started"}) = {}
      <4>1. Cardinality({}) = 0
          BY FS_EmptySet
      <4> QED
          BY <3>1, <4>1
    <3>2. CASE SeenKind({"started"}) # {}
      <4>1. PICK i : i \in SeenKind({"started"})
          BY <3>2
      <4>2. SeenKind({"started"}) = {i}
          BY <2>2, <4>1 DEF SeenKind, SeenInv, OneStart
      <4>3. Cardinality({i}) = 1
          BY FS_Singleton
      <4> QED
          BY <4>2, <4>3
    <3> QED
        BY <3>1, <3>2
  <2>5. ASSUME NEW i \in DOMAIN seen, seen[i].kind \in Output \cup {"completed"}
        PROVE  seen[i].att = cur
      BY <2>2, <2>5 DEF SeenInv, Owned
  <2>6. WellFormed
    <3>1. \A i \in SeenKind(Output), j \in SeenKind({"completed"}) : seen[i].att = seen[j].att
        BY <2>5 DEF SeenKind
    <3>2. \A i \in SeenKind({"tool_delta", "tool_completed"}) :
              \E j \in SeenKind({"tool_started"}) : j < i /\ seen[j].call = seen[i].call
        BY <2>2 DEF SeenKind, SeenInv, Announced
    <3> QED
        BY <2>4, <3>1, <3>2 DEF WellFormed
  <2>7. InOrder
      BY <2>2 DEF InOrder, SeenKind, SeenInv, Sorted
  <2>8. ASSUME NEW i \in SeenKind({"tool_completed"})
        PROVE  /\ att[seen[i].att].gate.life = "COMMITTED"
               /\ SeenKind({"failed", "cancelled"}) = {}
    <3>1. i \in DOMAIN seen /\ seen[i].kind = "tool_completed"
        BY <2>8 DEF SeenKind
    <3>2. ~Lacks(seen, {"tool_completed"})
        BY <3>1 DEF Lacks
    <3>3. seen[i].att = cur
        BY <2>5, <3>1 DEF Output
    <3> QED
        BY <2>2, <3>2, <3>3 DEF SeenInv, Committed, Lacks, SeenKind
  <2>9. ASSUME NEW i \in SeenKind({"tool_started", "tool_delta"})
        PROVE  \/ att[seen[i].att].gate.life = "COMMITTED"
               \/ /\ ~request.atomic
                  /\ RecoveryUnavailable \/ (\E j \in SeenKind({"text"}) : j < i)
    <3>1. i \in DOMAIN seen /\ seen[i].kind \in CallEvents
        BY <2>9 DEF SeenKind, CallEvents
    <3>2. seen[i].att = cur
        BY <2>5, <3>1 DEF Output, CallEvents
    <3>3. ~Lacks(seen, CallEvents)
        BY <3>1 DEF Lacks
    <3>4. Behind(seen, CallEvents, {"text"}) => \E j \in SeenKind({"text"}) : j < i
        BY <3>1 DEF Behind, SeenKind
    <3> QED
        BY <2>2, <3>2, <3>3, <3>4 DEF SeenInv, Committed
  <2> QED
      BY <2>6, <2>7, <2>8, <2>9 DEF BatchIsAtomic
<1> QED
    BY <1>1, Invariant, PTL

(* Another attempt reaches the runtime only while no output was shown, and *)
(* two at most do, submit()'s own retry included.                          *)
THEOREM RetriesCorrect == Spec => RetryIsInvisible
<1>1. ASSUME IndInv, IndInv', [Next]_vars
      PROVE  [started' # started => SeenKind(Output) = {} /\ started' <= 1 + MaxExtra]_vars
  <2>1. SUFFICES ASSUME started' # started
                 PROVE  SeenKind(Output) = {} /\ started' <= 1 + MaxExtra
      OBVIOUS
  <2>2. started' <= 1 + MaxExtra
      BY <1>1 DEF IndInv, ControlInv, MaxExtra
  <2>3. pc \in {"submit", "submitRetry", "factory"}
    <3>1. CASE Next
        BY <2>1, <3>1
           DEF Next, Submitting, RuntimeStep, Emit, Recovering, SubmitStarts, SubmitRefused,
               SubmitWaited, SubmitInterrupted, RuntimeStarted, RuntimeFinishes, RuntimeFails,
               RuntimeCancelled, EmitText, EmitCall, InjectText, ControllerCancels, Consume,
               Waited, FactorySubmits, FactoryRefused, FactoryReturns, Discarded, Exhausts,
               DisconnectInside, DisconnectOutside, Cancels, ConsumerLeaves, CancelCall,
               CancelEnds, outer
    <3>2. CASE UNCHANGED vars
        BY <2>1, <3>2 DEF vars, outer
    <3> QED
        BY <1>1, <3>1, <3>2
  <2>4. Lacks(seen, Output)
    <3>1. CASE pc \in {"submit", "submitRetry"}
      <4>1. seen = <<>>
          BY <1>1, <3>1 DEF IndInv, ControlInv, Setup
      <4> QED
          BY <4>1, EmptyIs
    <3>2. CASE pc = "factory"
      <4>1. pc \in Between
          BY <3>2 DEF Between
      <4>2. Lacks(seen, Output \cup {"completed"})
          BY <1>1, <4>1, BetweenIs
      <4> QED
          BY <4>2 DEF Lacks
    <3> QED
        BY <2>3, <3>1, <3>2
  <2>5. SeenKind(Output) = {}
      BY <2>4 DEF Lacks, SeenKind
  <2> QED
      BY <2>2, <2>5
<1> QED
    BY <1>1, Invariant, PTL DEF Spec, RetryIsInvisible

(* When the request is over its lease is given back and no job of it runs, *)
(* however it ended (_release_once): the safety half of NothingIsHeld.     *)
THEOREM NothingIsLeft ==
    Spec => [](released => ~lease.active /\ \A k \in Attempts : att[k].job # "running")
<1>1. IndInv => (released => ~lease.active /\ \A k \in Attempts : att[k].job # "running")
    BY DEF IndInv, ControlInv
<1> QED
    BY <1>1, Invariant, PTL

-----------------------------------------------------------------------------
(* The refinement: the consumer reads the terminal stream of one attempt.  *)

(* What is shown in one step: events of which the last alone may be        *)
(* terminal.                                                               *)
Shows(s, z) ==
    \E o \in Seq(EventType), e \in EventType : z = s \o (o \o <<e>>) /\ Lacks(o, Terminals)

(* What follows for the sequence.                                          *)
LEMMA ShowsIs ==
    ASSUME NEW s \in Seq(EventType), NEW z \in Seq(EventType), Shows(s, z), Lacks(s, Terminals)
    PROVE  /\ z # s
           /\ \A i \in DOMAIN s : i \in DOMAIN z /\ z[i] = s[i]
           /\ Len(z) \in DOMAIN z
           /\ \A i \in DOMAIN z : z[i].kind \in Terminals => i = Len(z)
<1>1. PICK o \in Seq(EventType), e \in EventType :
          z = s \o (o \o <<e>>) /\ Lacks(o, Terminals)
    BY DEF Shows
<1>2. PICK d \in Seq(EventType) : d = <<e>>
    BY SingleIs
<1>3. PICK x \in Seq(EventType) : x = o \o d
    BY JoinIs
<1>4. /\ DOMAIN d = {1} /\ Len(d) = 1
    BY <1>2
<1>5. /\ Len(o) \in Nat /\ DOMAIN x = 1..Len(o) + Len(d)
      /\ \A i \in DOMAIN x : i \in DOMAIN o \/ (i - Len(o) \in DOMAIN d /\ i > Len(o))
      /\ \A i \in DOMAIN o : x[i] = o[i]
    BY <1>3, ConcatIs
<1>6. z = s \o x
    BY <1>1, <1>2, <1>3
<1>7. /\ Len(s) \in Nat /\ DOMAIN z = 1..Len(s) + Len(x) /\ Len(x) \in Nat /\ DOMAIN x = 1..Len(x)
      /\ \A i \in DOMAIN s : i \in DOMAIN z /\ z[i] = s[i]
      /\ \A i \in DOMAIN z : \/ i \in DOMAIN s
                             \/ i - Len(s) \in DOMAIN x /\ z[i] = x[i - Len(s)] /\ i > Len(s)
    BY <1>6, ConcatIs
<1>8. Len(x) = Len(o) + 1
    BY <1>4, <1>5, <1>7
<1>9. Len(z) = Len(s) + Len(x)
  <2>1. DOMAIN z = 1..Len(z) /\ Len(z) \in Nat
      OBVIOUS
  <2> QED
      BY <1>7, <2>1
<1>10. z # s
    BY <1>5, <1>8, <1>9
<1>11. ASSUME NEW i \in DOMAIN z, z[i].kind \in Terminals
       PROVE  i = Len(z)
  <2>1. i - Len(s) \in DOMAIN x /\ z[i] = x[i - Len(s)]
      BY <1>7, <1>11 DEF Lacks
  <2>2. i - Len(s) \notin DOMAIN o
      BY <1>1, <1>5, <1>11, <2>1 DEF Lacks
  <2>3. i - Len(s) - Len(o) = 1
      BY <1>4, <1>5, <2>1, <2>2
  <2> QED
      BY <1>5, <1>7, <1>8, <1>9, <2>1, <2>3
<1> QED
    BY <1>5, <1>7, <1>8, <1>9, <1>10, <1>11

(* One event, or a last one behind others.                                 *)
LEMMA ShowsOne ==
    ASSUME NEW s \in Seq(EventType), NEW e \in EventType
    PROVE  Shows(s, s \o <<e>>) /\ Append(s, e) = s \o <<e>>
<1>1. PICK o \in Seq(EventType) : o = <<>>
    BY EmptyIs
<1>2. Lacks(o, Terminals)
    BY <1>1, EmptyIs
<1>3. PICK d \in Seq(EventType) : d = <<e>>
    BY SingleIs
<1>4. o \o d = d
    BY <1>1, <1>3, JoinEmpty
<1>5. s \o <<e>> = s \o (o \o <<e>>)
    BY <1>3, <1>4
<1> QED
    BY <1>2, <1>5, AppendIsConcat DEF Shows

(* A batch and the event behind it are shown in one go.                    *)
LEMMA ShowsMany ==
    ASSUME NEW s \in Seq(EventType), NEW o \in Seq(EventType), NEW e \in EventType,
           Lacks(o, Terminals)
    PROVE  Shows(s, s \o (o \o <<e>>))
BY DEF Shows

(* What is drained at the end ends no request.                             *)
LEMMA DrainLacks ==
    ASSUME Types, StageInv, ~RecoveryUnavailable, NEW e \in EventType
    PROVE  Shows(seen, seen \o (DrainAtEnd \o <<e>>))
<1>1. DrainAtEnd \in Seq(EventType) /\ Only(DrainAtEnd, {"usage"})
    BY DrainAtEndIs
<1>2. {"usage"} \cap Terminals = {}
    BY DEF Terminals
<1>3. Lacks(DrainAtEnd, Terminals)
    BY <1>1, <1>2, LacksLess
<1>4. seen \in Seq(EventType)
    BY DEF Types
<1> QED
    BY <1>1, <1>3, <1>4, ShowsMany

(* A terminal event of the outer session's own making.                     *)
LEMMA OwnEnd ==
    ASSUME IndInv, cur \in Attempts, ~RecoveryUnavailable, NEW kind \in {"failed", "cancelled"},
           YieldsTerminal(DrainAtEnd \o <<Plain(kind, cur)>>)
    PROVE  Shows(seen, seen')
<1>1. Types /\ StageInv
    BY DEF IndInv
<1>2. PICK u : u = Plain(kind, cur)
    OBVIOUS
<1>3. u \in EventType
    BY <1>1, <1>2, EventIs DEF Kinds, Terminals
<1>4. seen' = seen \o (DrainAtEnd \o <<u>>)
    BY <1>2 DEF YieldsTerminal
<1> QED
    BY <1>1, <1>3, <1>4, DrainLacks

(* What the outer session shows of the event it takes.                     *)
LEMMA ConsumeShows ==
    ASSUME IndInv, Consume, seen' # seen
    PROVE  Shows(seen, seen') /\ pc' \in {"run", "yielded"} \cup Between
<1>0. Types /\ StageInv /\ pc = "run"
    BY DEF IndInv, Consume
<1>1. PICK a : a = att[cur]
    OBVIOUS
<1>2. PICK e : e = Head(a.pending)
    OBVIOUS
<1>3. PICK t : t = Tail(a.pending)
    OBVIOUS
<1>4. Takes(a, e, t)
    BY <1>1, <1>2, <1>3 DEF Takes, Consume
<1>5. IF RecoveryUnavailable THEN PassOn(e)
      ELSE IF request.visibility = "buffered" THEN Buffer(e) ELSE Stream(e)
    BY <1>1, <1>2 DEF Consume
<1>6. e \in EventType /\ cur \in Attempts
    BY <1>0, <1>4, HeadIs
<1>7. seen \in Seq(EventType) /\ staged \in Seq(EventType) /\ Lacks(staged, Terminals)
    BY <1>0 DEF Types, StageInv
<1>8. CASE YieldsTerminal(<<e>>) \/ (UNCHANGED pc /\ seen' = Append(seen, e))
  <2>1. seen' = seen \o <<e>> /\ pc' \in {"run", "yielded"}
      BY <1>0, <1>6, <1>7, <1>8, ShowsOne DEF YieldsTerminal
  <2> QED
      BY <1>6, <1>7, <2>1, ShowsOne
<1>9. ASSUME ~RecoveryUnavailable, RetryOrFail(e, att[cur].failure)
      PROVE  Shows(seen, seen') /\ pc' \in {"run", "yielded"} \cup Between
  <2>1. \/ YieldsTerminal(DrainAtEnd \o <<e>>)
        \/ YieldsTerminal(DrainAtEnd \o <<Plain("cancelled", cur)>>)
      BY <1>9 DEF RetryOrFail
  <2>2. pc' = "yielded"
      BY <2>1 DEF YieldsTerminal
  <2>3. CASE YieldsTerminal(DrainAtEnd \o <<e>>)
      BY <1>0, <1>6, <1>9, <2>2, <2>3, DrainLacks DEF YieldsTerminal
  <2>4. CASE YieldsTerminal(DrainAtEnd \o <<Plain("cancelled", cur)>>)
      BY <1>6, <1>9, <2>2, <2>4, OwnEnd
  <2> QED
      BY <2>1, <2>3, <2>4
<1>10. CASE RecoveryUnavailable
    BY <1>5, <1>8, <1>10 DEF PassOn
<1>11. CASE ~RecoveryUnavailable /\ request.visibility = "buffered"
  <2>1. Buffer(e)
      BY <1>5, <1>11
  <2>2. CASE YieldsTerminal(Append(staged, e))
    <3>1. pc' = "yielded" /\ seen' = seen \o Append(staged, e)
        BY <2>2 DEF YieldsTerminal
    <3>2. Append(staged, e) = staged \o <<e>>
        BY <1>6, <1>7, AppendIsConcat
    <3>3. Shows(seen, seen \o (staged \o <<e>>))
        BY <1>6, <1>7, ShowsMany
    <3> QED
        BY <3>1, <3>2, <3>3
  <2> QED
      BY <1>8, <1>9, <1>11, <2>1, <2>2 DEF Buffer
<1>12. CASE ~RecoveryUnavailable /\ request.visibility # "buffered"
  <2>1. Stream(e)
      BY <1>5, <1>12
  <2>2. CASE YieldsTerminal(DrainAtEnd \o <<e>>)
      BY <1>0, <1>6, <1>12, <2>2, DrainLacks DEF YieldsTerminal
  <2>3. CASE UNCHANGED pc /\ seen' = WithStart(e)
      BY <1>8, <2>3 DEF WithStart
  <2>4. CASE UNCHANGED pc /\ seen' = seen \o Drain(staged, e.kind = "tool_completed") \o <<e>>
    <3>1. Streaming
        BY <1>0, <1>12, ModeIs DEF Buffering, Streaming, RecoveryUnavailable, RequestType, Types
    <3>2. Only(staged, CallEvents \cup {"usage"})
        BY <1>0, <3>1 DEF StageInv
    <3>3. {"usage"} \cap Terminals = {}
        BY DEF Terminals
    <3>4. /\ WithoutStagedTools(staged) \in Seq(EventType)
          /\ Lacks(WithoutStagedTools(staged), Terminals)
        BY <1>7, <3>2, <3>3, DrainIs, LacksLess
    <3>5. PICK o \in Seq(EventType) :
              o = Drain(staged, e.kind = "tool_completed") /\ Lacks(o, Terminals)
        BY <1>7, <3>4 DEF Drain
    <3>6. seen \o o \o <<e>> = seen \o (o \o <<e>>)
        BY <1>6, <1>7, RegroupOne
    <3> QED
        BY <1>0, <1>6, <1>7, <2>4, <3>5, <3>6, ShowsMany
  <2>5. CASE UNCHANGED pc /\ (seen' = Append(seen, e) \/ UNCHANGED seen)
      BY <1>8, <2>5
  <2> QED
      BY <1>9, <1>12, <2>1, <2>2, <2>3, <2>4, <2>5 DEF Stream
<1> QED
    BY <1>10, <1>11, <1>12

(* Only the outer session shows anything, to a consumer that reads.        *)
LEMMA SeenStep ==
    ASSUME IndInv, Next, seen' # seen
    PROVE  /\ Shows(seen, seen') /\ Lacks(seen, Terminals)
           /\ consumer = "reading" /\ consumer' = "reading"
           /\ pc \notin Setup /\ pc' \notin Setup
<1>0. StageInv
    BY DEF IndInv
<1>1. \/ Consume \/ (\E r \in {"ready", "failed", "closed", "deadline"} : Waited(r))
      \/ (\E ran \in BOOLEAN : FactoryRefused(ran)) \/ Discarded
    BY DEF Next, Submitting, RuntimeStep, Emit, Recovering, SubmitStarts, SubmitRefused,
           SubmitWaited, SubmitInterrupted, RuntimeStarted, RuntimeFinishes, RuntimeFails,
           RuntimeCancelled, EmitText, EmitCall, InjectText, ControllerCancels,
           FactorySubmits, FactoryReturns, Exhausts,
           DisconnectInside, DisconnectOutside, Cancels, ConsumerLeaves, CancelCall,
           CancelEnds, outer
<1>2. CASE Consume
    BY <1>0, <1>2, ConsumeShows DEF Consume, StageInv, Over, Setup, Between
<1>3. CASE (\E r \in {"ready", "failed", "closed", "deadline"} : Waited(r))
           \/ (\E ran \in BOOLEAN : FactoryRefused(ran)) \/ Discarded
  <2>1. /\ consumer = "reading" /\ UNCHANGED consumer /\ pc \in Between
        /\ \/ YieldsTerminal(DrainAtEnd \o <<Plain("cancelled", cur)>>)
           \/ YieldsTerminal(DrainAtEnd \o <<Plain("failed", cur)>>)
      BY <1>3 DEF Waited, FactoryRefused, Discarded, Between
  <2>2. cur \in Attempts /\ ~RecoveryUnavailable
      BY <2>1, BetweenIs
  <2>3. Shows(seen, seen')
      BY <2>1, <2>2, OwnEnd
  <2>4. pc' = "yielded"
      BY <2>1 DEF YieldsTerminal
  <2> QED
      BY <1>0, <2>1, <2>3, <2>4 DEF StageInv, Over, Setup, Between
<1> QED
    BY <1>1, <1>2, <1>3

(* A consumer that has left, or was never given the session, stays away.   *)
LEMMA AwayStep ==
    ASSUME IndInv, Next
    PROVE  /\ consumer \in {"leaving", "left"} => consumer' \in {"leaving", "left"}
           /\ pc = "rejected" => pc' = "rejected"
<1>1. /\ pc \in Setup => consumer = "absent"
      /\ consumer = "absent" => pc \in Setup
      /\ pc \in Setup => canceller = 0
    BY DEF IndInv, ControlInv
<1>2. consumer \in {"leaving", "left"} => consumer' \in {"leaving", "left"}
    BY <1>1
       DEF Next, Submitting, RuntimeStep, Emit, Recovering, SubmitStarts, SubmitRefused,
           SubmitWaited, SubmitInterrupted, RuntimeStarted, RuntimeFinishes, RuntimeFails,
           RuntimeCancelled, EmitText, EmitCall, InjectText, ControllerCancels, Consume, Waited,
           FactorySubmits, FactoryRefused, FactoryReturns, Discarded, Exhausts,
           DisconnectInside, DisconnectOutside, Cancels, ConsumerLeaves, CancelCall,
           CancelEnds, Setup
<1>3. pc = "rejected" => pc' = "rejected"
    BY <1>1
       DEF Next, Submitting, RuntimeStep, Emit, Recovering, SubmitStarts, SubmitRefused,
           SubmitWaited, SubmitInterrupted, RuntimeStarted, RuntimeFinishes, RuntimeFails,
           RuntimeCancelled, EmitText, EmitCall, InjectText, ControllerCancels, Consume, Waited,
           FactorySubmits, FactoryRefused, FactoryReturns, Discarded, Exhausts, Awaiting, CanEmit,
           DisconnectInside, DisconnectOutside, Cancels, ConsumerLeaves, CancelCall,
           CancelEnds, outer, Setup
<1> QED
    BY <1>2, <1>3

(* The outer session implements the stream of one attempt: at most one     *)
(* terminal event, behind which nothing is shown, output of one source,    *)
(* and nothing for a consumer that left.                                   *)
THEOREM StreamCorrect == Spec => Single!Safety
<1> DEFINE View(s) == [i \in DOMAIN s |-> [kind |-> s[i].kind, source |-> s[i].att]]
<1>1. Init => Single!Init
  <2>1. SUFFICES ASSUME Init PROVE Single!Init
      OBVIOUS
  <2>2. seen = <<>> /\ DOMAIN seen = {}
      BY <2>1 DEF Init
  <2>3. View(seen) = <<>>
      BY <2>2
  <2>4. SeenKind(Terminals) = {}
      BY <2>2 DEF SeenKind
  <2>5. Reader = "reading"
      BY <2>1, <2>4 DEF Init, Reader
  <2> QED
      BY <2>3, <2>5 DEF Single!Init
<1>2. ASSUME IndInv, IndInv', [Next]_vars
      PROVE  [Single!Next]_(Single!vars)
  <2>1. CASE UNCHANGED vars
      BY <2>1 DEF vars, outer, Single!vars, Reader, SeenKind
  <2>2. CASE Next /\ seen' = seen
    <3>1. SeenKind(Terminals)' = SeenKind(Terminals)
        BY <2>2 DEF SeenKind
    <3>2. View(seen)' = View(seen)
        BY <2>2
    <3>3. \/ Reader' = Reader
          \/ Reader = "reading" /\ Reader' = "left"
        BY <1>2, <2>2, <3>1, AwayStep DEF Reader
    <3> QED
        BY <3>2, <3>3 DEF Single!Next, Single!Leave, Single!vars
  <2>3. CASE Next /\ seen' # seen
    <3>1. /\ Shows(seen, seen') /\ Lacks(seen, Terminals)
          /\ consumer = "reading" /\ consumer' = "reading"
          /\ pc \notin Setup /\ pc' \notin Setup
        BY <1>2, <2>3, SeenStep
    <3>2. seen \in Seq(EventType) /\ seen' \in Seq(EventType) /\ Owned(seen', cur')
        BY <1>2 DEF IndInv, Types, SeenInv
    <3>3. PICK z \in Seq(EventType) : z = seen'
        BY <3>2
    <3>4. /\ \A i \in DOMAIN seen : i \in DOMAIN z /\ z[i] = seen[i]
          /\ Len(z) \in DOMAIN z
          /\ \A i \in DOMAIN z : z[i].kind \in Terminals => i = Len(z)
          /\ z # seen
        BY <3>1, <3>2, <3>3, ShowsIs
    <3>5. Reader = "reading"
        BY <3>1 DEF Reader, SeenKind, Lacks, Setup
    <3>6. PICK v : v = View(seen)
        OBVIOUS
    <3>7. PICK w : w = View(z)
        OBVIOUS
    <3>8. /\ DOMAIN v = DOMAIN seen /\ DOMAIN w = DOMAIN z
          /\ \A i \in DOMAIN seen : v[i] = [kind |-> seen[i].kind, source |-> seen[i].att]
          /\ \A i \in DOMAIN z : w[i] = [kind |-> z[i].kind, source |-> z[i].att]
        BY <3>6, <3>7
    <3>9. Len(w) = Len(z)
      <4>1. DOMAIN z = 1..Len(z) /\ Len(z) \in Nat
          OBVIOUS
      <4> QED
          BY <3>8, <4>1
    <3>10. DOMAIN z # DOMAIN seen
      <4>1. ASSUME DOMAIN z = DOMAIN seen PROVE FALSE
        <5>1. Len(z) = Len(seen)
            BY <3>2, <4>1
        <5> QED
            BY <3>2, <3>4, <5>1, SeqEqual
      <4> QED
          BY <4>1
    <3>11. Single!OneSource(w)
        BY <3>2, <3>3, <3>8 DEF Single!OneSource, Single!OfKind, Owned
    <3>12. /\ \A i \in DOMAIN v : i \in DOMAIN w /\ w[i] = v[i]
           /\ w # v
        BY <3>4, <3>8, <3>10
    <3>13. /\ View(seen)' = w
           /\ View(seen) = v
        BY <3>3, <3>6, <3>7
    <3>14. Single!Given
        BY <3>5, <3>11, <3>12, <3>13 DEF Single!Given
    <3>15. CASE Lacks(z, Terminals)
      <4>1. Reader' = "reading"
          BY <3>1, <3>3, <3>15 DEF Reader, SeenKind, Lacks, Setup
      <4>2. Single!OfKind(w, Terminals) = {}
          BY <3>8, <3>15 DEF Single!OfKind, Lacks
      <4> QED
          BY <3>5, <3>13, <3>14, <4>1, <4>2 DEF Single!Next, Single!Continue
    <3>16. CASE ~Lacks(z, Terminals)
      <4>1. Reader' = "ended"
          BY <3>3, <3>16 DEF Reader, SeenKind, Lacks
      <4>2. Single!OfKind(w, Terminals) = {Len(w)}
          BY <3>4, <3>8, <3>9, <3>16 DEF Single!OfKind, Lacks
      <4> QED
          BY <3>13, <3>14, <4>1, <4>2 DEF Single!Next, Single!End
    <3> QED
        BY <3>15, <3>16
  <2> QED
      BY <1>2, <2>1, <2>2, <2>3
<1> QED
    BY <1>1, <1>2, Invariant, PTL DEF Spec, Single!Safety
=============================================================================
