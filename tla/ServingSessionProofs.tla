------------------------ MODULE ServingSessionProofs ------------------------
(***************************************************************************)
(* Proofs about ServingSession, for every set of policies and calls, any   *)
(* fan-out limit and any number of deltas.                                 *)
(*                                                                         *)
(* A step of the module is a whole handler, an operator from session to    *)
(* session.  The argument goes the same way: Sound says what is true of a  *)
(* session whose events are still being processed (Live) or which has its  *)
(* terminal event (Done), Follows what a handler may do to the queue, and  *)
(* there is one lemma for each operator the handlers are composed of.      *)
(***************************************************************************)
EXTENDS ServingSession, SequenceTheorems, TLAPS

SessionKinds == SemanticKinds \cup Terminals \cup {"started", "usage"}
EventType ==
    [kind : SessionKinds, call : Calls \cup {NoCall}, verdict : Verdicts \cup Errors]
GateType ==
    [atomic : BOOLEAN, accepted : SUBSET Calls, completed : Seq(Calls),
     buffered : Seq(EventType), life : {"OPEN", "COMMITTED", "ABORTED"}]
EvidenceType ==
    [owner : {"none", "lifecycle", "runtime"}, origin : Lifecycle \cup {"none"},
     rfail : Errors, rcancel : BOOLEAN, stop : StopReasons \cup {"none"},
     cfail : {"none", "final"}, pfail : {"none", "final"}, sfail : {"none", "final"},
     ufail : {"none", "final"}]
DecisionType ==
    [disp : {"none", "failure", "cancellation", "success"}, owner : Owners, err : Errors]
OutputType == [text : BOOLEAN, call : Calls \cup {NoCall}, verdict : Verdicts]
SessionType ==
    [gate : GateType, pending : Seq(EventType), commit : CommitClasses, ev : EvidenceType,
     decision : DecisionType, terminal : BOOLEAN, finished : BOOLEAN,
     deferred : OutputType, proven : BOOLEAN, fed : BOOLEAN, stop : BOOLEAN]
Reasons ==
    Lifecycle \cup {"none", "completed", "runtime_failed", "runtime_cancelled",
                    "application_cancelled"}
ControlType == [reason : Reasons, over : BOOLEAN, asked : BOOLEAN]

-----------------------------------------------------------------------------
(* What is true of a session between the operators of a handler: c is the  *)
(* controlled session, q what the reader was given, b whether nothing had  *)
(* been committed when the step began.                                     *)

Lacks(z, kinds) == \A i \in DOMAIN z : z[i].kind \notin kinds

(* Who ended the generation is what the controlled session recorded.       *)
Witnessed(ev, c) ==
    /\ ev.origin # "none" => ev.origin = c.reason
    /\ ev.owner = "lifecycle" => ev.origin # "none"
    /\ ev.owner = "runtime" => c.over /\ c.reason \notin Lifecycle
    /\ ev.stop # "none" => c.over

(* Nothing else claimed the end that a client, a deadline or the server    *)
(* asked for.                                                              *)
Recorded(ev, c) == c.reason \in Lifecycle => ev.owner = "lifecycle"

(* Nothing was found wrong with the output.                                *)
Clean(ev) == /\ ev.cfail = "none" /\ ev.pfail = "none"
             /\ ev.sfail = "none" /\ ev.ufail = "none"

(* The buffer of the gate holds every completed call, in order.            *)
GateOk(g) ==
    /\ g.life = "OPEN" => Completes(g.buffered, g.completed)
    /\ g.life # "OPEN" => g.buffered = <<>>
    /\ Lacks(g.buffered, SessionKinds \ SemanticKinds)

Live(t, c, q, b) ==
    /\ ~t.stop /\ t.decision = NoDecision
    /\ Clean(t.ev)
    /\ Lacks(q \o t.pending, Terminals \cup {"tool_completed"})
    /\ t.gate.life # "COMMITTED" /\ GateOk(t.gate)
    /\ t.commit = "none" => Lacks(q \o t.pending, SemanticKinds) /\ b
    /\ t.ev.rfail = "retry" => b

(* The terminal event is the last one and tells the decision.              *)
Told(z, d, b) ==
    /\ OfKind(z, Terminals) = {Len(z)}
    /\ z[Len(z)].kind = CASE d.disp = "success" -> "completed"
                          [] d.disp = "failure" -> "failed"
                          [] OTHER -> "cancelled"
    /\ z[Len(z)].kind = "failed" /\ z[Len(z)].verdict = "retry" => b

(* A decision against the runtime or the output holds against late         *)
(* reasons: the runtime has ended or is asked to stop.                     *)
Halted(t, c) ==
    t.decision.owner \notin {"lifecycle", "unknown"} => t.stop \/ c.over \/ c.asked

Done(t, c, q, b) ==
    /\ Told(q \o t.pending, t.decision, b)
    /\ t.decision.disp # "none"
    /\ t.decision.owner = "lifecycle" => t.ev.owner = "lifecycle"
    /\ t.decision.owner \notin {"lifecycle", "unknown"} => c.reason \notin Lifecycle
    /\ t.decision.disp = "success" => Completes(q \o t.pending, t.gate.completed)
    /\ t.decision.disp # "success" => Lacks(q \o t.pending, {"tool_completed"})

Sound(t, c, q, b) ==
    /\ t \in SessionType
    /\ Witnessed(t.ev, c)
    /\ ~t.terminal => Live(t, c, q, b)
    /\ t.terminal => Done(t, c, q, b) /\ Halted(t, c)

(* What a handler does to the queue: it only grows, by no output of the    *)
(* model once the batch was aborted.                                       *)
Follows(t, u) ==
    /\ \A i \in DOMAIN t.pending : i \in DOMAIN u.pending /\ u.pending[i] = t.pending[i]
    /\ t.gate.life = "ABORTED" =>
          /\ u.gate.life = "ABORTED"
          /\ \A i \in DOMAIN u.pending \ DOMAIN t.pending :
                u.pending[i].kind \notin SemanticKinds
    /\ ~u.terminal => u.ev = t.ev /\ u.gate.life = t.gate.life /\ ~t.terminal

(* What every operator of a handler does.                                  *)
Goes(t, u, c, q, b) == Sound(u, c, q, b) /\ Follows(t, u)

(* The inductive invariant.                                                *)
RuntimeKinds == {"started", "delta", "finished", "failed", "cancelled", "ended", "raised"}
Waiting == {"timed", "plain", "window", "expired"}

RuntimeEvent(e) ==
    /\ e.kind \in RuntimeKinds
    /\ e.kind = "finished" => e.verdict \in StopReasons
    /\ e.kind = "failed" => e.verdict \in {"retry", "final"}

Types ==
    /\ seen \in Seq(EventType)
    /\ ctl \in ControlType
    /\ job \in {"running", "cancelled", "ended"}
    /\ n \in 0..MaxDeltas
    /\ policy \in Policies
    /\ reader \in Waiting \cup {"out", "stop", "done", "gone"}
    /\ canceller \in {"idle", "waiting", "done"}

ControlInv ==
    /\ ctl.asked => ctl.reason # "none"
    /\ ctl.reason # "none" => ctl.asked \/ ctl.over
    /\ ~s.terminal /\ ctl.asked /\ ~ctl.over => ctl.reason \in Lifecycle
    /\ ~s.terminal /\ s.gate.life = "ABORTED" => ctl.asked \/ ctl.over
    /\ ctl.asked \/ ctl.over => job # "running"
    /\ reader \in Waiting => ~s.terminal /\ ~ctl.over /\ s.pending = <<>>
    /\ reader = "expired" => ctl.asked
    /\ reader = "window" =>
          /\ RuntimeEvent(got)
          /\ got.kind \notin {"started", "delta"} => job # "running"

IndInv ==
    /\ Types
    /\ ControlInv
    /\ Sound(s, ctl, seen, TRUE)
    /\ ~s.stop
    /\ ~s.terminal => s.ev.rfail # "retry"

-----------------------------------------------------------------------------
(* Sequences of events.                                                    *)

(* The elements of two sequences put together.                             *)
LEMMA ConcatIs ==
    ASSUME NEW w \in Seq(EventType), NEW z \in Seq(EventType)
    PROVE  /\ w \o z \in Seq(EventType) /\ Len(w \o z) = Len(w) + Len(z)
           /\ \A i \in DOMAIN w : i \in DOMAIN (w \o z) /\ (w \o z)[i] = w[i]
           /\ \A i \in DOMAIN z : Len(w) + i \in DOMAIN (w \o z)
                                  /\ (w \o z)[Len(w) + i] = z[i]
           /\ \A i \in DOMAIN (w \o z) :
                 \/ i \in DOMAIN w
                 \/ i - Len(w) \in DOMAIN z /\ (w \o z)[i] = z[i - Len(w)]
BY ConcatProperties

(* Three of them are put together in either order.                         *)
Regroups(w, z, y) == w \o (z \o y) = (w \o z) \o y

(* As a fact about three given sequences.                                  *)
LEMMA RegroupsIs ==
    ASSUME NEW w \in Seq(EventType), NEW z \in Seq(EventType), NEW y \in Seq(EventType)
    PROVE  Regroups(w, z, y)
BY ConcatAssociative, SMTT(60) DEF Regroups

(* Nor has the whole a kind that neither part has.                         *)
LEMMA ConcatLacks ==
    ASSUME NEW w \in Seq(EventType), NEW z \in Seq(EventType), NEW K
    PROVE  Lacks(w \o z, K) <=> Lacks(w, K) /\ Lacks(z, K)
<1> DEFINE u == w \o z
<1>1. /\ \A i \in DOMAIN w : i \in DOMAIN u /\ u[i] = w[i]
      /\ \A i \in DOMAIN z : Len(w) + i \in DOMAIN u /\ u[Len(w) + i] = z[i]
      /\ \A i \in DOMAIN u : \/ i \in DOMAIN w /\ u[i] = w[i]
                             \/ i - Len(w) \in DOMAIN z /\ u[i] = z[i - Len(w)]
    BY ConcatIs
<1> HIDE DEF u
<1>2. Lacks(u, K) <=> Lacks(w, K) /\ Lacks(z, K)
    BY <1>1 DEF Lacks
<1> QED
    BY <1>2 DEF u

(* One event is queued behind what was queued.                             *)
LEMMA AppendIs ==
    ASSUME NEW z \in Seq(EventType), NEW e \in EventType
    PROVE  /\ Append(z, e) = z \o <<e>> /\ <<e>> \in Seq(EventType)
           /\ Append(z, e) \in Seq(EventType) /\ Len(Append(z, e)) = Len(z) + 1
           /\ DOMAIN Append(z, e) = DOMAIN z \cup {Len(z) + 1}
           /\ Len(z) + 1 \notin DOMAIN z
           /\ \A i \in DOMAIN z : Append(z, e)[i] = z[i]
           /\ Append(z, e)[Len(z) + 1] = e
<1>1. Append(z, e) = z \o <<e>> /\ <<e>> \in Seq(EventType)
    OBVIOUS
<1>2. Append(z, e) \in Seq(EventType) /\ Len(Append(z, e)) = Len(z) + 1
    OBVIOUS
<1>3. DOMAIN Append(z, e) = DOMAIN z \cup {Len(z) + 1} /\ Len(z) + 1 \notin DOMAIN z
    OBVIOUS
<1>4. (\A i \in DOMAIN z : Append(z, e)[i] = z[i]) /\ Append(z, e)[Len(z) + 1] = e
    OBVIOUS
<1> QED
    BY <1>1, <1>2, <1>3, <1>4

(* Nor has a queue with one more event.                                    *)
LEMMA AppendLacks ==
    ASSUME NEW z \in Seq(EventType), NEW e \in EventType, NEW K
    PROVE  Lacks(Append(z, e), K) <=> Lacks(z, K) /\ e.kind \notin K
<1> DEFINE y == Append(z, e)
<1>1. /\ DOMAIN y = DOMAIN z \cup {Len(z) + 1}
      /\ \A i \in DOMAIN z : y[i] = z[i]
      /\ y[Len(z) + 1] = e
    BY AppendIs
<1> HIDE DEF y
<1>2. Lacks(y, K) <=> Lacks(z, K) /\ e.kind \notin K
    BY <1>1 DEF Lacks
<1> QED
    BY <1>2 DEF y

(* The whole queue grows as the pending events do.                         *)
LEMMA AppendJoin ==
    ASSUME NEW w \in Seq(EventType), NEW z \in Seq(EventType), NEW e \in EventType
    PROVE  w \o Append(z, e) = Append(w \o z, e) /\ w \o z \in Seq(EventType)
<1>1. w \o (z \o <<e>>) = (w \o z) \o <<e>>
    BY AppendIs, ConcatAssociative
<1>2. w \o z \in Seq(EventType)
    BY ConcatIs
<1> QED
    BY <1>1, <1>2, AppendIs

(* A sequence that lacks some kinds lacks any of them.                     *)
LEMMA LacksLess ==
    ASSUME NEW z, NEW K, Lacks(z, K)
    PROVE  \A M : M \subseteq K => Lacks(z, M)
BY DEF Lacks

(* An event that does not complete a call leaves the calls as they are.    *)
LEMMA CompletesKept ==
    ASSUME NEW z \in Seq(EventType), NEW c \in Seq(Calls), NEW e \in EventType,
           Completes(z, c), e.kind # "tool_completed"
    PROVE  Completes(Append(z, e), c)
<1>1. PICK at \in [DOMAIN c -> DOMAIN z] :
        /\ \A i, j \in DOMAIN c : i < j => at[i] < at[j]
        /\ {at[i] : i \in DOMAIN c} = OfKind(z, {"tool_completed"})
        /\ \A i \in DOMAIN c : z[at[i]].call = c[i]
    BY DEF Completes
<1> DEFINE y == Append(z, e)
<1>2. /\ DOMAIN y = DOMAIN z \cup {Len(z) + 1} /\ Len(z) + 1 \notin DOMAIN z
      /\ \A i \in DOMAIN z : y[i] = z[i]
      /\ y[Len(z) + 1] = e
    BY AppendIs
<1> HIDE DEF y
<1>3. at \in [DOMAIN c -> DOMAIN y]
    BY <1>2
<1>4. OfKind(y, {"tool_completed"}) = OfKind(z, {"tool_completed"})
    BY <1>2 DEF OfKind
<1>5. \A i \in DOMAIN c : y[at[i]].call = c[i]
    BY <1>1, <1>2
<1>6. Completes(y, c)
    BY <1>1, <1>3, <1>4, <1>5 DEF Completes
<1> QED
    BY <1>6 DEF y

(* One that does adds its call.                                            *)
LEMMA CompletesMore ==
    ASSUME NEW z \in Seq(EventType), NEW c \in Seq(Calls), NEW e \in EventType,
           Completes(z, c), e.kind = "tool_completed"
    PROVE  Completes(Append(z, e), Append(c, e.call))
<1>1. PICK at \in [DOMAIN c -> DOMAIN z] :
        /\ \A i, j \in DOMAIN c : i < j => at[i] < at[j]
        /\ {at[i] : i \in DOMAIN c} = OfKind(z, {"tool_completed"})
        /\ \A i \in DOMAIN c : z[at[i]].call = c[i]
    BY DEF Completes
<1> DEFINE y == Append(z, e)
           d == Append(c, e.call)
           to == [i \in DOMAIN d |-> IF i \in DOMAIN c THEN at[i] ELSE Len(z) + 1]
<1>2. /\ DOMAIN y = DOMAIN z \cup {Len(z) + 1} /\ Len(z) + 1 \notin DOMAIN z
      /\ \A i \in DOMAIN z : y[i] = z[i] /\ i < Len(z) + 1
      /\ y[Len(z) + 1] = e
    BY AppendIs
<1>3. /\ DOMAIN d = DOMAIN c \cup {Len(c) + 1} /\ Len(c) + 1 \notin DOMAIN c
      /\ \A i \in DOMAIN c : d[i] = c[i] /\ i < Len(c) + 1
      /\ d[Len(c) + 1] = e.call
      /\ DOMAIN c \subseteq Nat
    OBVIOUS
<1> HIDE DEF y, d
<1>4. to \in [DOMAIN d -> DOMAIN y]
    BY <1>1, <1>2, <1>3
<1>5. /\ \A i \in DOMAIN c : to[i] = at[i]
      /\ to[Len(c) + 1] = Len(z) + 1
    BY <1>3
<1> HIDE DEF to
<1>6. \A i, j \in DOMAIN d : i < j => to[i] < to[j]
  <2>1. ASSUME NEW i \in DOMAIN d, NEW j \in DOMAIN d, i < j PROVE to[i] < to[j]
    <3>1. i \in DOMAIN c
        BY <1>3, <2>1
    <3>2. CASE j \in DOMAIN c
        BY <1>1, <1>5, <2>1, <3>1, <3>2
    <3>3. CASE j = Len(c) + 1
      <4>1. at[i] \in DOMAIN z
          BY <1>1, <3>1
      <4> QED
          BY <1>2, <1>5, <3>1, <3>3, <4>1
    <3> QED
        BY <1>3, <3>2, <3>3
  <2> QED
      BY <2>1
<1>7. {to[i] : i \in DOMAIN d} = OfKind(y, {"tool_completed"})
  <2>1. OfKind(y, {"tool_completed"}) = OfKind(z, {"tool_completed"}) \cup {Len(z) + 1}
      BY <1>2 DEF OfKind
  <2>2. {to[i] : i \in DOMAIN d} = {at[i] : i \in DOMAIN c} \cup {Len(z) + 1}
      BY <1>3, <1>5, SMTT(60)
  <2> QED
      BY <1>1, <2>1, <2>2
<1>8. \A i \in DOMAIN d : y[to[i]].call = d[i]
    BY <1>1, <1>2, <1>3, <1>5
<1>9. Completes(y, d)
    BY <1>4, <1>6, <1>7, <1>8 DEF Completes
<1> QED
    BY <1>9 DEF y, d

(* A batch that is taken out of the buffer behind a queue without calls.   *)
LEMMA CompletesJoin ==
    ASSUME NEW w \in Seq(EventType), NEW z \in Seq(EventType), NEW c \in Seq(Calls),
           Lacks(w, {"tool_completed"}), Completes(z, c)
    PROVE  Completes(w \o z, c)
<1>1. PICK at \in [DOMAIN c -> DOMAIN z] :
        /\ \A i, j \in DOMAIN c : i < j => at[i] < at[j]
        /\ {at[i] : i \in DOMAIN c} = OfKind(z, {"tool_completed"})
        /\ \A i \in DOMAIN c : z[at[i]].call = c[i]
    BY DEF Completes
<1> DEFINE y == w \o z
           to == [i \in DOMAIN c |-> Len(w) + at[i]]
<1>2. /\ \A i \in DOMAIN w : i \in DOMAIN y /\ y[i] = w[i]
      /\ \A i \in DOMAIN z : Len(w) + i \in DOMAIN y /\ y[Len(w) + i] = z[i]
      /\ \A i \in DOMAIN y : \/ i \in DOMAIN w
                             \/ i - Len(w) \in DOMAIN z /\ y[i] = z[i - Len(w)]
      /\ DOMAIN y \subseteq Nat /\ DOMAIN z \subseteq Nat /\ Len(w) \in Nat
    BY ConcatIs, SMTT(60)
<1> HIDE DEF y
<1>3. to \in [DOMAIN c -> DOMAIN y]
    BY <1>2
<1>4. \A i \in DOMAIN c : to[i] = Len(w) + at[i] /\ at[i] \in DOMAIN z
    OBVIOUS
<1> HIDE DEF to
<1>5. \A i, j \in DOMAIN c : i < j => to[i] < to[j]
    BY <1>1, <1>2, <1>4
<1>6. {to[i] : i \in DOMAIN c} = OfKind(y, {"tool_completed"})
  <2>1. ASSUME NEW i \in DOMAIN c PROVE to[i] \in OfKind(y, {"tool_completed"})
    <3>1. at[i] \in OfKind(z, {"tool_completed"})
        BY <1>1, <2>1
    <3> QED
        BY <1>2, <1>4, <3>1 DEF OfKind
  <2>2. ASSUME NEW k \in OfKind(y, {"tool_completed"})
        PROVE  \E i \in DOMAIN c : k = to[i]
    <3>1. k \in DOMAIN y /\ y[k].kind = "tool_completed"
        BY <2>2 DEF OfKind
    <3>2. k \notin DOMAIN w
        BY <1>2, <3>1 DEF Lacks
    <3>3. k - Len(w) \in OfKind(z, {"tool_completed"})
        BY <1>2, <3>1, <3>2 DEF OfKind
    <3>4. PICK i \in DOMAIN c : at[i] = k - Len(w)
        BY <1>1, <3>3
    <3> QED
        BY <1>2, <1>4, <3>1, <3>4, SMTT(60)
  <2> QED
      BY <2>1, <2>2
<1>7. \A i \in DOMAIN c : y[to[i]].call = c[i]
    BY <1>1, <1>2, <1>4
<1>8. Completes(y, c)
    BY <1>3, <1>5, <1>6, <1>7 DEF Completes
<1> QED
    BY <1>8 DEF y

(* No event completes no call.                                             *)
LEMMA CompletesNothing == Completes(<<>>, <<>>)
<1> DEFINE none == [i \in DOMAIN <<>> |-> i]
<1>1. none \in [DOMAIN <<>> -> DOMAIN <<>>] /\ DOMAIN <<>> = {}
    OBVIOUS
<1>2. {none[i] : i \in DOMAIN <<>>} = OfKind(<<>>, {"tool_completed"})
    BY <1>1 DEF OfKind
<1> QED
    BY <1>1, <1>2 DEF Completes

-----------------------------------------------------------------------------
(* The evidence and what it decides.                                       *)

(* What record_controlled_reason leaves: the reason that counts has the    *)
(* first claim on the end.                                                 *)
LEMMA ReasonIs ==
    ASSUME NEW ev \in EvidenceType, NEW c \in ControlType, Witnessed(ev, c)
    PROVE  LET x == RecordControlledReason(ev, c.reason)
           IN  /\ x \in EvidenceType /\ Witnessed(x, c) /\ Recorded(x, c)
               /\ x.cfail = ev.cfail /\ x.pfail = ev.pfail /\ x.sfail = ev.sfail
               /\ x.ufail = ev.ufail /\ x.rfail = ev.rfail /\ x.stop = ev.stop
               /\ Recorded(ev, c) => x = ev
<1> DEFINE x == RecordControlledReason(ev, c.reason)
<1>1. CASE c.reason \notin Lifecycle
  <2>1. x = ev
      BY <1>1 DEF RecordControlledReason
  <2> QED
      BY <1>1, <2>1 DEF Recorded
<1>2. CASE c.reason \in Lifecycle
  <2>1. ev.owner \in {"none", "lifecycle"} /\ c.reason # "none"
      BY <1>2 DEF Witnessed, EvidenceType, Lifecycle
  <2>2. First(ev.origin, c.reason) = c.reason
      BY DEF Witnessed, First
  <2> DEFINE y == [ev EXCEPT !.origin = c.reason]
  <2>3. x = Claim(y, "lifecycle")
      BY <1>2, <2>2 DEF RecordControlledReason
  <2>4. x = [y EXCEPT !.owner = "lifecycle"]
    <3>1. y.owner = ev.owner
        BY DEF EvidenceType
    <3>2. y.owner = "lifecycle" => y = [y EXCEPT !.owner = "lifecycle"]
        BY DEF EvidenceType
    <3> HIDE DEF y, x
    <3> QED
        BY <2>1, <2>3, <3>1, <3>2 DEF Claim
  <2>5. x = [ev EXCEPT !.origin = c.reason, !.owner = "lifecycle"]
      BY <2>4
  <2>6. x \in EvidenceType
      BY <1>2, <2>5 DEF EvidenceType
  <2>7. /\ x.origin = c.reason /\ x.owner = "lifecycle"
        /\ x.cfail = ev.cfail /\ x.pfail = ev.pfail /\ x.sfail = ev.sfail
        /\ x.ufail = ev.ufail /\ x.rfail = ev.rfail /\ x.stop = ev.stop
      BY <2>5 DEF EvidenceType
  <2>8. Recorded(ev, c) => x = ev
    <3>1. ASSUME Recorded(ev, c) PROVE x = ev
      <4>1. ev.owner = "lifecycle" /\ ev.origin = c.reason
          BY <1>2, <3>1 DEF Recorded, Witnessed
      <4> QED
          BY <2>5, <4>1, ZenonT(60) DEF EvidenceType
    <3> QED
        BY <3>1
  <2> HIDE DEF x
  <2> QED
      BY <2>1, <2>6, <2>7, <2>8 DEF Witnessed, Recorded, x
<1> QED
    BY <1>1, <1>2

(* What a session finds itself is added without a claim.                   *)
Marks(ev, x) ==
    /\ x.owner = ev.owner /\ x.origin = ev.origin /\ x.rfail = ev.rfail
    /\ x.rcancel = ev.rcancel /\ x.stop = ev.stop

(* What the four records of a failure write down.                          *)
LEMMA MarkIs ==
    ASSUME NEW ev \in EvidenceType
    PROVE  /\ RecordConstraintFailure(ev) \in EvidenceType
           /\ RecordParserFailure(ev) \in EvidenceType
           /\ RecordSemanticFailure(ev) \in EvidenceType
           /\ RecordUnknownFailure(ev) \in EvidenceType
           /\ Marks(ev, RecordConstraintFailure(ev)) /\ Marks(ev, RecordParserFailure(ev))
           /\ Marks(ev, RecordSemanticFailure(ev)) /\ Marks(ev, RecordUnknownFailure(ev))
           /\ RecordConstraintFailure(ev).cfail = "final"
           /\ RecordConstraintFailure(ev).pfail = ev.pfail
           /\ RecordConstraintFailure(ev).sfail = ev.sfail
           /\ RecordParserFailure(ev).pfail = "final"
           /\ RecordParserFailure(ev).cfail = ev.cfail
           /\ RecordParserFailure(ev).sfail = ev.sfail
           /\ RecordSemanticFailure(ev).sfail = "final"
           /\ RecordSemanticFailure(ev).cfail = ev.cfail
           /\ RecordSemanticFailure(ev).pfail = ev.pfail
           /\ RecordUnknownFailure(ev).ufail = "final"
           /\ RecordUnknownFailure(ev).cfail = ev.cfail
           /\ RecordUnknownFailure(ev).pfail = ev.pfail
           /\ RecordUnknownFailure(ev).sfail = ev.sfail
<1>1. /\ RecordConstraintFailure(ev) = [ev EXCEPT !.cfail = "final"]
      /\ RecordParserFailure(ev) = [ev EXCEPT !.pfail = "final"]
      /\ RecordSemanticFailure(ev) = [ev EXCEPT !.sfail = "final"]
      /\ RecordUnknownFailure(ev) = [ev EXCEPT !.ufail = "final"]
    BY DEF RecordConstraintFailure, RecordParserFailure, RecordSemanticFailure,
           RecordUnknownFailure, First, EvidenceType
<1> QED
    BY <1>1 DEF EvidenceType, Marks

(* None of them changes who ended the generation.                          *)
LEMMA MarksKeep ==
    ASSUME NEW ev \in EvidenceType, NEW c \in ControlType, NEW x \in EvidenceType,
           Marks(ev, x)
    PROVE  (Witnessed(ev, c) => Witnessed(x, c)) /\ (Recorded(ev, c) => Recorded(x, c))
BY DEF Marks, Witnessed, Recorded

(* How a runtime ends is recorded once its session is over.                *)
LEMMA RuntimeIs ==
    ASSUME NEW ev \in EvidenceType, NEW c \in ControlType, Witnessed(ev, c),
           Recorded(ev, c), c.over, NEW stop \in StopReasons, NEW err \in {"retry", "final"}
    PROVE  /\ \A x \in {RecordRuntimeFinished(ev, stop), RecordRuntimeFailure(ev, err),
                        RecordRuntimeCancelled(ev)} :
                 /\ x \in EvidenceType /\ Witnessed(x, c) /\ Recorded(x, c)
                 /\ Clean(ev) => Clean(x)
           /\ RecordRuntimeFinished(ev, stop).rfail = ev.rfail
           /\ RecordRuntimeFinished(ev, stop).stop = stop
           /\ RecordRuntimeCancelled(ev).rfail = ev.rfail
           /\ RecordRuntimeFailure(ev, err).rfail \in {ev.rfail, err}
           /\ RecordRuntimeFailure(ev, err).owner # "none"
           /\ RecordRuntimeCancelled(ev).owner # "none"
<1>1. ev.owner = "none" => c.reason \notin Lifecycle
    BY DEF Recorded
<1> DEFINE x1 == RecordRuntimeFinished(ev, stop)
           x2 == RecordRuntimeFailure(ev, err)
           x3 == RecordRuntimeCancelled(ev)
<1>3. x1 = [ev EXCEPT !.stop = stop]
    BY DEF RecordRuntimeFinished
<1>4. x2 = [ev EXCEPT !.rfail = First(ev.rfail, err),
                      !.owner = IF ev.owner = "none" THEN "runtime" ELSE ev.owner]
    BY DEF RecordRuntimeFailure, Claim, EvidenceType
<1>5. x3 = [ev EXCEPT !.rcancel = TRUE,
                      !.owner = IF ev.owner = "none" THEN "runtime" ELSE ev.owner]
    BY DEF RecordRuntimeCancelled, Claim, EvidenceType
<1>6. First(ev.rfail, err) \in {ev.rfail, err} /\ First(ev.rfail, err) \in Errors
    BY DEF First, EvidenceType, Errors
<1> HIDE DEF x1, x2, x3
<1>7. x1 \in EvidenceType /\ Witnessed(x1, c) /\ Recorded(x1, c) /\ (Clean(ev) => Clean(x1))
      /\ x1.rfail = ev.rfail /\ x1.stop = stop
    BY <1>3 DEF EvidenceType, Witnessed, Recorded, Clean
<1>8. x2 \in EvidenceType /\ Witnessed(x2, c) /\ Recorded(x2, c) /\ (Clean(ev) => Clean(x2))
      /\ x2.rfail \in {ev.rfail, err} /\ x2.owner # "none"
    BY <1>1, <1>4, <1>6 DEF EvidenceType, Witnessed, Recorded, Clean
<1>9. x3 \in EvidenceType /\ Witnessed(x3, c) /\ Recorded(x3, c) /\ (Clean(ev) => Clean(x3))
      /\ x3.rfail = ev.rfail /\ x3.owner # "none"
    BY <1>1, <1>5 DEF EvidenceType, Witnessed, Recorded, Clean
<1> QED
    BY <1>7, <1>8, <1>9 DEF x1, x2, x3

(* resolve(): who ended the generation decides, and nobody who did not; a  *)
(* success has nothing against it; only the deadline and a runtime failure *)
(* tell the client to retry.                                               *)
LEMMA ResolveIs ==
    ASSUME NEW ev \in EvidenceType, NEW c \in ControlType, Witnessed(ev, c),
           Recorded(ev, c), NEW x \in {"retry", "final"}
    PROVE  LET d == Resolve(ev, x)
           IN  /\ d \in DecisionType /\ d.disp # "none"
               /\ d.owner = "lifecycle" => ev.owner = "lifecycle"
               /\ d.owner \notin {"lifecycle", "unknown"} => c.reason \notin Lifecycle
               /\ d.owner \notin {"lifecycle", "unknown"} =>
                     \/ c.over
                     \/ d.owner = "constraint" /\ ev.cfail # "none"
                     \/ d.owner = "parser" /\ ev.pfail # "none"
                     \/ d.owner = "semantic" /\ ev.sfail # "none"
               /\ d.err = "retry" => x = "retry" \/ ev.rfail = "retry"
               /\ d.disp = "success" <=>
                     /\ ev.owner = "none" /\ Clean(ev)
                     /\ ev.stop \notin {"none", "loop", "other"}
<1> DEFINE d == Resolve(ev, x)
<1>1. CASE ev.owner = "lifecycle"
  <2>1. d = IF ev.origin = "timeout" THEN Fails("lifecycle", x) ELSE Cancels("lifecycle")
      BY <1>1 DEF Resolve
  <2>2. /\ d \in DecisionType /\ d.disp \in {"failure", "cancellation"}
        /\ d.owner = "lifecycle" /\ d.err \in {x, "none"}
      BY <2>1 DEF Fails, Cancels, DecisionType, Owners, Errors
  <2> HIDE DEF d
  <2> QED
      BY <1>1, <2>2 DEF d
<1>2. CASE ev.owner = "runtime"
  <2>1. d = IF ev.rfail # "none" THEN Fails("runtime", ev.rfail) ELSE Cancels("runtime")
      BY <1>2 DEF Resolve
  <2>2. /\ d \in DecisionType /\ d.disp \in {"failure", "cancellation"}
        /\ d.owner = "runtime" /\ d.err \in {ev.rfail, "none"}
      BY <2>1 DEF Fails, Cancels, DecisionType, Owners, EvidenceType, Errors
  <2> HIDE DEF d
  <2> QED
      BY <1>2, <2>2 DEF d, Witnessed
<1>3. CASE ev.owner = "none"
  <2>1. c.reason \notin Lifecycle /\ (ev.stop # "none" => c.over)
      BY <1>3 DEF Recorded, Witnessed
  <2>2. d = CASE ev.stop = "loop" -> Fails("runtime", "final")
              [] ev.stop = "other" -> Fails("unknown", "final")
              [] OTHER ->
                    IF ev.cfail # "none" THEN Fails("constraint", ev.cfail)
                    ELSE IF ev.pfail # "none" THEN Fails("parser", ev.pfail)
                    ELSE IF ev.sfail # "none" THEN Fails("semantic", ev.sfail)
                    ELSE IF ev.ufail # "none" THEN Fails("unknown", ev.ufail)
                    ELSE IF ev.stop = "none" THEN Fails("unknown", "final")
                    ELSE Succeeds
      BY <1>3 DEF Resolve
  <2> HIDE DEF d
  <2>3. CASE ev.stop \in {"loop", "other"}
    <3>1. \/ d = Fails("runtime", "final") /\ ev.stop = "loop"
          \/ d = Fails("unknown", "final") /\ ev.stop = "other"
        BY <2>2, <2>3
    <3> QED
        BY <1>3, <2>1, <2>3, <3>1 DEF d, Fails, DecisionType, Owners, Errors
  <2>4. CASE ev.stop \notin {"loop", "other"}
    <3>1. \/ d = Fails("constraint", ev.cfail) /\ ev.cfail = "final"
          \/ d = Fails("parser", ev.pfail) /\ ev.pfail = "final"
          \/ d = Fails("semantic", ev.sfail) /\ ev.sfail = "final"
          \/ d = Fails("unknown", ev.ufail) /\ ev.ufail = "final"
          \/ d = Fails("unknown", "final") /\ ev.stop = "none"
          \/ d = Succeeds /\ Clean(ev) /\ ev.stop # "none"
        BY <2>2, <2>4 DEF EvidenceType, Clean
    <3> QED
        BY <1>3, <2>1, <2>4, <3>1
        DEF d, Fails, Succeeds, DecisionType, Owners, Errors, Clean
  <2> QED
      BY <2>3, <2>4
<1> QED
    BY <1>1, <1>2, <1>3 DEF EvidenceType

-----------------------------------------------------------------------------
(* The terminal event.                                                     *)

(* Nothing is undone by two handlers that undo nothing.                    *)
LEMMA FollowsOn ==
    ASSUME NEW t, NEW u, Follows(t, u)
    PROVE  \A v : Follows(u, v) => Follows(t, v)
<1>1. ASSUME NEW v, Follows(u, v) PROVE Follows(t, v)
  <2>1. /\ \A i \in DOMAIN t.pending : i \in DOMAIN v.pending /\ v.pending[i] = t.pending[i]
        /\ ~v.terminal => v.ev = t.ev /\ v.gate.life = t.gate.life /\ ~t.terminal
      BY <1>1 DEF Follows
  <2>2. ASSUME t.gate.life = "ABORTED"
        PROVE  /\ v.gate.life = "ABORTED"
               /\ \A i \in DOMAIN v.pending \ DOMAIN t.pending :
                     v.pending[i].kind \notin SemanticKinds
    <3>1. u.gate.life = "ABORTED" /\ v.gate.life = "ABORTED"
        BY <1>1, <2>2 DEF Follows
    <3>2. ASSUME NEW i \in DOMAIN v.pending \ DOMAIN t.pending
          PROVE  v.pending[i].kind \notin SemanticKinds
      <4>1. CASE i \in DOMAIN u.pending
          BY <1>1, <2>2, <3>2, <4>1 DEF Follows
      <4>2. CASE i \notin DOMAIN u.pending
          BY <1>1, <3>1, <3>2, <4>2 DEF Follows
      <4> QED
          BY <4>1, <4>2
    <3> QED
        BY <3>1, <3>2
  <2> QED
      BY <2>1, <2>2 DEF Follows
<1> QED
    BY <1>1

(* Doing nothing is a way to follow.                                       *)
LEMMA FollowsSelf == ASSUME NEW t PROVE Follows(t, t)
BY DEF Follows

(* Nothing precedes the end of the queue that ends it.                     *)
LEMMA EndIs ==
    ASSUME NEW z \in Seq(EventType), NEW e \in EventType,
           Lacks(z, Terminals), e.kind \in Terminals
    PROVE  LET y == Append(z, e)
           IN  OfKind(y, Terminals) = {Len(y)} /\ y[Len(y)] = e
<1> DEFINE y == Append(z, e)
<1>1. /\ DOMAIN y = DOMAIN z \cup {Len(z) + 1}
      /\ \A i \in DOMAIN z : y[i] = z[i]
      /\ Len(y) = Len(z) + 1 /\ y[Len(z) + 1] = e
    BY AppendIs
<1> HIDE DEF y
<1>2. OfKind(y, Terminals) = {Len(y)} /\ y[Len(y)] = e
    BY <1>1 DEF OfKind, Lacks
<1> QED
    BY <1>2 DEF y

(* Aborting takes the held batch back.                                     *)
LEMMA AbortIs ==
    ASSUME NEW g \in GateType, g.life # "COMMITTED"
    PROVE  /\ Abort(g) \in GateType /\ Abort(g).life = "ABORTED"
           /\ Abort(g).buffered = <<>>
<1>1. <<>> \in Seq(EventType)
    OBVIOUS
<1>2. Abort(g) = [g EXCEPT !.life = "ABORTED", !.buffered = <<>>]
    BY DEF Abort
<1> QED
    BY <1>1, <1>2 DEF GateType

(* _emit_recorded_failure_or_cancellation ends the session with what the   *)
(* evidence decides, and aborts what the gate held.                        *)
LEMMA EmitIs ==
    ASSUME NEW t \in SessionType, NEW c \in ControlType, NEW q \in Seq(EventType),
           NEW b \in BOOLEAN,
           Witnessed(t.ev, c), Recorded(t.ev, c), ~t.terminal,
           Lacks(q \o t.pending, Terminals \cup {"tool_completed"}),
           t.gate.life # "COMMITTED",
           t.commit = "none" => b, t.ev.rfail = "retry" => b,
           \/ t.ev.owner # "none"
           \/ ~Clean(t.ev)
           \/ t.ev.stop \in {"none", "loop", "other"}
    PROVE  LET u == Emit(t)
           IN  /\ u \in SessionType /\ u.terminal /\ u.stop = t.stop /\ u.ev = t.ev
               /\ Done(u, c, q, b) /\ Follows(t, u)
               /\ u.decision.owner \notin {"lifecycle", "unknown"} =>
                     \/ c.over
                     \/ u.decision.owner = "constraint" /\ t.ev.cfail # "none"
                     \/ u.decision.owner = "parser" /\ t.ev.pfail # "none"
                     \/ u.decision.owner = "semantic" /\ t.ev.sfail # "none"
<1>1. PICK x \in {"retry", "final"} :
        x = Committed(t, "retry") /\ (x = "retry" => t.commit = "none")
    BY DEF Committed
<1>2. PICK d : d = Resolve(t.ev, x)
    OBVIOUS
<1>3. t.ev \in EvidenceType /\ t.gate \in GateType /\ t.pending \in Seq(EventType)
    BY DEF SessionType
<1>4. /\ d \in DecisionType /\ d.disp # "none" /\ d.disp # "success"
      /\ d.owner = "lifecycle" => t.ev.owner = "lifecycle"
      /\ d.owner \notin {"lifecycle", "unknown"} => c.reason \notin Lifecycle
      /\ d.owner \notin {"lifecycle", "unknown"} =>
            \/ c.over
            \/ d.owner = "constraint" /\ t.ev.cfail # "none"
            \/ d.owner = "parser" /\ t.ev.pfail # "none"
            \/ d.owner = "semantic" /\ t.ev.sfail # "none"
      /\ d.err = "retry" => b
    BY <1>1, <1>2, <1>3, ResolveIs
<1>5. PICK e : e = Finality(d)
    OBVIOUS
<1>6. /\ e \in EventType /\ e.kind \in {"failed", "cancelled"}
      /\ e.kind = (IF d.disp = "failure" THEN "failed" ELSE "cancelled")
      /\ e.verdict = d.err
    BY <1>4, <1>5
    DEF Finality, Event, EventType, SessionKinds, Terminals, DecisionType, Errors
<1>7. PICK g \in GateType : g = Abort(t.gate) /\ g.life = "ABORTED"
    BY <1>3, AbortIs
<1>8. PICK p \in Seq(EventType) : p = Append(t.pending, e)
    BY <1>3, <1>6, AppendIs
<1>9. PICK u : u = Emit(t)
    OBVIOUS
<1>10. u = [t EXCEPT !.gate = g, !.pending = p, !.decision = d, !.terminal = TRUE]
    BY <1>1, <1>2, <1>5, <1>7, <1>8, <1>9 DEF Emit
<1>11. /\ u \in SessionType /\ u.terminal /\ u.stop = t.stop /\ u.ev = t.ev
       /\ u.decision = d /\ u.pending = p /\ u.gate = g
    BY <1>4, <1>10 DEF SessionType
<1>12. PICK z \in Seq(EventType) : z = q \o t.pending
    BY <1>3, ConcatIs
<1>13. q \o p = Append(z, e)
    BY <1>3, <1>6, <1>8, <1>12, AppendJoin
<1>14. Lacks(z, Terminals) /\ Lacks(z, {"tool_completed"})
    BY <1>12, LacksLess
<1>15. e.kind \in Terminals /\ e.kind \notin {"tool_completed"} /\ e.kind \notin SemanticKinds
    BY <1>6 DEF Terminals, SemanticKinds
<1>16. Told(q \o p, d, b)
    BY <1>4, <1>6, <1>13, <1>14, <1>15, EndIs DEF Told
<1>17. Lacks(q \o p, {"tool_completed"})
    BY <1>6, <1>13, <1>14, <1>15, AppendLacks
<1>18. Done(u, c, q, b)
    BY <1>4, <1>11, <1>16, <1>17 DEF Done
<1>19. Follows(t, u)
  <2>1. /\ DOMAIN p = DOMAIN t.pending \cup {Len(t.pending) + 1}
        /\ \A i \in DOMAIN t.pending : p[i] = t.pending[i]
        /\ p[Len(t.pending) + 1] = e
      BY <1>3, <1>6, <1>8, AppendIs
  <2> QED
      BY <1>7, <1>11, <1>15, <2>1 DEF Follows
<1> QED
    BY <1>4, <1>9, <1>11, <1>18, <1>19

(* A failure the session found itself ends it, and stops a runtime that    *)
(* runs if that failure decides.                                           *)
LEMMA LocalFailureIs ==
    ASSUME NEW t, NEW c \in ControlType, NEW q \in Seq(EventType), NEW b \in BOOLEAN,
           Sound(t, c, q, b),
           NEW x \in EvidenceType, NEW owners,
           Witnessed(x, c), Recorded(x, c), x.rfail = t.ev.rfail, ~Clean(x),
           \/ c.over \/ t.terminal
           \/ /\ x.cfail # "none" => "constraint" \in owners
              /\ x.pfail # "none" => "parser" \in owners
              /\ x.sfail # "none" => "semantic" \in owners
    PROVE  LET u == LocalFailure(t, x, owners)
           IN  Goes(t, u, c, q, b) /\ u.terminal
<1> USE DEF Goes
<1> DEFINE u == LocalFailure(t, x, owners)
<1>1. CASE t.terminal
  <2>1. u = t
      BY <1>1 DEF LocalFailure
  <2> QED
      BY <1>1, <2>1, FollowsSelf
<1>2. CASE ~t.terminal
  <2>1. t \in SessionType /\ Live(t, c, q, b)
      BY <1>2 DEF Sound
  <2>2. PICK v : v = [t EXCEPT !.ev = x]
      OBVIOUS
  <2>3. /\ v \in SessionType /\ v.ev = x /\ ~v.terminal /\ v.pending = t.pending
        /\ v.gate = t.gate /\ v.commit = t.commit /\ v.stop = t.stop
      BY <1>2, <2>1, <2>2 DEF SessionType
  <2>4. PICK w : w = Emit(v)
      OBVIOUS
  <2>5. /\ w \in SessionType /\ w.terminal /\ w.ev = x
        /\ Done(w, c, q, b) /\ Follows(v, w)
        /\ w.decision.owner \notin {"lifecycle", "unknown"} =>
              \/ c.over
              \/ w.decision.owner = "constraint" /\ x.cfail # "none"
              \/ w.decision.owner = "parser" /\ x.pfail # "none"
              \/ w.decision.owner = "semantic" /\ x.sfail # "none"
      BY <2>1, <2>3, <2>4, EmitIs DEF Live
  <2> DEFINE k == w.decision.owner \in owners
  <2>6. k \in BOOLEAN /\ (k <=> w.decision.owner \in owners)
      OBVIOUS
  <2>7. /\ u \in SessionType /\ u.terminal /\ u.ev = x /\ u.decision = w.decision
        /\ u.gate = w.gate /\ u.pending = w.pending /\ u.stop = k
    <3>1. u = [w EXCEPT !.stop = k]
        BY <1>2, <2>2, <2>4 DEF LocalFailure
    <3> HIDE DEF u, k
    <3> QED
        BY <2>5, <2>6, <3>1 DEF SessionType
  <2> HIDE DEF u, k
  <2>8. Done(u, c, q, b)
      BY <2>5, <2>7 DEF Done
  <2>9. Halted(u, c)
      BY <1>2, <2>5, <2>6, <2>7 DEF Halted, k
  <2>10. Follows(t, u)
      BY <2>3, <2>5, <2>7 DEF Follows
  <2> QED
      BY <2>7, <2>8, <2>9, <2>10 DEF Sound, u
<1> QED
    BY <1>1, <1>2

(* Operators are composed.                                                 *)
LEMMA GoesOn ==
    ASSUME NEW t, NEW u, NEW c, NEW q, NEW b, Goes(t, u, c, q, b)
    PROVE  \A v : Goes(u, v, c, q, b) => Goes(t, v, c, q, b)
BY FollowsOn DEF Goes

(* Each of the failures the session finds.                                 *)
LEMMA FailuresEnd ==
    ASSUME NEW t, NEW c \in ControlType, NEW q \in Seq(EventType), NEW b \in BOOLEAN,
           Sound(t, c, q, b)
    PROVE  LET Ends(u) == Goes(t, u, c, q, b) /\ u.terminal
           IN  /\ \A k : Ends(ModelFailure(t, c.reason, k))
               /\ Ends(ParserFailure(t, c.reason)) /\ Ends(TriggerFailure(t, c.reason))
               /\ Ends(BudgetFailure(t, c.reason)) /\ Ends(UnknownFailure(t, c.reason))
               /\ c.over => Ends(GuaranteeFailure(t, c.reason))
<1>1. t.ev \in EvidenceType /\ Witnessed(t.ev, c)
    BY DEF Sound, SessionType
<1>2. ~t.terminal => Clean(t.ev)
    BY DEF Sound, Live
<1>3. PICK x : x = RecordControlledReason(t.ev, c.reason)
    OBVIOUS
<1>4. /\ x \in EvidenceType /\ Witnessed(x, c) /\ Recorded(x, c) /\ x.rfail = t.ev.rfail
      /\ ~t.terminal => Clean(x)
    BY <1>1, <1>2, <1>3, ReasonIs DEF Clean
<1>5. ASSUME NEW k
      PROVE  Goes(t, ModelFailure(t, c.reason, k), c, q, b)
             /\ ModelFailure(t, c.reason, k).terminal
  <2>1. PICK y : y = RecordSemanticFailure(x)
      OBVIOUS
  <2>2. /\ y \in EvidenceType /\ Witnessed(y, c) /\ Recorded(y, c) /\ y.rfail = t.ev.rfail
        /\ ~Clean(y)
        /\ ~t.terminal => y.pfail = "none"
      BY <1>4, <2>1, MarkIs, MarksKeep DEF Marks, Clean
  <2>3. PICK z : z = RecordConstraintFailure(y)
      OBVIOUS
  <2>4. /\ z \in EvidenceType /\ Witnessed(z, c) /\ Recorded(z, c) /\ z.rfail = t.ev.rfail
        /\ ~Clean(z)
        /\ ~t.terminal => z.pfail = "none"
      BY <2>2, <2>3, MarkIs, MarksKeep DEF Marks, Clean
  <2>5. ModelFailure(t, c.reason, k) =
          LocalFailure(t, IF k THEN z ELSE y, {"constraint", "semantic"})
      BY <1>3, <2>1, <2>3 DEF ModelFailure
  <2>6. CASE k
      BY <2>4, <2>5, <2>6, LocalFailureIs
  <2>7. CASE ~k
      BY <2>2, <2>5, <2>7, LocalFailureIs
  <2> QED
      BY <2>6, <2>7
<1>6. Goes(t, ParserFailure(t, c.reason), c, q, b) /\ ParserFailure(t, c.reason).terminal
  <2>1. PICK y : y = RecordParserFailure(x)
      OBVIOUS
  <2>2. /\ y \in EvidenceType /\ Witnessed(y, c) /\ Recorded(y, c) /\ y.rfail = t.ev.rfail
        /\ ~Clean(y)
        /\ ~t.terminal => y.cfail = "none" /\ y.sfail = "none"
      BY <1>4, <2>1, MarkIs, MarksKeep DEF Marks, Clean
  <2>3. ParserFailure(t, c.reason) = LocalFailure(t, y, {"parser"})
      BY <1>3, <2>1 DEF ParserFailure
  <2> QED
      BY <2>2, <2>3, LocalFailureIs
<1>7. Goes(t, TriggerFailure(t, c.reason), c, q, b) /\ TriggerFailure(t, c.reason).terminal
  <2>1. PICK y : y = RecordConstraintFailure(x)
      OBVIOUS
  <2>2. /\ y \in EvidenceType /\ Witnessed(y, c) /\ Recorded(y, c) /\ y.rfail = t.ev.rfail
        /\ ~Clean(y)
        /\ ~t.terminal => y.pfail = "none" /\ y.sfail = "none"
      BY <1>4, <2>1, MarkIs, MarksKeep DEF Marks, Clean
  <2>3. TriggerFailure(t, c.reason) = LocalFailure(t, y, {"constraint"})
      BY <1>3, <2>1 DEF TriggerFailure
  <2> QED
      BY <2>2, <2>3, LocalFailureIs
<1>8. /\ Goes(t, BudgetFailure(t, c.reason), c, q, b) /\ BudgetFailure(t, c.reason).terminal
      /\ Goes(t, UnknownFailure(t, c.reason), c, q, b) /\ UnknownFailure(t, c.reason).terminal
  <2>1. PICK y : y = RecordUnknownFailure(x)
      OBVIOUS
  <2>2. /\ y \in EvidenceType /\ Witnessed(y, c) /\ Recorded(y, c) /\ y.rfail = t.ev.rfail
        /\ ~Clean(y)
        /\ ~t.terminal => y.cfail = "none" /\ y.pfail = "none" /\ y.sfail = "none"
      BY <1>4, <2>1, MarkIs, MarksKeep DEF Marks, Clean
  <2>3. /\ BudgetFailure(t, c.reason) = LocalFailure(t, y, {"unknown"})
        /\ UnknownFailure(t, c.reason) = LocalFailure(t, y, {})
      BY <1>3, <2>1 DEF BudgetFailure, UnknownFailure
  <2>4. \A owners : LET u == LocalFailure(t, y, owners)
                    IN  Goes(t, u, c, q, b) /\ u.terminal
      BY <2>2, LocalFailureIs
  <2> QED
      BY <2>3, <2>4
<1>9. ASSUME c.over
      PROVE  Goes(t, GuaranteeFailure(t, c.reason), c, q, b)
             /\ GuaranteeFailure(t, c.reason).terminal
  <2>1. PICK y : y = RecordSemanticFailure(x)
      OBVIOUS
  <2>2. /\ y \in EvidenceType /\ Witnessed(y, c) /\ Recorded(y, c) /\ y.rfail = t.ev.rfail
      BY <1>4, <2>1, MarkIs, MarksKeep DEF Marks
  <2>3. PICK z : z = RecordConstraintFailure(y)
      OBVIOUS
  <2>4. /\ z \in EvidenceType /\ Witnessed(z, c) /\ Recorded(z, c) /\ z.rfail = t.ev.rfail
        /\ ~Clean(z)
      BY <2>2, <2>3, MarkIs, MarksKeep DEF Marks, Clean
  <2>5. GuaranteeFailure(t, c.reason) = LocalFailure(t, z, {})
      BY <1>3, <2>1, <2>3 DEF GuaranteeFailure
  <2> QED
      BY <1>9, <2>4, <2>5, LocalFailureIs
<1> QED
    BY <1>5, <1>6, <1>7, <1>8, <1>9

-----------------------------------------------------------------------------
(* Semantic events.                                                        *)

(* What the gate is asked about: the start, the arguments or the           *)
(* completion of a call, or text.                                          *)
Semantic(e) ==
    /\ e \in EventType /\ e.kind \in SemanticKinds /\ e.verdict \in Verdicts
    /\ e.kind # "text" => e.call \in Calls

(* An event that may be published at once completes no call, a gate that   *)
(* was closed lets nothing pass, and what is held completes the calls.     *)
LEMMA GateIs ==
    ASSUME NEW g \in GateType, GateOk(g), g.life # "COMMITTED", NEW e, Semantic(e)
    PROVE  LET d == GateOperation(g, e)
           IN  d.fail = "none" =>
                  /\ g.life = "OPEN" /\ d.gate.life = "OPEN"
                  /\ d.gate \in GateType /\ GateOk(d.gate)
                  /\ d.out \in {<<>>, <<e>>}
                  /\ e.kind = "tool_completed" => d.out = <<>>
<1> DEFINE d == GateOperation(g, e)
<1>1. /\ e \in EventType /\ e.kind \in SemanticKinds
      /\ e.kind # "text" => e.call \in Calls
      /\ e.kind \notin SessionKinds \ SemanticKinds
    BY DEF Semantic
<1>2. ASSUME d.fail = "none", g.life = "OPEN", NEW h \in GateType, GateOk(h), h.life = "OPEN",
             d = AcceptEvent(h, e), e.kind # "tool_completed"
      PROVE  /\ d.gate.life = "OPEN" /\ d.gate \in GateType /\ GateOk(d.gate)
             /\ d.out = <<>> \/ d.out = <<e>>
  <2>1. CASE d.gate = [h EXCEPT !.buffered = Append(h.buffered, e)] /\ d.out = <<>>
    <3>1. /\ h.buffered \in Seq(EventType) /\ h.completed \in Seq(Calls)
          /\ Completes(h.buffered, h.completed)
          /\ Lacks(h.buffered, SessionKinds \ SemanticKinds)
        BY <1>2 DEF GateType, GateOk
    <3>2. PICK z \in Seq(EventType) : z = Append(h.buffered, e)
        BY <1>1, <3>1, AppendIs
    <3>3. Completes(z, h.completed) /\ Lacks(z, SessionKinds \ SemanticKinds)
        BY <1>1, <1>2, <3>1, <3>2, CompletesKept, AppendLacks
    <3>4. /\ d.gate \in GateType /\ d.gate.life = "OPEN" /\ d.gate.buffered = z
          /\ d.gate.completed = h.completed
        BY <1>2, <2>1, <3>2 DEF GateType
    <3> QED
        BY <2>1, <3>3, <3>4 DEF GateOk
  <2>2. CASE d.gate = h /\ d.out = <<e>>
      BY <1>2, <2>2
  <2> QED
      BY <1>2, <2>1, <2>2 DEF AcceptEvent, Accepted
<1>3. ASSUME d.fail = "none", e.kind = "tool_started"
      PROVE  /\ g.life = "OPEN" /\ d.gate.life = "OPEN" /\ d.gate \in GateType /\ GateOk(d.gate)
             /\ d.out = <<>> \/ d.out = <<e>>
  <2>1. d = OnStarted(g, e)
      BY <1>3 DEF GateOperation
  <2>2. PICK h : h = [g EXCEPT !.accepted = g.accepted \cup {e.call}]
      OBVIOUS
  <2>3. g.life = "OPEN" /\ d = AcceptEvent(h, e)
      BY <1>3, <2>1, <2>2 DEF OnStarted, Refused
  <2>4. /\ h \in GateType /\ h.life = "OPEN" /\ h.buffered = g.buffered
        /\ h.completed = g.completed
      BY <1>1, <1>3, <2>2, <2>3 DEF GateType
  <2>5. GateOk(h)
      BY <2>3, <2>4 DEF GateOk
  <2> QED
      BY <1>2, <1>3, <2>3, <2>4, <2>5
<1>4. ASSUME d.fail = "none", e.kind = "tool_delta"
      PROVE  /\ g.life = "OPEN" /\ d.gate.life = "OPEN" /\ d.gate \in GateType /\ GateOk(d.gate)
             /\ d.out = <<>> \/ d.out = <<e>>
  <2>1. d = OnArgumentsDelta(g, e)
      BY <1>4 DEF GateOperation
  <2>2. g.life = "OPEN" /\ d = AcceptEvent(g, e)
      BY <1>4, <2>1 DEF OnArgumentsDelta, Refused
  <2> QED
      BY <1>2, <1>4, <2>2
<1>5. ASSUME d.fail = "none", e.kind = "tool_completed"
      PROVE  /\ g.life = "OPEN" /\ d.gate.life = "OPEN" /\ d.gate \in GateType /\ GateOk(d.gate)
             /\ d.out = <<>>
  <2>1. d = OnCompleted(g, e, e.verdict)
      BY <1>5 DEF GateOperation
  <2>2. /\ g.life = "OPEN" /\ d.out = <<>>
        /\ d.gate = [g EXCEPT !.completed = Append(g.completed, e.call),
                              !.buffered = Append(g.buffered, e)]
    <3>1. e.verdict # "none"
        BY DEF Semantic, Verdicts
    <3> QED
        BY <1>5, <2>1, <3>1 DEF OnCompleted, Refused, Accepted
  <2>3. /\ g.buffered \in Seq(EventType) /\ g.completed \in Seq(Calls)
        /\ Completes(g.buffered, g.completed)
        /\ Lacks(g.buffered, SessionKinds \ SemanticKinds)
      BY <2>2 DEF GateType, GateOk
  <2>4. PICK z \in Seq(EventType) : z = Append(g.buffered, e)
      BY <1>1, <2>3, AppendIs
  <2>5. PICK k \in Seq(Calls) : k = Append(g.completed, e.call)
    <3>1. e.call \in Calls
        BY <1>1, <1>5
    <3>2. Append(g.completed, e.call) \in Seq(Calls)
        BY <2>3, <3>1
    <3> QED
        BY <3>2
  <2>6. Completes(z, k) /\ Lacks(z, SessionKinds \ SemanticKinds)
      BY <1>1, <1>5, <2>3, <2>4, <2>5, CompletesMore, AppendLacks
  <2>7. /\ d.gate \in GateType /\ d.gate.life = "OPEN" /\ d.gate.buffered = z
        /\ d.gate.completed = k
      BY <2>2, <2>4, <2>5 DEF GateType
  <2> QED
      BY <2>2, <2>6, <2>7 DEF GateOk
<1>6. ASSUME d.fail = "none", e.kind = "text"
      PROVE  /\ g.life = "OPEN" /\ d.gate.life = "OPEN" /\ d.gate \in GateType /\ GateOk(d.gate)
             /\ d.out = <<>> \/ d.out = <<e>>
  <2>1. d = OnPassthrough(g, e)
      BY <1>6 DEF GateOperation
  <2>2. g.life = "OPEN"
      BY <1>6, <2>1 DEF OnPassthrough, Refused
  <2>3. \/ d.gate = g /\ d.out = <<e>>
        \/ d = Accepted([g EXCEPT !.buffered = Append(g.buffered, e)], <<>>)
           /\ g.buffered # <<>>
      BY <2>1, <2>2 DEF OnPassthrough, Accepted
  <2>4. CASE d.gate = g /\ d.out = <<e>>
      BY <2>2, <2>4
  <2>5. CASE d = Accepted([g EXCEPT !.buffered = Append(g.buffered, e)], <<>>)
             /\ g.buffered # <<>>
    <3>1. d = AcceptEvent(g, e)
        BY <2>5 DEF AcceptEvent
    <3> QED
        BY <1>2, <1>6, <2>2, <3>1
  <2> QED
      BY <2>3, <2>4, <2>5
<1> QED
    BY <1>1, <1>3, <1>4, <1>5, <1>6 DEF SemanticKinds

(* Events that are queued have their place in the commit class.            *)
LEMMA QueueIs ==
    ASSUME NEW t \in SessionType, NEW es \in Seq(EventType)
    PROVE  LET u == QueueEvents(t, es)
           IN  /\ u \in SessionType /\ u.pending = t.pending \o es
               /\ u.gate = t.gate /\ u.ev = t.ev /\ u.decision = t.decision
               /\ u.terminal = t.terminal /\ u.stop = t.stop
               /\ u.commit = "none" => t.commit = "none" /\ Lacks(es, SemanticKinds)
<1> DEFINE kinds == {es[i].kind : i \in DOMAIN es}
<1>1. PICK x : x = Observe(t.commit, kinds)
    OBVIOUS
<1>2. t.commit \in CommitClasses /\ t.pending \in Seq(EventType)
    BY DEF SessionType
<1>3. x \in CommitClasses /\ (x = "none" => t.commit = "none" /\ kinds \cap SemanticKinds = {})
    BY <1>1, <1>2 DEF Observe, CommitClasses, SemanticKinds
<1>4. kinds \cap SemanticKinds = {} => Lacks(es, SemanticKinds)
    BY DEF Lacks
<1>5. PICK p \in Seq(EventType) : p = t.pending \o es
    BY <1>2, ConcatIs
<1>6. QueueEvents(t, es) = [t EXCEPT !.commit = x, !.pending = p]
    BY <1>1, <1>5 DEF QueueEvents
<1> HIDE DEF kinds
<1> QED
    BY <1>3, <1>4, <1>5, <1>6 DEF SessionType

(* Flags the argument does not look at.                                    *)
LEMMA FlagsFree ==
    ASSUME NEW t, NEW c, NEW q, NEW b, Sound(t, c, q, b), NEW u \in SessionType,
           u.gate = t.gate, u.pending = t.pending, u.commit = t.commit, u.ev = t.ev,
           u.decision = t.decision, u.terminal = t.terminal, u.stop = t.stop
    PROVE  Goes(t, u, c, q, b)
<1>1. Follows(t, u)
    BY DEF Follows
<1>2. Sound(u, c, q, b)
    BY DEF Sound, Live, Done, Halted
<1> QED
    BY <1>1, <1>2 DEF Goes

(* Doing nothing is a way to go.                                           *)
LEMMA GoesSelf ==
    ASSUME NEW t, NEW c, NEW q, NEW b, Sound(t, c, q, b)
    PROVE  Goes(t, t, c, q, b)
BY FollowsSelf DEF Goes

(* _process_semantic: one event of the parser's output.                    *)
LEMMA ProcessIs ==
    ASSUME NEW t, NEW c \in ControlType, NEW q \in Seq(EventType), NEW b \in BOOLEAN,
           Sound(t, c, q, b), NEW e, Semantic(e)
    PROVE  Goes(t, ProcessSemantic(t, c.reason, e), c, q, b)
<1> DEFINE u == ProcessSemantic(t, c.reason, e)
<1>1. CASE t.terminal
    BY <1>1, GoesSelf DEF ProcessSemantic
<1>2. CASE ~t.terminal
  <2>1. t \in SessionType /\ Live(t, c, q, b) /\ t.gate \in GateType
      BY <1>2 DEF Sound, SessionType
  <2>2. PICK d : d = GateOperation(t.gate, e)
      OBVIOUS
  <2>3. CASE d.fail # "none"
    <3>1. \E k : u = ModelFailure(t, c.reason, k)
        BY <1>2, <2>2, <2>3 DEF ProcessSemantic
    <3> QED
        BY <3>1, FailuresEnd
  <2>4. CASE d.fail = "none"
    <3>1. /\ t.gate.life = "OPEN" /\ d.gate.life = "OPEN"
          /\ d.gate \in GateType /\ GateOk(d.gate)
          /\ d.out \in {<<>>, <<e>>}
          /\ e.kind = "tool_completed" => d.out = <<>>
        BY <2>1, <2>2, <2>4, GateIs DEF Live
    <3>2. e \in EventType /\ e.kind \in SemanticKinds /\ e.kind \notin Terminals
        BY DEF Semantic, SemanticKinds, Terminals
    <3>3. d.out \in Seq(EventType) /\ Lacks(d.out, Terminals \cup {"tool_completed"})
      <4>1. CASE d.out = <<>>
          BY <4>1 DEF Lacks
      <4>2. CASE d.out = <<e>>
        <5>1. <<e>> \in Seq(EventType) /\ Lacks(<<e>>, Terminals \cup {"tool_completed"})
          <6>1. DOMAIN <<e>> = {1} /\ <<e>>[1] = e
              OBVIOUS
          <6> QED
              BY <3>1, <3>2, <4>2, <6>1, AppendIs DEF Lacks
        <5> QED
            BY <4>2, <5>1
      <4> QED
          BY <3>1, <4>1, <4>2
    <3>4. PICK v : v = [t EXCEPT !.gate = d.gate]
        OBVIOUS
    <3>5. /\ v \in SessionType /\ v.gate = d.gate /\ v.pending = t.pending /\ v.ev = t.ev
          /\ v.commit = t.commit /\ v.decision = t.decision /\ v.terminal = t.terminal
          /\ v.stop = t.stop
        BY <2>1, <3>1, <3>4 DEF SessionType
    <3>6. u = QueueEvents(v, d.out)
        BY <1>2, <2>2, <2>4, <3>4 DEF ProcessSemantic
    <3> HIDE DEF u
    <3>14. PICK es \in Seq(EventType) : es = d.out
        BY <3>3
    <3>15. LET w == QueueEvents(v, es)
           IN  /\ w \in SessionType /\ w.pending = v.pending \o es
               /\ w.gate = v.gate /\ w.ev = v.ev /\ w.decision = v.decision
               /\ w.terminal = v.terminal /\ w.stop = v.stop
               /\ w.commit = "none" => v.commit = "none" /\ Lacks(es, SemanticKinds)
        BY <3>5, QueueIs
    <3>7. /\ u \in SessionType /\ u.pending = t.pending \o es
          /\ u.gate = d.gate /\ u.ev = t.ev /\ u.decision = t.decision
          /\ ~u.terminal /\ u.stop = t.stop
          /\ u.commit = "none" => t.commit = "none" /\ Lacks(es, SemanticKinds)
        BY <1>2, <3>5, <3>6, <3>14, <3>15
    <3>8. t.pending \in Seq(EventType)
        BY <2>1 DEF SessionType
    <3>9. q \o u.pending = (q \o t.pending) \o es /\ q \o t.pending \in Seq(EventType)
      <4>1. PICK p \in Seq(EventType) : p = t.pending
          BY <3>8
      <4>2. q \o (p \o es) = (q \o p) \o es
          BY ConcatAssociative
      <4>3. q \o p \in Seq(EventType)
          BY ConcatIs
      <4> QED
          BY <3>7, <4>1, <4>2, <4>3
    <3>10. Lacks(q \o u.pending, Terminals \cup {"tool_completed"})
        BY <2>1, <3>3, <3>9, <3>14, ConcatLacks DEF Live
    <3>11. u.commit = "none" => Lacks(q \o u.pending, SemanticKinds) /\ b
        BY <2>1, <3>3, <3>7, <3>9, ConcatLacks DEF Live
    <3>12. Sound(u, c, q, b)
        BY <2>1, <3>1, <3>7, <3>10, <3>11 DEF Sound, Live
    <3>13. Follows(t, u)
      <4>1. \A i \in DOMAIN t.pending : i \in DOMAIN u.pending /\ u.pending[i] = t.pending[i]
        <5>1. PICK p \in Seq(EventType) : p = t.pending
            BY <3>8
        <5>2. \A i \in DOMAIN p : i \in DOMAIN (p \o es) /\ (p \o es)[i] = p[i]
            BY ConcatIs
        <5> QED
            BY <3>7, <5>1, <5>2
      <4> QED
          BY <1>2, <3>1, <3>7, <4>1 DEF Follows
    <3> QED
        BY <3>12, <3>13 DEF Goes, u
  <2> QED
      BY <2>3, <2>4
<1> QED
    BY <1>1, <1>2

(* The events of one output.                                               *)
LEMMA OutputIs ==
    ASSUME NEW t, NEW c \in ControlType, NEW q \in Seq(EventType), NEW b \in BOOLEAN,
           Sound(t, c, q, b), NEW o \in OutputType
    PROVE  Goes(t, ProcessOutput(t, c.reason, o), c, q, b)
<1>1. Semantic(Text)
    BY DEF Semantic, Text, Plain, Event, EventType, SessionKinds, SemanticKinds, Verdicts
<1>2. PICK u : u = IF o.text THEN ProcessSemantic(t, c.reason, Text) ELSE t
    OBVIOUS
<1>3. Goes(t, u, c, q, b)
    BY <1>1, <1>2, ProcessIs, GoesSelf
<1>4. CASE o.call = NoCall
    BY <1>2, <1>3, <1>4 DEF ProcessOutput
<1>5. CASE o.call # NoCall
  <2> DEFINE e1 == Event("tool_started", o.call, "valid")
             e2 == Event("tool_delta", o.call, "valid")
             e3 == Event("tool_completed", o.call, o.verdict)
  <2>1. Semantic(e1) /\ Semantic(e2) /\ Semantic(e3)
    <3>1. o.call \in Calls /\ o.verdict \in Verdicts
        BY <1>5 DEF OutputType
    <3> QED
        BY <3>1 DEF Semantic, Event, EventType, SessionKinds, SemanticKinds, Verdicts
  <2>2. PICK v1 : v1 = ProcessSemantic(u, c.reason, e1)
      OBVIOUS
  <2>3. PICK v2 : v2 = ProcessSemantic(v1, c.reason, e2)
      OBVIOUS
  <2>4. PICK v3 : v3 = ProcessSemantic(v2, c.reason, e3)
      OBVIOUS
  <2>5. ProcessOutput(t, c.reason, o) = v3
      BY <1>2, <1>5, <2>2, <2>3, <2>4 DEF ProcessOutput, ProcessCall
  <2> HIDE DEF e1, e2, e3
  <2>6. Goes(u, v1, c, q, b)
      BY <1>3, <2>1, <2>2, ProcessIs DEF Goes
  <2>7. Goes(v1, v2, c, q, b)
      BY <2>1, <2>3, <2>6, ProcessIs DEF Goes
  <2>8. Goes(v2, v3, c, q, b)
      BY <2>1, <2>4, <2>7, ProcessIs DEF Goes
  <2>9. Goes(t, v3, c, q, b)
      BY <1>3, <2>6, <2>7, <2>8, GoesOn
  <2> QED
      BY <2>5, <2>9
<1> QED
    BY <1>4, <1>5

-----------------------------------------------------------------------------
(* The end of a generation.                                                *)

FinishType ==
    [how : {"constraint", "parser", "ok"}, out : OutputType,
     issue : {"none", "incomplete", "unresolved", "hold"},
     scope : {"none", "outside", "tool"}, literal : BOOLEAN]

(* What the parser says at the end.                                        *)
LEMMA FinishIs ==
    ASSUME NEW t, NEW c \in ControlType, NEW q \in Seq(EventType), NEW b \in BOOLEAN,
           Sound(t, c, q, b), NEW f \in FinishType
    PROVE  Goes(t, FinishParser(t, c.reason, f), c, q, b)
<1>1. CASE t.finished
    BY <1>1, GoesSelf DEF FinishParser
<1>2. CASE ~t.finished
  <2>1. PICK u : u = [t EXCEPT !.finished = TRUE]
      OBVIOUS
  <2>2. t \in SessionType
      BY DEF Sound
  <2>3. Goes(t, u, c, q, b)
    <3>1. /\ u \in SessionType /\ u.gate = t.gate /\ u.pending = t.pending
          /\ u.commit = t.commit /\ u.ev = t.ev /\ u.decision = t.decision
          /\ u.terminal = t.terminal /\ u.stop = t.stop
        BY <2>1, <2>2 DEF SessionType
    <3> QED
        BY <3>1, FlagsFree
  <2>4. PICK v : v = FinishParser(t, c.reason, f)
      OBVIOUS
  <2>5. \/ v = TriggerFailure(u, c.reason)
        \/ v = ParserFailure(u, c.reason)
        \/ v = [u EXCEPT !.deferred = f.out]
        \/ v = ProcessOutput(u, c.reason, f.out)
      BY <1>2, <2>1, <2>4 DEF FinishParser, FinishType
  <2>6. ASSUME v = [u EXCEPT !.deferred = f.out] PROVE Goes(u, v, c, q, b)
    <3>1. u \in SessionType /\ f.out \in OutputType
        BY <2>3 DEF Goes, Sound, FinishType
    <3>2. /\ v \in SessionType /\ v.gate = u.gate /\ v.pending = u.pending
          /\ v.commit = u.commit /\ v.ev = u.ev /\ v.decision = u.decision
          /\ v.terminal = u.terminal /\ v.stop = u.stop
        BY <2>6, <3>1 DEF SessionType
    <3> QED
        BY <2>3, <3>2, FlagsFree DEF Goes
  <2>7. Sound(u, c, q, b)
      BY <2>3 DEF Goes
  <2>8. Goes(u, v, c, q, b)
    <3>1. CASE v = TriggerFailure(u, c.reason) \/ v = ParserFailure(u, c.reason)
        BY <2>7, <3>1, FailuresEnd
    <3>2. CASE v = ProcessOutput(u, c.reason, f.out)
      <4>1. f.out \in OutputType
          BY DEF FinishType
      <4> QED
          BY <2>7, <3>2, <4>1, OutputIs
    <3> QED
        BY <2>5, <2>6, <3>1, <3>2
  <2> QED
      BY <2>3, <2>4, <2>8, GoesOn
<1> QED
    BY <1>1, <1>2

(* A session that ends once its runtime did.                               *)
LEMMA EmitGoes ==
    ASSUME NEW t, NEW c \in ControlType, NEW q \in Seq(EventType), NEW b \in BOOLEAN,
           Sound(t, c, q, b), ~t.terminal, Recorded(t.ev, c), c.over,
           \/ t.ev.owner # "none"
           \/ t.ev.stop \in {"none", "loop", "other"}
    PROVE  Goes(t, Emit(t), c, q, b) /\ Emit(t).terminal
<1>1. t \in SessionType /\ Live(t, c, q, b) /\ Witnessed(t.ev, c)
    BY DEF Sound
<1>2. PICK u : u = Emit(t)
    OBVIOUS
<1>3. /\ u \in SessionType /\ u.terminal /\ u.ev = t.ev /\ Done(u, c, q, b) /\ Follows(t, u)
    BY <1>1, <1>2, EmitIs DEF Live
<1>4. Halted(u, c)
    BY DEF Halted
<1> QED
    BY <1>1, <1>2, <1>3, <1>4 DEF Goes, Sound

(* _complete_runtime_success publishes what was held, usage and completion *)
(* together; nothing that ended the generation has aborted the batch then. *)
LEMMA SuccessIs ==
    ASSUME NEW t, NEW c \in ControlType, NEW q \in Seq(EventType), NEW b \in BOOLEAN,
           Sound(t, c, q, b), ~t.terminal, Recorded(t.ev, c), c.over,
           t.gate.life = "ABORTED" => c.reason \in Lifecycle
    PROVE  Goes(t, CompleteSuccess(t), c, q, b) /\ CompleteSuccess(t).terminal
<1>1. /\ t \in SessionType /\ Live(t, c, q, b) /\ Witnessed(t.ev, c)
      /\ t.gate \in GateType /\ t.ev \in EvidenceType /\ t.pending \in Seq(EventType)
    BY DEF Sound, SessionType
<1>2. PICK d : d = Resolve(t.ev, "final")
    OBVIOUS
<1>3. /\ d \in DecisionType /\ d.disp # "none"
      /\ d.owner = "lifecycle" => t.ev.owner = "lifecycle"
      /\ d.owner \notin {"lifecycle", "unknown"} => c.reason \notin Lifecycle
      /\ d.disp = "success" <=>
            t.ev.owner = "none" /\ Clean(t.ev) /\ t.ev.stop \notin {"none", "loop", "other"}
    BY <1>1, <1>2, ResolveIs
<1>4. CASE d.disp # "success"
  <2>1. CompleteSuccess(t) = Emit(t)
      BY <1>2, <1>4 DEF CompleteSuccess
  <2>2. Clean(t.ev)
      BY <1>1 DEF Live
  <2> QED
      BY <1>3, <1>4, <2>1, <2>2, EmitGoes
<1>5. CASE d.disp = "success"
  <2>1. t.gate.life = "OPEN"
    <3>1. c.reason \notin Lifecycle
        BY <1>3, <1>5 DEF Recorded
    <3> QED
        BY <1>1, <3>1 DEF Live, GateType
  <2>2. PICK g : g = [t.gate EXCEPT !.life = "COMMITTED", !.buffered = <<>>]
      OBVIOUS
  <2>3. g \in GateType /\ g.completed = t.gate.completed /\ g.life = "COMMITTED"
    <3>1. <<>> \in Seq(EventType)
        OBVIOUS
    <3> QED
        BY <1>1, <2>2, <3>1 DEF GateType
  <2>4. PICK z \in Seq(EventType) : z = t.gate.buffered
      BY <1>1 DEF GateType
  <2>5. PICK k \in Seq(Calls) : k = t.gate.completed
      BY <1>1 DEF GateType
  <2>6. Completes(z, k) /\ Lacks(z, Terminals)
    <3>1. GateOk(t.gate)
        BY <1>1 DEF Live
    <3>2. Terminals \subseteq SessionKinds \ SemanticKinds
        BY DEF Terminals, SessionKinds, SemanticKinds
    <3> QED
        BY <2>1, <2>4, <2>5, <3>1, <3>2, LacksLess DEF GateOk
  <2>7. PICK v : v = [t EXCEPT !.gate = g]
      OBVIOUS
  <2>8. /\ v \in SessionType /\ v.gate = g /\ v.pending = t.pending /\ v.ev = t.ev
        /\ v.stop = t.stop
      BY <1>1, <2>3, <2>7 DEF SessionType
  <2>9. PICK w : w = QueueEvents(v, z)
      OBVIOUS
  <2>10. /\ w \in SessionType /\ w.pending = t.pending \o z /\ w.gate = g /\ w.ev = t.ev
         /\ w.stop = t.stop
    <3>1. LET x == QueueEvents(v, z)
          IN  /\ x \in SessionType /\ x.pending = v.pending \o z /\ x.gate = v.gate
              /\ x.ev = v.ev /\ x.stop = v.stop
        BY <2>8, QueueIs
    <3> QED
        BY <2>8, <2>9, <3>1
  <2> DEFINE usage == Plain("usage")
             done == Plain("completed")
  <2>11. /\ usage \in EventType /\ usage.kind = "usage" /\ usage.kind \notin Terminals
         /\ done \in EventType /\ done.kind = "completed" /\ done.kind \in Terminals
         /\ done.kind # "tool_completed" /\ usage.kind # "tool_completed"
      BY DEF Plain, Event, EventType, SessionKinds, Terminals, Verdicts
  <2>12. PICK u : u = CompleteSuccess(t)
      OBVIOUS
  <2>13. u = [w EXCEPT !.pending = w.pending \o <<usage, done>>, !.decision = d,
                       !.terminal = TRUE]
    <3>1. CommitEvents(t.gate) = [gate |-> g, out |-> z, fail |-> "none"]
        BY <2>1, <2>2, <2>4 DEF CommitEvents, Accepted
    <3> QED
        BY <1>2, <1>5, <2>7, <2>9, <2>12, <3>1 DEF CompleteSuccess
  <2> HIDE DEF usage, done
  <2>14. PICK p \in Seq(EventType) : p = t.pending
      BY <1>1
  <2>15. PICK p1 \in Seq(EventType) : p1 = p \o z
      BY ConcatIs
  <2>16. PICK p2 \in Seq(EventType) : p2 = Append(Append(p1, usage), done)
    <3>1. Append(p1, usage) \in Seq(EventType)
        BY <2>11, AppendIs
    <3>2. Append(Append(p1, usage), done) \in Seq(EventType)
        BY <2>11, <3>1, AppendIs
    <3> QED
        BY <3>2
  <2>17. p1 \o <<usage, done>> = p2
      BY <2>11, <2>16
  <2>18. /\ u \in SessionType /\ u.pending = p2 /\ u.decision = d /\ u.terminal
         /\ u.gate = g /\ u.ev = t.ev
      BY <1>3, <2>10, <2>13, <2>14, <2>15, <2>17 DEF SessionType
  <2>19. PICK y \in Seq(EventType) : y = q \o p
      BY ConcatIs
  <2>20. PICK y1 \in Seq(EventType) : y1 = y \o z
      BY ConcatIs
  <2>21. q \o p2 = Append(Append(y1, usage), done)
    <3>1. q \o p1 = y1
      <4>1. Regroups(q, p, z)
          BY RegroupsIs
      <4> QED
          BY <2>15, <2>19, <2>20, <4>1 DEF Regroups
    <3>2. PICK x \in Seq(EventType) : x = Append(p1, usage)
        BY <2>11, AppendIs
    <3>3. q \o x = Append(y1, usage)
      <4>1. q \o Append(p1, usage) = Append(q \o p1, usage)
          BY <2>11, AppendJoin, SMTT(60)
      <4> QED
          BY <3>1, <3>2, <4>1
    <3>4. q \o p2 = Append(q \o x, done)
      <4>1. q \o Append(x, done) = Append(q \o x, done)
          BY <2>11, AppendJoin, SMTT(60)
      <4> QED
          BY <2>16, <3>2, <4>1
    <3> QED
        BY <3>3, <3>4
  <2>22. Lacks(y, Terminals) /\ Lacks(y, {"tool_completed"})
    <3>1. Lacks(y, Terminals \cup {"tool_completed"})
        BY <1>1, <2>14, <2>19 DEF Live
    <3> QED
        BY <3>1, LacksLess
  <2>23. PICK y2 \in Seq(EventType) : y2 = Append(y1, usage)
      BY <2>11, AppendIs
  <2>24. Lacks(y2, Terminals) /\ Completes(y2, k)
    <3>1. Lacks(y1, Terminals)
        BY <2>6, <2>20, <2>22, ConcatLacks
    <3>2. Completes(y1, k)
        BY <2>6, <2>20, <2>22, CompletesJoin
    <3> QED
        BY <2>11, <2>23, <3>1, <3>2, AppendLacks, CompletesKept
  <2>25. Told(q \o p2, d, b)
    <3>1. PICK y3 : y3 = Append(y2, done)
        OBVIOUS
    <3>2. OfKind(y3, Terminals) = {Len(y3)} /\ y3[Len(y3)] = done
        BY <2>11, <2>24, <3>1, EndIs
    <3>3. q \o p2 = y3
        BY <2>21, <2>23, <3>1
    <3> QED
        BY <1>5, <2>11, <3>2, <3>3 DEF Told
  <2>26. Completes(q \o p2, k)
      BY <2>11, <2>21, <2>23, <2>24, CompletesKept
  <2>27. Done(u, c, q, b) /\ Halted(u, c)
      BY <1>3, <1>5, <2>3, <2>5, <2>18, <2>25, <2>26 DEF Done, Halted
  <2>28. Follows(t, u)
    <3>1. \A i \in DOMAIN p : i \in DOMAIN p1 /\ p1[i] = p[i]
        BY <2>15, ConcatIs
    <3>2. PICK x \in Seq(EventType) : x = Append(p1, usage)
        BY <2>11, AppendIs
    <3>3. \A i \in DOMAIN p1 : i \in DOMAIN x /\ x[i] = p1[i]
        BY <2>11, <3>2, AppendIs
    <3>4. \A i \in DOMAIN x : i \in DOMAIN p2 /\ p2[i] = x[i]
      <4>1. p2 = Append(x, done)
          BY <2>16, <3>2
      <4> QED
          BY <2>11, <4>1, AppendIs
    <3> QED
        BY <2>1, <2>14, <2>18, <3>1, <3>3, <3>4 DEF Follows
  <2> QED
      BY <1>1, <2>12, <2>18, <2>27, <2>28 DEF Goes, Sound
<1> QED
    BY <1>4, <1>5

(* The end of an output with an issue.                                     *)
LEMMA IssueIs ==
    ASSUME NEW t, NEW c \in ControlType, NEW q \in Seq(EventType), NEW b \in BOOLEAN,
           Sound(t, c, q, b), ~t.terminal, Recorded(t.ev, c), c.over,
           t.gate.life = "ABORTED" => c.reason \in Lifecycle,
           NEW f, NEW stop, NEW active
    PROVE  LET u == HandleIssue(t, c.reason, f, stop, active)
           IN  Goes(t, u, c, q, b) /\ u.terminal
<1>1. t \in SessionType
    BY DEF Sound
<1>2. PICK v : v = [t EXCEPT !.deferred = NoOutput]
    OBVIOUS
<1>3. /\ v \in SessionType /\ v.gate = t.gate /\ v.pending = t.pending
      /\ v.commit = t.commit /\ v.ev = t.ev /\ v.decision = t.decision
      /\ v.terminal = t.terminal /\ v.stop = t.stop
  <2>1. NoOutput \in OutputType
      BY DEF NoOutput, Output, OutputType, Verdicts
  <2> QED
      BY <1>1, <1>2, <2>1 DEF SessionType
<1>4. Goes(t, v, c, q, b)
    BY <1>3, FlagsFree
<1>5. Sound(v, c, q, b)
    BY <1>4 DEF Goes
<1>6. PICK h : h = HandleIssue(t, c.reason, f, stop, active)
    OBVIOUS
<1>7. CASE FallbackAllowed(t, f, stop)
  <2>1. PICK u : u = ProcessOutput(v, c.reason, t.deferred)
      OBVIOUS
  <2>2. Goes(v, u, c, q, b)
    <3>1. t.deferred \in OutputType
        BY <1>1 DEF SessionType
    <3> QED
        BY <1>5, <2>1, <3>1, OutputIs
  <2>3. CASE u.terminal
    <3>1. h = u
        BY <1>2, <1>6, <1>7, <2>1, <2>3 DEF HandleIssue
    <3> QED
        BY <1>4, <1>6, <2>2, <2>3, <3>1, GoesOn
  <2>4. CASE ~u.terminal
    <3>1. h = CompleteSuccess(u)
        BY <1>2, <1>6, <1>7, <2>1, <2>4 DEF HandleIssue
    <3>2. Sound(u, c, q, b) /\ u.ev = t.ev /\ u.gate.life = t.gate.life
        BY <1>3, <2>2, <2>4 DEF Goes, Follows
    <3>3. Goes(u, h, c, q, b) /\ h.terminal
        BY <2>4, <3>1, <3>2, SuccessIs
    <3> QED
        BY <1>4, <1>6, <2>2, <3>3, GoesOn
  <2> QED
      BY <2>3, <2>4
<1>8. CASE ~FallbackAllowed(t, f, stop)
  <2>1. \E k : h = ModelFailure(v, c.reason, k)
      BY <1>2, <1>6, <1>8 DEF HandleIssue
  <2>2. Goes(v, h, c, q, b) /\ h.terminal
      BY <1>5, <2>1, FailuresEnd
  <2> QED
      BY <1>4, <1>6, <2>2, GoesOn
<1> QED
    BY <1>7, <1>8

(* The checks of a finished generation.                                    *)
LEMMA JudgeIs ==
    ASSUME NEW t, NEW c \in ControlType, NEW q \in Seq(EventType), NEW b \in BOOLEAN,
           Sound(t, c, q, b), ~t.terminal, Recorded(t.ev, c), c.over,
           t.gate.life = "ABORTED" => c.reason \in Lifecycle,
           NEW stop, NEW active, NEW shape
    PROVE  LET u == Judge(t, c.reason, stop, active, shape)
           IN  Goes(t, u, c, q, b) /\ u.terminal
<1>1. PICK u : u = Judge(t, c.reason, stop, active, shape)
    OBVIOUS
<1>2. \/ t.ev.owner = "lifecycle" /\ u = Emit(t)
      \/ \E k : u = ModelFailure(t, c.reason, k)
      \/ u = GuaranteeFailure(t, c.reason)
      \/ u = CompleteSuccess(t)
    BY <1>1 DEF Judge
<1>3. CASE t.ev.owner = "lifecycle" /\ u = Emit(t)
    BY <1>1, <1>3, EmitGoes
<1>4. CASE \E k : u = ModelFailure(t, c.reason, k)
    BY <1>1, <1>4, FailuresEnd
<1>5. CASE u = GuaranteeFailure(t, c.reason)
    BY <1>1, <1>5, FailuresEnd
<1>6. CASE u = CompleteSuccess(t)
    BY <1>1, <1>6, SuccessIs
<1> QED
    BY <1>2, <1>3, <1>4, <1>5, <1>6

-----------------------------------------------------------------------------
(* The handlers.                                                           *)

(* What a handler does to the queue, and to a session that is not over.    *)
Adds(t, u) ==
    /\ \A i \in DOMAIN t.pending : i \in DOMAIN u.pending /\ u.pending[i] = t.pending[i]
    /\ t.gate.life = "ABORTED" =>
          \A i \in DOMAIN u.pending \ DOMAIN t.pending :
             u.pending[i].kind \notin SemanticKinds

Outcome(t, u, c, q, b) ==
    /\ Sound(u, c, q, b)
    /\ Adds(t, u)
    /\ ~u.terminal => u.gate.life = t.gate.life /\ u.ev.rfail # "retry"

(* The evidence of the end is recorded before anything is published.       *)
LEMMA EvidenceSet ==
    ASSUME NEW t, NEW c, NEW q, NEW b, Sound(t, c, q, b), ~t.terminal,
           NEW v \in SessionType, v.gate = t.gate, v.pending = t.pending,
           v.commit = t.commit, v.decision = t.decision, v.terminal = t.terminal,
           v.stop = t.stop,
           Witnessed(v.ev, c), Clean(v.ev), v.ev.rfail = "retry" => b
    PROVE  Sound(v, c, q, b)
BY DEF Sound, Live

(* An outcome follows from what came behind the evidence.                  *)
LEMMA OutcomeIs ==
    ASSUME NEW t, NEW v, NEW c, NEW q, NEW b,
           v.gate = t.gate, v.pending = t.pending
    PROVE  \A u : Goes(v, u, c, q, b) /\ (u.terminal \/ v.ev.rfail # "retry")
                  => Outcome(t, u, c, q, b)
BY DEF Goes, Follows, Outcome, Adds

(* The runtime finished the generation.                                    *)
LEMMA FinishedIs ==
    ASSUME NEW t, NEW c \in ControlType, NEW q \in Seq(EventType), NEW b \in BOOLEAN,
           Sound(t, c, q, b), ~t.terminal, t.ev.rfail # "retry", c.over,
           t.gate.life = "ABORTED" => c.reason \in Lifecycle,
           NEW stop \in StopReasons, NEW active \in BOOLEAN, NEW f \in FinishType, NEW shape
    PROVE  Outcome(t, HandleFinished(t, c.reason, stop, active, f, shape), c, q, b)
<1>1. t.ev \in EvidenceType /\ Witnessed(t.ev, c) /\ Clean(t.ev)
    BY DEF Sound, SessionType, Live
<1>2. PICK x : x = RecordControlledReason(t.ev, c.reason)
    OBVIOUS
<1>3. /\ x \in EvidenceType /\ Witnessed(x, c) /\ Recorded(x, c) /\ Clean(x)
      /\ x.rfail # "retry"
    BY <1>1, <1>2, ReasonIs DEF Clean
<1>4. PICK y : y = RecordRuntimeFinished(x, stop)
    OBVIOUS
<1>5. /\ y \in EvidenceType /\ Witnessed(y, c) /\ Recorded(y, c) /\ Clean(y)
      /\ y.rfail # "retry"
  <2>1. PICK err \in {"retry", "final"} : TRUE
      OBVIOUS
  <2> QED
      BY <1>3, <1>4, <2>1, RuntimeIs
<1>6. PICK v : v = [t EXCEPT !.ev = y, !.proven = active]
    OBVIOUS
<1>7. /\ Sound(v, c, q, b) /\ ~v.terminal
      /\ v.ev = y /\ v.gate = t.gate /\ v.pending = t.pending
  <2>1. t \in SessionType
      BY DEF Sound
  <2>2. /\ v \in SessionType /\ v.gate = t.gate /\ v.pending = t.pending
        /\ v.commit = t.commit /\ v.ev = y /\ v.decision = t.decision
        /\ v.terminal = t.terminal /\ v.stop = t.stop
      BY <1>5, <1>6, <2>1 DEF SessionType
  <2>3. Sound(v, c, q, b)
      BY <1>5, <2>2, EvidenceSet
  <2> QED
      BY <2>2, <2>3
<1>8. PICK w : w = FinishParser(v, c.reason, f)
    OBVIOUS
<1>9. Goes(v, w, c, q, b)
    BY <1>7, <1>8, FinishIs
<1>10. ~w.terminal => Sound(w, c, q, b) /\ Recorded(w.ev, c)
                      /\ (w.gate.life = "ABORTED" => c.reason \in Lifecycle)
    BY <1>5, <1>7, <1>9 DEF Goes, Follows
<1>11. PICK u : u = HandleFinished(t, c.reason, stop, active, f, shape)
    OBVIOUS
<1>12. \/ w.terminal /\ u = w
       \/ ~w.terminal /\ u = HandleIssue(w, c.reason, f, stop, active)
       \/ ~w.terminal /\ u = Judge(w, c.reason, stop, active, shape)
    BY <1>2, <1>4, <1>6, <1>8, <1>11 DEF HandleFinished
<1>13. Goes(v, u, c, q, b)
  <2>1. CASE w.terminal /\ u = w
      BY <1>9, <2>1
  <2>2. CASE ~w.terminal /\ u = HandleIssue(w, c.reason, f, stop, active)
      BY <1>9, <1>10, <2>2, IssueIs, GoesOn
  <2>3. CASE ~w.terminal /\ u = Judge(w, c.reason, stop, active, shape)
      BY <1>9, <1>10, <2>3, JudgeIs, GoesOn
  <2> QED
      BY <1>12, <2>1, <2>2, <2>3
<1> QED
    BY <1>5, <1>7, <1>11, <1>13, OutcomeIs

(* The runtime failed, was cancelled, or its iterator ended.               *)
LEMMA EndedIs ==
    ASSUME NEW t, NEW c \in ControlType, NEW q \in Seq(EventType), NEW b \in BOOLEAN,
           Sound(t, c, q, b), ~t.terminal, t.ev.rfail # "retry", c.over,
           NEW err \in {"retry", "final"}, NEW f \in FinishType
    PROVE  /\ Outcome(t, HandleFailed(t, c.reason, err, f), c, q, b)
           /\ Outcome(t, HandleCancelled(t, c.reason, f), c, q, b)
           /\ Outcome(t, HandleEnd(t, c.reason, f), c, q, b)
<1>1. t.ev \in EvidenceType /\ Witnessed(t.ev, c) /\ Clean(t.ev) /\ (t.commit = "none" => b)
    BY DEF Sound, SessionType, Live
<1>2. PICK x : x = RecordControlledReason(t.ev, c.reason)
    OBVIOUS
<1>3. /\ x \in EvidenceType /\ Witnessed(x, c) /\ Recorded(x, c) /\ Clean(x)
      /\ x.rfail # "retry"
    BY <1>1, <1>2, ReasonIs DEF Clean
<1>4. PICK stop \in StopReasons : TRUE
    BY DEF StopReasons
<1>5. ASSUME NEW y \in EvidenceType, Witnessed(y, c), Recorded(y, c), Clean(y),
             y.rfail = "retry" => b, y.owner # "none"
      PROVE  LET w == FinishParser([t EXCEPT !.ev = y], c.reason, f)
             IN  /\ Outcome(t, EmitUnlessTerminal(w), c, q, b)
                 /\ y.rfail # "retry" => Outcome(t, w, c, q, b)
  <2>1. PICK v : v = [t EXCEPT !.ev = y]
      OBVIOUS
  <2>2. /\ Sound(v, c, q, b) /\ ~v.terminal
        /\ v.ev = y /\ v.gate = t.gate /\ v.pending = t.pending
    <3>1. t \in SessionType
        BY DEF Sound
    <3>2. /\ v \in SessionType /\ v.gate = t.gate /\ v.pending = t.pending
          /\ v.commit = t.commit /\ v.ev = y /\ v.decision = t.decision
          /\ v.terminal = t.terminal /\ v.stop = t.stop
        BY <1>5, <2>1, <3>1 DEF SessionType
    <3>3. Sound(v, c, q, b)
        BY <1>5, <3>2, EvidenceSet
    <3> QED
        BY <3>2, <3>3
  <2>3. PICK w : w = FinishParser(v, c.reason, f)
      OBVIOUS
  <2>4. Goes(v, w, c, q, b)
      BY <2>2, <2>3, FinishIs
  <2>5. PICK u : u = EmitUnlessTerminal(w)
      OBVIOUS
  <2>6. Goes(v, u, c, q, b) /\ u.terminal
    <3>1. CASE w.terminal
        BY <2>4, <2>5, <3>1 DEF EmitUnlessTerminal
    <3>2. CASE ~w.terminal
      <4>1. Sound(w, c, q, b) /\ w.ev = y
          BY <2>2, <2>4, <3>2 DEF Goes, Follows
      <4>2. Goes(w, u, c, q, b) /\ u.terminal
          BY <1>5, <2>5, <3>2, <4>1, EmitGoes DEF EmitUnlessTerminal
      <4> QED
          BY <2>4, <4>2, GoesOn
    <3> QED
        BY <3>1, <3>2
  <2>7. Outcome(t, u, c, q, b)
      BY <2>2, <2>6, OutcomeIs
  <2>8. y.rfail # "retry" => Outcome(t, w, c, q, b)
      BY <2>2, <2>4, OutcomeIs
  <2> QED
      BY <2>1, <2>3, <2>5, <2>7, <2>8
<1>6. Outcome(t, HandleFailed(t, c.reason, err, f), c, q, b)
  <2>1. PICK e \in {"retry", "final"} : e = Committed(t, err) /\ (e = "retry" => b)
      BY <1>1 DEF Committed
  <2>2. PICK y : y = RecordRuntimeFailure(x, e)
      OBVIOUS
  <2>3. /\ y \in EvidenceType /\ Witnessed(y, c) /\ Recorded(y, c) /\ Clean(y)
        /\ y.rfail = "retry" => b
        /\ y.owner # "none"
      BY <1>3, <1>4, <2>1, <2>2, RuntimeIs
  <2> QED
      BY <1>2, <1>5, <2>1, <2>2, <2>3 DEF HandleFailed
<1>7. Outcome(t, HandleCancelled(t, c.reason, f), c, q, b)
  <2>1. PICK y : y = IF x.owner = "lifecycle" THEN x ELSE RecordRuntimeCancelled(x)
      OBVIOUS
  <2>2. /\ y \in EvidenceType /\ Witnessed(y, c) /\ Recorded(y, c) /\ Clean(y)
        /\ y.rfail # "retry" /\ y.owner # "none"
      BY <1>3, <1>4, <2>1, RuntimeIs
  <2> QED
      BY <1>2, <1>5, <2>1, <2>2 DEF HandleCancelled
<1>8. Outcome(t, HandleEnd(t, c.reason, f), c, q, b)
  <2>1. PICK y : y = RecordRuntimeFailure(x, "final")
      OBVIOUS
  <2>2. /\ y \in EvidenceType /\ Witnessed(y, c) /\ Recorded(y, c) /\ Clean(y)
        /\ y.rfail # "retry" /\ y.owner # "none"
      BY <1>3, <1>4, <2>1, RuntimeIs
  <2>3. PICK w : w = FinishParser([t EXCEPT !.ev = y], c.reason, f)
      OBVIOUS
  <2>4. HandleEnd(t, c.reason, f) \in {w, EmitUnlessTerminal(w)}
      BY <1>2, <2>1, <2>3 DEF HandleEnd
  <2> QED
      BY <1>5, <2>2, <2>3, <2>4
<1> QED
    BY <1>6, <1>7, <1>8

DeltaType ==
    [how : {"parsed", "early", "constraint", "parser", "budget", "raised"},
     out : OutputType, scope : {"none", "outside", "tool"}]

(* A delta arrived.                                                        *)
LEMMA DeltaIs ==
    ASSUME NEW t, NEW c \in ControlType, NEW q \in Seq(EventType), NEW b \in BOOLEAN,
           Sound(t, c, q, b), ~t.terminal, t.ev.rfail # "retry", NEW d \in DeltaType
    PROVE  Outcome(t, HandleDelta(t, c.reason, d), c, q, b)
<1>1. PICK u : u = HandleDelta(t, c.reason, d)
    OBVIOUS
<1>2. PICK v : v = [t EXCEPT !.fed = TRUE]
    OBVIOUS
<1>3. Goes(t, v, c, q, b) /\ Sound(v, c, q, b)
  <2>1. t \in SessionType
      BY DEF Sound
  <2>2. /\ v \in SessionType /\ v.gate = t.gate /\ v.pending = t.pending
        /\ v.commit = t.commit /\ v.ev = t.ev /\ v.decision = t.decision
        /\ v.terminal = t.terminal /\ v.stop = t.stop
      BY <1>2, <2>1 DEF SessionType
  <2>3. Goes(t, v, c, q, b)
      BY <2>2, FlagsFree
  <2> QED
      BY <2>3 DEF Goes
<1>4. PICK w : w = ProcessOutput(v, c.reason, d.out)
    OBVIOUS
<1>5. Goes(t, w, c, q, b) /\ Sound(w, c, q, b)
  <2>1. d.out \in OutputType
      BY DEF DeltaType
  <2>2. Goes(v, w, c, q, b)
      BY <1>3, <1>4, <2>1, OutputIs
  <2> QED
      BY <1>3, <2>2, GoesOn DEF Goes
<1>6. \/ u = w
      \/ u = ModelFailure(w, c.reason, FALSE)
      \/ u = TriggerFailure(t, c.reason) \/ u = ParserFailure(t, c.reason)
      \/ u = BudgetFailure(t, c.reason) \/ u = UnknownFailure(t, c.reason)
    BY <1>1, <1>2, <1>4 DEF HandleDelta, DeltaType
<1>7. Goes(t, u, c, q, b)
  <2>1. CASE u = w
      BY <1>5, <2>1
  <2>2. CASE u = ModelFailure(w, c.reason, FALSE)
      BY <1>5, <2>2, FailuresEnd, GoesOn
  <2>3. CASE \/ u = TriggerFailure(t, c.reason) \/ u = ParserFailure(t, c.reason)
             \/ u = BudgetFailure(t, c.reason) \/ u = UnknownFailure(t, c.reason)
      BY <2>3, FailuresEnd
  <2> QED
      BY <1>6, <2>1, <2>2, <2>3
<1> QED
    BY <1>1, <1>7, OutcomeIs

-----------------------------------------------------------------------------
(* The controlled session around the handlers.                             *)

(* What the parser may do has the types the handlers expect.               *)
LEMMA ChoicesTyped ==
    ASSUME policy \in Policies
    PROVE  /\ Deltas \subseteq DeltaType /\ Finishes \subseteq FinishType
           /\ Activations \subseteq BOOLEAN
<1>1. /\ NoOutput \in OutputType /\ TextOnly \in OutputType
      /\ \A c \in Calls : Output(FALSE, c, "valid") \in OutputType
    BY DEF NoOutput, TextOnly, Output, OutputType, Verdicts
<1>2. Outputs \subseteq OutputType
    BY <1>1 DEF Outputs, OutputType
<1>3. Deltas \subseteq DeltaType
    BY <1>1, <1>2 DEF Deltas, DeltaType
<1>4. FinishOutcomes \subseteq FinishType
  <2>1. {NoOutput, TextOnly} \cup {Output(FALSE, c, "valid") : c \in Calls} \subseteq OutputType
      BY <1>1
  <2> QED
      BY <1>1, <2>1 DEF FinishOutcomes, FinishType
<1> QED
    BY <1>3, <1>4 DEF Finishes, Activations

(* The reason is given once and the iteration ends once.                   *)
Moves(c, d) ==
    /\ c.reason # "none" => d.reason = c.reason
    /\ c.over => d.over /\ d.reason = c.reason
    /\ c.asked => d.asked

(* A session stays what it is when the controlled session moves on.        *)
LEMMA MovesIs ==
    ASSUME NEW t, NEW c, NEW q, NEW b, Sound(t, c, q, b), ~t.stop,
           c.asked => c.reason # "none"
    PROVE  \A d : Moves(c, d) => Sound(t, d, q, b)
<1>1. ASSUME NEW d, Moves(c, d) PROVE Sound(t, d, q, b)
  <2>1. Witnessed(t.ev, d)
    <3>1. t.ev \in EvidenceType
        BY DEF Sound, SessionType
    <3>2. t.ev.origin # "none" => c.reason # "none" /\ t.ev.origin = d.reason
        BY <1>1 DEF Sound, Witnessed, Moves
    <3> QED
        BY <1>1, <3>1, <3>2 DEF Sound, Witnessed, Moves
  <2>2. ~t.terminal => Live(t, d, q, b)
      BY DEF Sound, Live
  <2>3. ASSUME t.terminal PROVE Done(t, d, q, b) /\ Halted(t, d)
    <3>1. Done(t, c, q, b) /\ Halted(t, c)
        BY <2>3 DEF Sound
    <3>2. t.decision.owner \notin {"lifecycle", "unknown"} =>
             d.reason = c.reason /\ (d.over \/ d.asked)
        BY <1>1, <3>1 DEF Halted, Moves
    <3> QED
        BY <3>1, <3>2 DEF Done, Halted
  <2> QED
      BY <2>1, <2>2, <2>3 DEF Sound
<1> QED
    BY <1>1

(* When a handler begins, nothing committed means nothing was published.   *)
LEMMA BeginsIs ==
    ASSUME NEW t, NEW c, NEW q, Sound(t, c, q, TRUE), ~t.terminal, t.ev.rfail # "retry"
    PROVE  Sound(t, c, q, t.commit = "none")
BY DEF Sound, Live

(* What held for the step holds behind it.                                 *)
LEMMA RestsIs ==
    ASSUME NEW t, NEW c, NEW q, NEW b, Sound(t, c, q, b)
    PROVE  Sound(t, c, q, TRUE)
BY DEF Sound, Live, Done, Told

(* The runtime's first event is handed on.                                 *)
LEMMA StartedIs ==
    ASSUME NEW t, NEW c \in ControlType, NEW q \in Seq(EventType), NEW b,
           Sound(t, c, q, b), ~t.terminal, t.ev.rfail # "retry"
    PROVE  Outcome(t, [t EXCEPT !.pending = Append(@, Plain("started"))], c, q, b)
<1>1. t \in SessionType /\ Live(t, c, q, b)
    BY DEF Sound
<1>2. PICK p \in Seq(EventType) : p = t.pending
    BY <1>1 DEF SessionType
<1>3. PICK e \in EventType : e = Plain("started") /\ e.kind = "started"
  <2>1. Plain("started").kind = "started" /\ Plain("started") \in EventType
      BY DEF Plain, Event, EventType, SessionKinds, Verdicts
  <2> QED
      BY <2>1
<1>4. PICK u : u = [t EXCEPT !.pending = Append(p, e)]
    OBVIOUS
<1>5. Append(p, e) \in Seq(EventType)
    BY AppendIs
<1>6. /\ u \in SessionType /\ u.gate = t.gate /\ u.pending = Append(p, e)
      /\ u.commit = t.commit /\ u.ev = t.ev /\ u.decision = t.decision
      /\ u.terminal = t.terminal /\ u.stop = t.stop
    BY <1>1, <1>4, <1>5 DEF SessionType
<1>7. PICK z \in Seq(EventType) : z = q \o p
    BY ConcatIs
<1>8. q \o u.pending = Append(z, e)
    BY <1>6, <1>7, AppendJoin
<1>9. \A K : Lacks(z, K) /\ "started" \notin K => Lacks(q \o u.pending, K)
    BY <1>3, <1>8, AppendLacks
<1>10. Lacks(q \o u.pending, Terminals \cup {"tool_completed"})
    BY <1>1, <1>2, <1>7, <1>9 DEF Live, Terminals
<1>11. u.commit = "none" => Lacks(q \o u.pending, SemanticKinds) /\ b
    BY <1>1, <1>2, <1>6, <1>7, <1>9 DEF Live, SemanticKinds
<1>12. Sound(u, c, q, b)
    BY <1>1, <1>6, <1>10, <1>11 DEF Sound, Live
<1>13. Adds(t, u)
  <2>1. /\ \A i \in DOMAIN p : i \in DOMAIN u.pending /\ u.pending[i] = p[i]
        /\ \A i \in DOMAIN u.pending \ DOMAIN p : u.pending[i].kind = "started"
      BY <1>3, <1>6, AppendIs
  <2> QED
      BY <1>2, <2>1 DEF Adds, SemanticKinds
<1> QED
    BY <1>2, <1>3, <1>4, <1>6, <1>12, <1>13 DEF Outcome

(* What a handled event leaves behind, for the step that handled it.       *)
Handled ==
    /\ ~s.terminal /\ seen' = seen
    /\ Sound(s', ctl', seen', s.commit = "none")
    /\ Adds(s, s')

(* The handler's session is stored, and the runtime stopped if it says so. *)
LEMMA SettleIs ==
    ASSUME IndInv, ~s.terminal, NEW t, NEW c \in ControlType,
           NEW j \in {"running", "cancelled", "ended"},
           Moves(ctl, c), c.asked => c.reason # "none",
           c.reason # "none" => c.asked \/ c.over, c.over \/ c = ctl,
           c.asked \/ c.over => j # "running",
           Outcome(s, t, c, seen, s.commit = "none"),
           Settle(t, c, j), seen' = seen, policy' = policy, canceller' = canceller,
           n' \in 0..MaxDeltas
    PROVE  IndInv' /\ Handled
<1>1. PICK b \in BOOLEAN : b = (s.commit = "none")
    OBVIOUS
<1>2. Sound(t, c, seen, b) /\ t \in SessionType
    BY <1>1 DEF Outcome, Sound
<1>3. /\ s' \in SessionType /\ s'.gate = t.gate /\ s'.pending = t.pending
      /\ s'.commit = t.commit /\ s'.ev = t.ev /\ s'.decision = t.decision
      /\ s'.terminal = t.terminal /\ s'.stop = FALSE
    BY <1>2 DEF Settle, SessionType
<1>4. CASE t.stop /\ ~c.over /\ ~c.asked
  <2>1. t.terminal /\ Done(t, c, seen, b)
      BY <1>2, <1>4 DEF Sound, Live
  <2>2. /\ ctl' \in ControlType /\ ctl'.over = FALSE /\ ctl'.asked = TRUE
        /\ ctl'.reason = "application_cancelled" /\ c.reason = "none"
        /\ job' = Stopped(j) /\ reader' = "stop"
      BY <1>4 DEF Settle, ControlType, Reasons, First
  <2>3. Witnessed(s'.ev, ctl')
    <3>1. t.ev \in EvidenceType /\ Witnessed(t.ev, c)
        BY <1>2 DEF Sound, SessionType
    <3>2. t.ev.origin = "none" /\ t.ev.owner = "none" /\ t.ev.stop = "none"
        BY <1>4, <2>2, <3>1 DEF Witnessed, EvidenceType
    <3> QED
        BY <1>3, <3>2 DEF Witnessed
  <2>4. Done(s', ctl', seen', b) /\ Halted(s', ctl')
    <3>1. ctl'.reason \notin Lifecycle
        BY <2>2 DEF Lifecycle
    <3> QED
        BY <1>3, <2>1, <2>2, <3>1 DEF Done, Halted
  <2>5. Sound(s', ctl', seen', b)
      BY <1>3, <2>1, <2>3, <2>4 DEF Sound
  <2>6. job' \in {"cancelled", "ended"}
      BY <2>2 DEF Stopped
  <2>7. Types'
      BY <2>2, <2>6 DEF Types, IndInv
  <2>8. ControlInv'
      BY <1>3, <2>1, <2>2, <2>6 DEF ControlInv, Waiting
  <2> QED
      BY <1>1, <1>3, <2>1, <2>5, <2>7, <2>8, RestsIs DEF IndInv, Handled, Outcome, Adds
<1>5. CASE ~(t.stop /\ ~c.over /\ ~c.asked)
  <2>1. ctl' = c /\ job' = j /\ reader' = "out"
      BY <1>5 DEF Settle
  <2>2. Sound(s', ctl', seen', b)
    <3>1. Witnessed(s'.ev, ctl')
        BY <1>2, <1>3, <2>1 DEF Sound
    <3>2. ASSUME ~s'.terminal PROVE Live(s', ctl', seen', b)
        BY <1>2, <1>3, <2>1, <3>2 DEF Sound, Live
    <3>3. ASSUME s'.terminal PROVE Done(s', ctl', seen', b) /\ Halted(s', ctl')
      <4>1. Done(t, c, seen, b) /\ Halted(t, c)
          BY <1>2, <1>3, <3>3 DEF Sound
      <4> QED
          BY <1>3, <1>5, <2>1, <4>1 DEF Done, Halted
    <3> QED
        BY <1>3, <3>1, <3>2, <3>3 DEF Sound
  <2>3. Types'
      BY <2>1 DEF Types, IndInv
  <2>4. ControlInv'
    <3>1. ~s'.terminal => s'.gate.life = s.gate.life
        BY <1>3 DEF Outcome
    <3>2. ASSUME ~s'.terminal, s'.gate.life = "ABORTED" PROVE ctl'.asked \/ ctl'.over
        BY <2>1, <3>1, <3>2 DEF IndInv, ControlInv, Moves
    <3>3. ASSUME ~s'.terminal, ctl'.asked, ~ctl'.over PROVE ctl'.reason \in Lifecycle
        BY <2>1, <3>3 DEF IndInv, ControlInv
    <3> QED
        BY <2>1, <3>2, <3>3 DEF ControlInv, Waiting
  <2>5. ~s'.terminal => s'.ev.rfail # "retry"
      BY <1>3 DEF Outcome
  <2> QED
      BY <1>1, <1>3, <2>2, <2>3, <2>4, <2>5, RestsIs DEF IndInv, Handled, Outcome, Adds
<1> QED
    BY <1>4, <1>5

(* The iteration is over, for the reason it was given first.               *)
LEMMA OverIs ==
    ASSUME ctl \in ControlType, ~ctl.over
    PROVE  \A r \in Reasons \ {"none"} :
              /\ Over(r) \in ControlType /\ Over(r).over /\ Over(r).reason # "none"
              /\ Over(r).asked = ctl.asked /\ Moves(ctl, Over(r))
              /\ ctl.reason # "none" => Over(r).reason = ctl.reason
<1> TAKE r \in Reasons \ {"none"}
<1>1. First(ctl.reason, r) \in Reasons
    BY DEF First, ControlType
<1>2. /\ Over(r).over = TRUE /\ Over(r).asked = ctl.asked
      /\ Over(r).reason = First(ctl.reason, r) /\ Over(r) \in ControlType
    BY <1>1 DEF Over, ControlType
<1>3. First(ctl.reason, r) # "none"
      /\ (ctl.reason # "none" => First(ctl.reason, r) = ctl.reason)
    BY DEF First
<1> QED
    BY <1>2, <1>3 DEF Moves

(* Whatever the runtime hands over.                                        *)
LEMMA ReceivesIs ==
    ASSUME IndInv, ~s.terminal, NEW e, RuntimeEvent(e),
           NEW j \in {"running", "cancelled", "ended"},
           e.kind \notin {"started", "delta"} => j # "running",
           ctl.asked \/ ctl.over => j # "running",
           e.kind # "ended" => ~ctl.over,
           Receives(e, j), seen' = seen, policy' = policy, canceller' = canceller,
           n' \in 0..MaxDeltas
    PROVE  IndInv' /\ Handled
<1>1. PICK b \in BOOLEAN : b = (s.commit = "none")
    OBVIOUS
<1>2. /\ Sound(s, ctl, seen, TRUE) /\ ~s.stop /\ s.ev.rfail # "retry"
      /\ ctl \in ControlType /\ seen \in Seq(EventType)
      /\ ctl.asked => ctl.reason # "none"
      /\ ctl.reason # "none" => ctl.asked \/ ctl.over
    BY DEF IndInv, Types, ControlInv
<1>3. Sound(s, ctl, seen, b)
    BY <1>1, <1>2, BeginsIs
<1>4. \A c : Moves(ctl, c) => Sound(s, c, seen, b)
    BY <1>2, <1>3, MovesIs
<1>5. /\ Deltas \subseteq DeltaType /\ Finishes \subseteq FinishType
      /\ Activations \subseteq BOOLEAN
    BY ChoicesTyped DEF IndInv, Types
<1>6. Moves(ctl, ctl)
    BY DEF Moves
<1>7. ASSUME NEW t, NEW c \in ControlType, Moves(ctl, c), c.over \/ c = ctl,
             c.over => j # "running",
             c.asked = ctl.asked, c.asked => c.reason # "none",
             Outcome(s, t, c, seen, b), Settle(t, c, j)
      PROVE  IndInv' /\ Handled
  <2>1. c.reason # "none" => c.asked \/ c.over
      BY <1>2, <1>7
  <2>2. Outcome(s, t, c, seen, s.commit = "none")
      BY <1>1, <1>7
  <2> QED
      BY <1>7, <2>1, <2>2, SettleIs
<1>8. PICK d : d = [ctl EXCEPT !.over = TRUE]
    OBVIOUS
<1>9. /\ d \in ControlType /\ d.over = TRUE /\ d.asked = ctl.asked
      /\ d.reason = ctl.reason /\ Moves(ctl, d)
    BY <1>2, <1>8 DEF ControlType, Moves
<1>10. ASSUME NEW c \in ControlType, Moves(ctl, c), NEW t,
              t \in {UnknownFailure(s, c.reason)}
       PROVE  Outcome(s, t, c, seen, b)
  <2>1. Sound(s, c, seen, b)
      BY <1>4, <1>10
  <2>2. Goes(s, UnknownFailure(s, c.reason), c, seen, b) /\ UnknownFailure(s, c.reason).terminal
      BY <1>2, <2>1, FailuresEnd
  <2>3. Goes(s, t, c, seen, b) /\ t.terminal
      BY <1>10, <2>2
  <2> QED
      BY <2>3, OutcomeIs
<1>11. CASE /\ e.kind = "started"
            /\ Settle([s EXCEPT !.pending = Append(@, Plain("started"))], ctl, j)
  <2>1. Outcome(s, [s EXCEPT !.pending = Append(@, Plain("started"))], ctl, seen, b)
      BY <1>2, <1>3, StartedIs
  <2> QED
      BY <1>2, <1>6, <1>7, <1>11, <2>1
<1>12. CASE /\ e.kind = "delta"
            /\ \E x \in Deltas : Settle(HandleDelta(s, ctl.reason, x), ctl, j)
  <2>1. PICK x \in DeltaType : Settle(HandleDelta(s, ctl.reason, x), ctl, j)
      BY <1>5, <1>12
  <2>2. Outcome(s, HandleDelta(s, ctl.reason, x), ctl, seen, b)
      BY <1>2, <1>3, DeltaIs
  <2> QED
      BY <1>2, <1>6, <1>7, <2>1, <2>2
<1>13. CASE /\ e.kind = "finished"
            /\ LET c == Over("completed")
               IN  \E f \in Finishes, active \in Activations, shape \in Shapes :
                      Settle(HandleFinished(s, c.reason, e.verdict, active, f, shape), c, j)
  <2>1. PICK c : c = Over("completed")
      OBVIOUS
  <2>2. /\ c \in ControlType /\ c.over /\ c.reason # "none" /\ c.asked = ctl.asked
        /\ Moves(ctl, c) /\ (ctl.reason # "none" => c.reason = ctl.reason)
      BY <1>2, <1>13, <2>1, OverIs DEF Reasons
  <2>3. PICK f \in FinishType, active \in BOOLEAN, shape \in Shapes :
           Settle(HandleFinished(s, c.reason, e.verdict, active, f, shape), c, j)
      BY <1>5, <1>13, <2>1
  <2>4. s.gate.life = "ABORTED" => c.reason \in Lifecycle
    <3>1. s.gate.life = "ABORTED" => ctl.reason \in Lifecycle
        BY <1>13 DEF IndInv, ControlInv
    <3> QED
        BY <2>2, <3>1 DEF Lifecycle
  <2>5. e.verdict \in StopReasons /\ Sound(s, c, seen, b)
      BY <1>4, <1>13, <2>2 DEF RuntimeEvent
  <2>6. Outcome(s, HandleFinished(s, c.reason, e.verdict, active, f, shape), c, seen, b)
      BY <1>2, <2>2, <2>4, <2>5, FinishedIs
  <2> QED
      BY <1>7, <1>13, <2>2, <2>3, <2>6
<1>14. CASE /\ e.kind = "failed"
            /\ LET c == Over("runtime_failed")
               IN  \E f \in Finishes : Settle(HandleFailed(s, c.reason, e.verdict, f), c, j)
  <2>1. PICK c : c = Over("runtime_failed")
      OBVIOUS
  <2>2. /\ c \in ControlType /\ c.over /\ c.reason # "none" /\ c.asked = ctl.asked
        /\ Moves(ctl, c)
      BY <1>2, <1>14, <2>1, OverIs DEF Reasons
  <2>3. PICK f \in FinishType : Settle(HandleFailed(s, c.reason, e.verdict, f), c, j)
      BY <1>5, <1>14, <2>1
  <2>4. e.verdict \in {"retry", "final"} /\ Sound(s, c, seen, b)
      BY <1>4, <1>14, <2>2 DEF RuntimeEvent
  <2>5. Outcome(s, HandleFailed(s, c.reason, e.verdict, f), c, seen, b)
      BY <1>2, <2>2, <2>4, EndedIs
  <2> QED
      BY <1>7, <1>14, <2>2, <2>3, <2>5
<1>15. CASE /\ e.kind = "cancelled"
            /\ LET c == Over("runtime_cancelled")
               IN  \E f \in Finishes : Settle(HandleCancelled(s, c.reason, f), c, j)
  <2>1. PICK c : c = Over("runtime_cancelled")
      OBVIOUS
  <2>2. /\ c \in ControlType /\ c.over /\ c.reason # "none" /\ c.asked = ctl.asked
        /\ Moves(ctl, c)
      BY <1>2, <1>15, <2>1, OverIs DEF Reasons
  <2>3. PICK f \in FinishType : Settle(HandleCancelled(s, c.reason, f), c, j)
      BY <1>5, <1>15, <2>1
  <2>4. Sound(s, c, seen, b)
      BY <1>4, <2>2
  <2>5. \A err \in {"retry", "final"} : Outcome(s, HandleCancelled(s, c.reason, f), c, seen, b)
      BY <1>2, <2>2, <2>4, EndedIs
  <2> QED
      BY <1>7, <1>15, <2>2, <2>3, <2>5
<1>16. CASE /\ e.kind = "ended"
            /\ \E f \in Finishes :
                  Settle(HandleEnd(s, ctl.reason, f), [ctl EXCEPT !.over = TRUE], j)
  <2>1. PICK f \in FinishType : Settle(HandleEnd(s, d.reason, f), d, j)
      BY <1>5, <1>8, <1>9, <1>16
  <2>2. Sound(s, d, seen, b)
      BY <1>4, <1>9
  <2>3. \A err \in {"retry", "final"} : Outcome(s, HandleEnd(s, d.reason, f), d, seen, b)
      BY <1>2, <1>9, <2>2, EndedIs
  <2> QED
      BY <1>2, <1>7, <1>9, <1>16, <2>1, <2>3
<1>17. CASE /\ e.kind = "raised"
            /\ Settle(UnknownFailure(s, ctl.reason), [ctl EXCEPT !.over = TRUE], j)
  <2>1. Settle(UnknownFailure(s, d.reason), d, j)
      BY <1>8, <1>9, <1>17
  <2>2. Outcome(s, UnknownFailure(s, d.reason), d, seen, b)
      BY <1>9, <1>10
  <2> QED
      BY <1>2, <1>7, <1>9, <1>17, <2>1, <2>2
<1> QED
    BY <1>11, <1>12, <1>13, <1>14, <1>15, <1>16, <1>17 DEF Receives

-----------------------------------------------------------------------------
(* The steps.                                                              *)

(* Either an event was handled or the stream is what it was.               *)
StepOk == IndInv' /\ (Handled \/ Queued' = Queued)

(* The session is left alone while the controlled session moves on.        *)
LEMMA ControlStep ==
    ASSUME IndInv, s' = s, seen' = seen, ctl' \in ControlType, Moves(ctl, ctl'),
           Types', ControlInv'
    PROVE  StepOk
<1>1. Sound(s, ctl', seen, TRUE)
  <2>1. /\ Sound(s, ctl, seen, TRUE) /\ ~s.stop
        /\ ctl.asked => ctl.reason # "none"
      BY DEF IndInv, ControlInv
  <2> QED
      BY <2>1, MovesIs
<1>2. Sound(s', ctl', seen', TRUE) /\ Queued' = Queued
    BY <1>1 DEF Queued
<1> QED
    BY <1>2 DEF StepOk, IndInv

(* The session stops the runtime for a reason of its caller's.             *)
LEMMA AsksIs ==
    ASSUME IndInv, NEW r \in Lifecycle, Asks(r)
    PROVE  /\ ctl' \in ControlType /\ Moves(ctl, ctl') /\ ctl'.over = ctl.over
           /\ ctl'.asked \/ ctl'.over
           /\ ctl'.asked => ctl'.reason # "none"
           /\ ~s.terminal /\ ctl'.asked /\ ~ctl'.over => ctl'.reason \in Lifecycle
           /\ job' \in {"cancelled", "ended"}
<1>1. ctl \in ControlType /\ job \in {"running", "cancelled", "ended"} /\ ControlInv
    BY DEF IndInv, Types
<1>2. CASE ctl.over \/ ctl.asked
    BY <1>1, <1>2 DEF Asks, ControlInv, Moves
<1>3. CASE ~(ctl.over \/ ctl.asked)
  <2>1. ctl.reason = "none" /\ First(ctl.reason, r) = r /\ r \in Reasons /\ r # "none"
      BY <1>1, <1>3 DEF ControlInv, First, Reasons, Lifecycle
  <2>2. /\ ctl' \in ControlType /\ ctl'.reason = r /\ ctl'.asked = TRUE
        /\ ctl'.over = ctl.over /\ job' = Stopped(job)
      BY <1>1, <1>3, <2>1 DEF Asks, ControlType
  <2>3. job' \in {"cancelled", "ended"}
      BY <1>1, <2>2 DEF Stopped
  <2> QED
      BY <1>3, <2>1, <2>2, <2>3 DEF Moves
<1> QED
    BY <1>2, <1>3

(* What the runtime yields is an event of the runtime.                     *)
LEMMA EventsAre ==
    ASSUME NEW e \in RuntimeEvents
    PROVE  RuntimeEvent(e) /\ (e.kind = "started" => n = 0)
           /\ (e.kind = "delta" => n < MaxDeltas)
<1>1. \/ e = Plain("started") /\ n = 0
      \/ e = Plain("delta") /\ n < MaxDeltas
      \/ \E stop \in StopReasons : e = Event("finished", NoCall, stop)
      \/ \E err \in {"retry", "final"} : e = Event("failed", NoCall, err)
      \/ e \in {Plain("cancelled"), Plain("ended"), Plain("raised")}
    BY Zenon DEF RuntimeEvents
<1> QED
    BY <1>1 DEF RuntimeEvent, RuntimeKinds, Plain, Event

(* The runtime answers, to the reader or into its hand.                    *)
LEMMA YieldsStep ==
    ASSUME IndInv, RuntimeYields PROVE StepOk
<1>1. PICK e \in RuntimeEvents :
         LET more == e.kind \in {"started", "delta"}
             j == IF more THEN job ELSE "ended"
         IN  /\ n' = IF more THEN n + 1 ELSE n
             /\ IF reader = "timed"
                THEN /\ got' = e /\ reader' = "window" /\ job' = j
                     /\ UNCHANGED <<s, ctl>>
                ELSE Receives(e, j) /\ UNCHANGED got
    BY DEF RuntimeYields
<1>2. PICK j : j = IF e.kind \in {"started", "delta"} THEN job ELSE "ended"
    OBVIOUS
<1>3. /\ IndInv /\ Types /\ ControlInv
      /\ reader \in {"timed", "plain"} /\ reader \in Waiting
      /\ policy' = policy /\ canceller' = canceller /\ seen' = seen
    BY DEF RuntimeYields, IndInv, Waiting
<1>4. ~s.terminal /\ ~ctl.over /\ s.pending = <<>>
    BY <1>3 DEF ControlInv
<1>5. RuntimeEvent(e) /\ n' \in 0..MaxDeltas
  <2>1. n \in Nat /\ n <= MaxDeltas /\ MaxDeltas \in Nat /\ 1 <= MaxDeltas
      BY <1>3, ServingAssumption DEF Types
  <2> QED
      BY <1>1, <2>1, EventsAre
<1>6. /\ j \in {"running", "cancelled", "ended"}
      /\ e.kind \notin {"started", "delta"} => j # "running"
      /\ ctl.asked \/ ctl.over => j # "running"
    BY <1>2, <1>3 DEF Types, ControlInv
<1>7. CASE reader = "timed"
  <2>1. got' = e /\ reader' = "window" /\ job' = j /\ s' = s /\ ctl' = ctl
      BY <1>1, <1>2, <1>7
  <2>2. Types' /\ Moves(ctl, ctl) /\ ctl \in ControlType
      BY <1>3, <1>5, <1>6, <2>1 DEF Types, Waiting, Moves
  <2>3. ControlInv'
      BY <1>3, <1>4, <1>5, <1>6, <2>1 DEF ControlInv, RuntimeEvent
  <2> QED
      BY <1>3, <2>1, <2>2, <2>3, ControlStep
<1>8. CASE reader # "timed"
  <2>1. Receives(e, j)
      BY <1>1, <1>2, <1>8
  <2>2. IndInv' /\ Handled
      BY <1>3, <1>4, <1>5, <1>6, <2>1, ReceivesIs
  <2> QED
      BY <2>2 DEF StepOk
<1> QED
    BY <1>7, <1>8

(* The reader has reaped the deadline task and handles its event.          *)
LEMMA WindowStep ==
    ASSUME IndInv, WindowCloses PROVE StepOk
<1>1. /\ reader = "window" /\ reader \in Waiting /\ Types /\ ControlInv
      /\ Receives(got, job) /\ n' = n
      /\ policy' = policy /\ canceller' = canceller /\ seen' = seen
    BY DEF WindowCloses, IndInv, Waiting
<1>2. /\ ~s.terminal /\ ~ctl.over /\ RuntimeEvent(got)
      /\ got.kind \notin {"started", "delta"} => job # "running"
      /\ ctl.asked \/ ctl.over => job # "running"
    BY <1>1 DEF ControlInv
<1>3. n' \in 0..MaxDeltas /\ job \in {"running", "cancelled", "ended"}
    BY <1>1 DEF Types
<1>4. IndInv' /\ Handled
    BY <1>1, <1>2, <1>3, ReceivesIs
<1> QED
    BY <1>4 DEF StepOk

(* The deadline passes: the reason is recorded before the runtime is told. *)
LEMMA DeadlineStep ==
    ASSUME IndInv, DeadlinePasses PROVE StepOk
<1>1. /\ reader = "timed" /\ reader \in Waiting /\ Types /\ ControlInv
      /\ reader' \in {"plain", "expired"} /\ job' = Stopped(job) /\ s' = s /\ n' = n
      /\ ctl' = [ctl EXCEPT !.reason = First(@, "timeout"), !.asked = TRUE]
      /\ policy' = policy /\ canceller' = canceller /\ seen' = seen
    BY DEF DeadlinePasses, IndInv, Waiting
<1>2. /\ ~s.terminal /\ ~ctl.over /\ s.pending = <<>>
      /\ ctl.reason # "none" => ctl.reason \in Lifecycle
    BY <1>1 DEF ControlInv
<1>3. PICK r \in Lifecycle : r = First(ctl.reason, "timeout") /\ r # "none"
                             /\ (ctl.reason # "none" => r = ctl.reason)
    BY <1>2 DEF First, Lifecycle
<1>4. /\ ctl' \in ControlType /\ ctl'.reason = r /\ ctl'.asked = TRUE
      /\ ctl'.over = ctl.over
    BY <1>1, <1>3 DEF Types, ControlType, Reasons
<1>5. job' \in {"cancelled", "ended"}
    BY <1>1 DEF Stopped, Types
<1>6. Types'
    BY <1>1, <1>4, <1>5 DEF Types, Waiting
<1>7. ControlInv'
    BY <1>1, <1>2, <1>3, <1>4, <1>5 DEF ControlInv
<1>8. Moves(ctl, ctl')
    BY <1>2, <1>3, <1>4 DEF Moves
<1> QED
    BY <1>1, <1>4, <1>6, <1>7, <1>8, ControlStep

(* The runtime was told, or could not be.                                  *)
LEMMA ExpiryStep ==
    ASSUME IndInv, ExpiryCancelled PROVE StepOk
<1>1. /\ reader = "expired" /\ reader \in Waiting /\ Types /\ ControlInv /\ n' = n
      /\ policy' = policy /\ canceller' = canceller /\ seen' = seen
      /\ \/ reader' = "plain" /\ s' = s /\ ctl' = ctl /\ job' = job
         \/ Receives(Plain("raised"), job)
    BY DEF ExpiryCancelled, IndInv, Waiting
<1>2. ~s.terminal /\ ~ctl.over /\ s.pending = <<>> /\ job # "running"
    BY <1>1 DEF ControlInv
<1>3. CASE reader' = "plain" /\ s' = s /\ ctl' = ctl /\ job' = job
  <2>1. Types' /\ ctl' \in ControlType /\ Moves(ctl, ctl')
      BY <1>1, <1>3 DEF Types, Waiting, Moves
  <2>2. ControlInv'
      BY <1>1, <1>2, <1>3 DEF ControlInv
  <2> QED
      BY <1>1, <1>3, <2>1, <2>2, ControlStep
<1>4. CASE Receives(Plain("raised"), job)
  <2>1. PICK e : e = Plain("raised")
      OBVIOUS
  <2>2. RuntimeEvent(e) /\ e.kind = "raised"
      BY <2>1 DEF RuntimeEvent, RuntimeKinds, Plain, Event
  <2>3. /\ job \in {"running", "cancelled", "ended"} /\ n' \in 0..MaxDeltas
        /\ Receives(e, job)
      BY <1>1, <1>4, <2>1 DEF Types
  <2>4. IndInv' /\ Handled
      BY <1>1, <1>2, <2>2, <2>3, ReceivesIs
  <2> QED
      BY <2>4 DEF StepOk
<1> QED
    BY <1>1, <1>3, <1>4

(* Awaited cancellations return, and the controller closes.                *)
LEMMA TaskSteps ==
    ASSUME IndInv, StopEnds \/ CancelReturns \/ ControllerCancels PROVE StepOk
<1>1. /\ Types /\ ControlInv /\ s' = s /\ n' = n /\ policy' = policy /\ seen' = seen
      /\ got' = got
    BY DEF StopEnds, CancelReturns, ControllerCancels, IndInv
<1>2. CASE StopEnds \/ CancelReturns
  <2>1. ctl' = ctl /\ job' = job /\ (reader' = reader \/ reader' = "out")
        /\ canceller' \in {"idle", "waiting", "done"}
      BY <1>1, <1>2 DEF StopEnds, CancelReturns, Types
  <2>2. Types' /\ ctl' \in ControlType /\ Moves(ctl, ctl')
      BY <1>1, <2>1 DEF Types, Moves
  <2>3. ControlInv'
      BY <1>1, <2>1 DEF ControlInv, RuntimeEvent, Waiting
  <2> QED
      BY <1>1, <2>2, <2>3, ControlStep
<1>3. CASE ControllerCancels
  <2>1. PICK r \in Lifecycle : Asks(r)
      BY <1>3 DEF ControllerCancels, Lifecycle
  <2>2. /\ ctl' \in ControlType /\ Moves(ctl, ctl') /\ ctl'.over = ctl.over
        /\ ctl'.asked \/ ctl'.over
        /\ ctl'.asked => ctl'.reason # "none"
        /\ ~s.terminal /\ ctl'.asked /\ ~ctl'.over => ctl'.reason \in Lifecycle
        /\ job' \in {"cancelled", "ended"}
      BY <2>1, AsksIs
  <2>3. reader' = reader /\ canceller' = canceller
      BY <1>3 DEF ControllerCancels
  <2>4. Types'
      BY <1>1, <2>2, <2>3 DEF Types
  <2>5. reader = "expired" => ctl'.asked
      BY <1>1, <2>2 DEF ControlInv, Moves
  <2>6. ControlInv'
      BY <1>1, <2>2, <2>3, <2>5 DEF ControlInv, RuntimeEvent
  <2> QED
      BY <1>1, <2>2, <2>4, <2>6, ControlStep
<1> QED
    BY <1>2, <1>3

(* The reading task is cancelled.                                          *)
LEMMA LeaveStep ==
    ASSUME IndInv, ReaderCancelled PROVE StepOk
<1>1. /\ Types /\ ControlInv /\ s' = s /\ n' = n /\ policy' = policy /\ seen' = seen
      /\ canceller' = canceller /\ reader' = "gone"
    BY DEF ReaderCancelled, IndInv
<1>2. CASE reader = "stop"
  <2>1. ctl' = ctl /\ job' = job
      BY <1>2 DEF ReaderCancelled
  <2>2. Types' /\ ctl' \in ControlType /\ Moves(ctl, ctl')
      BY <1>1, <2>1 DEF Types, Moves
  <2>3. ControlInv'
      BY <1>1, <2>1 DEF ControlInv, Waiting
  <2> QED
      BY <1>1, <2>2, <2>3, ControlStep
<1>3. CASE reader # "stop"
  <2>1. /\ ctl' = [Over("client_cancelled") EXCEPT !.asked = TRUE]
        /\ job' = Stopped(job) /\ reader \in Waiting
      BY <1>3 DEF ReaderCancelled, Waiting
  <2>2. ~ctl.over /\ ctl \in ControlType
      BY <1>1, <2>1 DEF ControlInv, Types
  <2>3. PICK d : d = Over("client_cancelled")
      OBVIOUS
  <2>4. /\ d \in ControlType /\ d.over /\ d.reason # "none" /\ Moves(ctl, d)
      BY <2>2, <2>3, OverIs DEF Reasons, Lifecycle
  <2>5. /\ ctl' \in ControlType /\ ctl'.asked = TRUE /\ ctl'.over = d.over
        /\ ctl'.reason = d.reason
      BY <2>1, <2>3, <2>4 DEF ControlType
  <2>6. job' \in {"cancelled", "ended"}
      BY <1>1, <2>1 DEF Stopped, Types
  <2>7. Types' /\ Moves(ctl, ctl')
      BY <1>1, <2>4, <2>5, <2>6 DEF Types, Moves
  <2>8. ControlInv'
      BY <1>1, <2>4, <2>5, <2>6 DEF ControlInv, Waiting
  <2> QED
      BY <1>1, <2>5, <2>7, <2>8, ControlStep
<1> QED
    BY <1>2, <1>3

(* Whoever cancels the session takes the held batch back.                  *)
LEMMA CancelStep ==
    ASSUME IndInv, Cancel PROVE StepOk
<1>1. /\ Types /\ ControlInv /\ n' = n /\ policy' = policy /\ seen' = seen
      /\ reader' = reader /\ got' = got /\ canceller' \in {"idle", "waiting", "done"}
    BY DEF Cancel, IndInv
<1>2. CASE s.terminal
  <2>1. s' = s /\ ctl' = ctl /\ job' = job
      BY <1>2 DEF Cancel
  <2>2. Types' /\ ctl' \in ControlType /\ Moves(ctl, ctl')
      BY <1>1, <2>1 DEF Types, Moves
  <2>3. ControlInv'
      BY <1>1, <2>1 DEF ControlInv, RuntimeEvent
  <2> QED
      BY <1>1, <2>1, <2>2, <2>3, ControlStep
<1>3. CASE ~s.terminal
  <2>1. s' = [s EXCEPT !.gate = Abort(@)] /\ Asks("client_cancelled")
      BY <1>3 DEF Cancel
  <2>2. /\ ctl' \in ControlType /\ Moves(ctl, ctl') /\ ctl'.over = ctl.over
        /\ ctl'.asked \/ ctl'.over
        /\ ctl'.asked => ctl'.reason # "none"
        /\ ctl'.asked /\ ~ctl'.over => ctl'.reason \in Lifecycle
        /\ job' \in {"cancelled", "ended"}
    <3>1. "client_cancelled" \in Lifecycle
        BY DEF Lifecycle
    <3> QED
        BY <1>3, <2>1, <3>1, AsksIs
  <2>3. Sound(s, ctl', seen, TRUE) /\ s \in SessionType
    <3>1. /\ Sound(s, ctl, seen, TRUE) /\ ~s.stop
          /\ ctl.asked => ctl.reason # "none"
        BY DEF IndInv, ControlInv
    <3>2. Sound(s, ctl', seen, TRUE)
        BY <2>2, <3>1, MovesIs
    <3> QED
        BY <3>2 DEF Sound
  <2>4. /\ Abort(s.gate) \in GateType /\ Abort(s.gate).life = "ABORTED"
        /\ Abort(s.gate).buffered = <<>>
    <3>1. s.gate \in GateType /\ s.gate.life # "COMMITTED"
        BY <1>3, <2>3 DEF Sound, Live, SessionType
    <3> QED
        BY <3>1, AbortIs
  <2>5. /\ s' \in SessionType /\ s'.gate = Abort(s.gate) /\ s'.pending = s.pending
        /\ s'.commit = s.commit /\ s'.ev = s.ev /\ s'.decision = s.decision
        /\ s'.terminal = s.terminal /\ s'.stop = s.stop
      BY <2>1, <2>3, <2>4 DEF SessionType
  <2>6. GateOk(s'.gate)
      BY <2>4, <2>5 DEF GateOk, Lacks
  <2>7. Sound(s', ctl', seen', TRUE)
      BY <1>1, <1>3, <2>3, <2>4, <2>5, <2>6 DEF Sound, Live
  <2>8. Types'
      BY <1>1, <2>2 DEF Types
  <2>9. reader = "expired" => ctl'.asked
      BY <1>1, <2>2 DEF ControlInv, Moves
  <2>10. ControlInv'
      BY <1>1, <2>2, <2>5, <2>9 DEF ControlInv, RuntimeEvent
  <2> QED
      BY <1>1, <2>5, <2>7, <2>8, <2>10 DEF StepOk, IndInv, Queued
<1> QED
    BY <1>2, <1>3

(* The next event changes hands.                                           *)
LEMMA HandsOver ==
    ASSUME NEW w \in Seq(EventType), NEW p \in Seq(EventType), p # <<>>
    PROVE  /\ Append(w, Head(p)) \in Seq(EventType) /\ Tail(p) \in Seq(EventType)
           /\ Head(p) \in EventType
           /\ Append(w, Head(p)) \o Tail(p) = w \o p
<1>1. PICK e \in EventType, y \in Seq(EventType) : e = Head(p) /\ y = Tail(p)
  <2>1. Head(p) \in EventType /\ Tail(p) \in Seq(EventType)
      BY HeadTailProperties
  <2> QED
      BY <2>1
<1>2. p = <<e>> \o y /\ <<e>> \in Seq(EventType) /\ Append(w, e) = w \o <<e>>
    BY <1>1
<1>3. Regroups(w, <<e>>, y)
    BY <1>2, RegroupsIs
<1>4. Append(w, e) \o y = w \o p
    BY <1>2, <1>3 DEF Regroups
<1>5. Append(w, e) \in Seq(EventType)
    BY AppendIs
<1> QED
    BY <1>1, <1>4, <1>5

(* The caller reads: an event, the end, or the runtime.                    *)
LEMMA ReadStep ==
    ASSUME IndInv, Read PROVE StepOk
<1>1. /\ Types /\ ControlInv /\ n' = n /\ policy' = policy /\ reader = "out"
      /\ canceller' = canceller /\ got' = got
    BY DEF Read, IndInv
<1>2. CASE /\ s.pending # <<>>
           /\ seen' = Append(seen, Head(s.pending))
           /\ s' = [s EXCEPT !.pending = Tail(@)]
           /\ UNCHANGED <<ctl, job, reader>>
  <2>1. Sound(s, ctl, seen, TRUE) /\ s \in SessionType
      BY DEF IndInv, Sound
  <2>2. PICK p \in Seq(EventType) : p = s.pending
      BY <2>1 DEF SessionType
  <2>3. /\ Append(seen, Head(p)) \in Seq(EventType) /\ Tail(p) \in Seq(EventType)
        /\ Append(seen, Head(p)) \o Tail(p) = seen \o p
      BY <1>1, <1>2, <2>2, HandsOver DEF Types
  <2>4. /\ s' \in SessionType /\ s'.gate = s.gate /\ s'.pending = Tail(p)
        /\ s'.commit = s.commit /\ s'.ev = s.ev /\ s'.decision = s.decision
        /\ s'.terminal = s.terminal /\ s'.stop = s.stop
        /\ seen' = Append(seen, Head(p)) /\ ctl' = ctl /\ job' = job /\ reader' = "out"
      BY <1>1, <1>2, <2>1, <2>2, <2>3 DEF SessionType
  <2>5. seen' \o s'.pending = seen \o s.pending
      BY <2>2, <2>3, <2>4
  <2>6. Sound(s', ctl', seen', TRUE)
      BY <2>1, <2>4, <2>5 DEF Sound, Live, Done, Halted
  <2>7. Types'
      BY <1>1, <2>3, <2>4 DEF Types
  <2>8. ControlInv'
      BY <1>1, <2>4 DEF ControlInv, Waiting
  <2> QED
      BY <2>4, <2>5, <2>6, <2>7, <2>8 DEF StepOk, IndInv, Queued
<1>3. CASE /\ s.pending = <<>> /\ s.terminal
           /\ reader' = "done"
           /\ UNCHANGED <<s, ctl, job, seen>>
  <2>1. Types' /\ ctl' \in ControlType /\ Moves(ctl, ctl')
      BY <1>1, <1>3 DEF Types, Moves
  <2>2. ControlInv'
      BY <1>1, <1>3 DEF ControlInv, Waiting
  <2> QED
      BY <1>3, <2>1, <2>2, ControlStep
<1>4. CASE /\ s.pending = <<>> /\ ~s.terminal /\ ctl.over
           /\ Receives(Plain("ended"), job)
           /\ UNCHANGED seen
  <2>1. PICK e : e = Plain("ended")
      OBVIOUS
  <2>2. RuntimeEvent(e) /\ e.kind = "ended"
      BY <2>1 DEF RuntimeEvent, RuntimeKinds, Plain, Event
  <2>3. /\ job \in {"running", "cancelled", "ended"} /\ n' \in 0..MaxDeltas
        /\ Receives(e, job) /\ seen' = seen /\ job # "running"
      BY <1>1, <1>4, <2>1 DEF Types, ControlInv
  <2>4. IndInv' /\ Handled
      BY <1>1, <1>4, <2>2, <2>3, ReceivesIs
  <2> QED
      BY <2>4 DEF StepOk
<1>5. CASE /\ s.pending = <<>> /\ ~s.terminal /\ ~ctl.over
           /\ reader' = IF HasDeadline /\ ~ctl.asked THEN "timed" ELSE "plain"
           /\ UNCHANGED <<s, ctl, job, seen>>
  <2>1. reader' \in {"timed", "plain"}
      BY <1>5
  <2>2. Types' /\ ctl' \in ControlType /\ Moves(ctl, ctl')
      BY <1>1, <1>5, <2>1 DEF Types, Waiting, Moves
  <2>3. ControlInv'
      BY <1>1, <1>5, <2>1 DEF ControlInv
  <2> QED
      BY <1>5, <2>2, <2>3, ControlStep
<1> QED
    BY <1>2, <1>3, <1>4, <1>5 DEF Read

-----------------------------------------------------------------------------
(* The invariant and what it shows.                                        *)

(* The invariant holds of a new session.                                   *)
LEMMA InitIs == Init => IndInv
<1> SUFFICES ASSUME Init PROVE IndInv
    OBVIOUS
<1>1. /\ s = NewSession /\ seen = <<>> /\ reader = "out" /\ job = "running" /\ n = 0
      /\ ctl = [reason |-> "none", over |-> FALSE, asked |-> FALSE]
      /\ policy \in Policies /\ policy.atomic \in BOOLEAN /\ canceller = "idle"
    BY ServingAssumption DEF Init, PolicyType
<1>2. NewGate(policy.atomic) \in GateType /\ GateOk(NewGate(policy.atomic))
      /\ NewGate(policy.atomic).life = "OPEN"
  <2>1. <<>> \in Seq(EventType) /\ <<>> \in Seq(Calls) /\ Lacks(<<>>, SessionKinds \ SemanticKinds)
      BY DEF Lacks
  <2> QED
      BY <1>1, <2>1, CompletesNothing DEF NewGate, GateType, GateOk
<1>3. /\ NoEvidence \in EvidenceType /\ NoDecision \in DecisionType /\ NoOutput \in OutputType
      /\ NoEvidence.owner = "none" /\ NoEvidence.origin = "none" /\ NoEvidence.stop = "none"
      /\ NoEvidence.rfail = "none" /\ Clean(NoEvidence)
    BY DEF NoEvidence, EvidenceType, NoDecision, DecisionType, NoOutput, Output, OutputType,
           Errors, Owners, Verdicts, Clean
<1>4. /\ s \in SessionType /\ s.gate = NewGate(policy.atomic) /\ s.pending = <<>>
      /\ s.ev = NoEvidence /\ s.decision = NoDecision /\ s.terminal = FALSE /\ s.stop = FALSE
      /\ s.commit = "none"
    BY <1>1, <1>2, <1>3 DEF NewSession, SessionType, CommitClasses
<1>5. \A K : Lacks(seen \o s.pending, K)
    BY <1>1, <1>4 DEF Lacks
<1>6. Live(s, ctl, seen, TRUE) /\ Witnessed(s.ev, ctl)
    BY <1>2, <1>3, <1>4, <1>5 DEF Live, Witnessed
<1>7. Types
    BY <1>1, ServingAssumption DEF Types, ControlType, Reasons
<1>8. ControlInv
    BY <1>1, <1>2, <1>4 DEF ControlInv, Waiting
<1> QED
    BY <1>3, <1>4, <1>6, <1>7, <1>8 DEF IndInv, Sound

(* Every step preserves the invariant and handles one event or none.       *)
LEMMA StepIs ==
    ASSUME IndInv, [Next]_vars PROVE StepOk
<1>1. CASE Next
    BY <1>1, ReadStep, YieldsStep, WindowStep, DeadlineStep, ExpiryStep, TaskSteps,
       LeaveStep, CancelStep DEF Next
<1>2. CASE UNCHANGED vars
    BY <1>2, ZenonT(60) DEF vars, StepOk, Queued, IndInv, Types, ControlInv, RuntimeEvent, Sound
<1> QED
    BY <1>1, <1>2

(* What is queued behind the pending events is of the kinds it is of.      *)
LEMMA KindsKept ==
    ASSUME NEW w \in Seq(EventType), NEW z \in Seq(EventType), NEW y \in Seq(EventType),
           NEW K,
           \A i \in DOMAIN z : i \in DOMAIN y /\ y[i] = z[i],
           \A i \in DOMAIN y \ DOMAIN z : y[i].kind \notin K
    PROVE  OfKind(w \o y, K) = OfKind(w \o z, K)
<1> DEFINE u == w \o z
           v == w \o y
<1>1. /\ \A i \in DOMAIN w : i \in DOMAIN u /\ u[i] = w[i] /\ i \in DOMAIN v /\ v[i] = w[i]
      /\ \A i \in DOMAIN z : Len(w) + i \in DOMAIN u /\ u[Len(w) + i] = z[i]
      /\ \A i \in DOMAIN y : Len(w) + i \in DOMAIN v /\ v[Len(w) + i] = y[i]
      /\ \A i \in DOMAIN u : i \in DOMAIN w \/ (i - Len(w) \in DOMAIN z /\ u[i] = z[i - Len(w)])
      /\ \A i \in DOMAIN v : i \in DOMAIN w \/ (i - Len(w) \in DOMAIN y /\ v[i] = y[i - Len(w)])
  <2>1. /\ \A i \in DOMAIN w : i \in DOMAIN u /\ u[i] = w[i]
        /\ \A i \in DOMAIN z : Len(w) + i \in DOMAIN u /\ u[Len(w) + i] = z[i]
        /\ \A i \in DOMAIN u : i \in DOMAIN w \/ (i - Len(w) \in DOMAIN z /\ u[i] = z[i - Len(w)])
      BY ConcatIs
  <2>2. /\ \A i \in DOMAIN w : i \in DOMAIN v /\ v[i] = w[i]
        /\ \A i \in DOMAIN y : Len(w) + i \in DOMAIN v /\ v[Len(w) + i] = y[i]
        /\ \A i \in DOMAIN v : i \in DOMAIN w \/ (i - Len(w) \in DOMAIN y /\ v[i] = y[i - Len(w)])
      BY ConcatIs
  <2> HIDE DEF u, v
  <2> QED
      BY <2>1, <2>2
<1>2. DOMAIN u \subseteq Int /\ DOMAIN v \subseteq Int /\ Len(w) \in Nat
    BY ConcatIs
<1> HIDE DEF u, v
<1>3. \A i \in OfKind(u, K) : i \in OfKind(v, K)
  <2> SUFFICES ASSUME NEW i \in DOMAIN u, u[i].kind \in K PROVE i \in DOMAIN v /\ v[i].kind \in K
      BY DEF OfKind
  <2>1. CASE i \in DOMAIN w
      BY <1>1, <2>1
  <2>2. CASE i \notin DOMAIN w
    <3>1. PICK k \in DOMAIN z : k = i - Len(w) /\ u[i] = z[k]
        BY <1>1, <2>2
    <3>2. i = Len(w) + k
        BY <1>2, <3>1
    <3> QED
        BY <1>1, <3>1, <3>2
  <2> QED
      BY <2>1, <2>2
<1>4. \A i \in OfKind(v, K) : i \in OfKind(u, K)
  <2> SUFFICES ASSUME NEW i \in DOMAIN v, v[i].kind \in K PROVE i \in DOMAIN u /\ u[i].kind \in K
      BY DEF OfKind
  <2>1. CASE i \in DOMAIN w
      BY <1>1, <2>1
  <2>2. CASE i \notin DOMAIN w
    <3>1. PICK k \in DOMAIN y : k = i - Len(w) /\ v[i] = y[k]
        BY <1>1, <2>2
    <3>2. i = Len(w) + k
        BY <1>2, <3>1
    <3>3. y[k].kind \in K
        BY <3>1
    <3>4. k \in DOMAIN z /\ y[k] = z[k]
        BY <3>1, <3>3
    <3> QED
        BY <1>1, <3>2, <3>3, <3>4
  <2> QED
      BY <2>1, <2>2
<1> QED
    BY <1>3, <1>4 DEF u, v

(* The types of all variables.                                             *)
THEOREM TypesCorrect == Spec => []TypeOK
<1>1. Init => IndInv
    BY InitIs
<1>2. IndInv /\ [Next]_vars => IndInv'
    BY StepIs DEF StepOk
<1>3. IndInv => TypeOK
  <2> SUFFICES ASSUME IndInv PROVE TypeOK
      OBVIOUS
  <2>1. s \in SessionType /\ Types /\ ~s.stop
      BY DEF IndInv, Sound
  <2> QED
      BY <2>1 DEF TypeOK, Types, SessionType, GateType, DecisionType, ControlType, Reasons,
                  Waiting
<1> QED
    BY <1>1, <1>2, <1>3, PTL DEF Spec

(* The stream ends in exactly one terminal event, the last, which tells    *)
(* the session's one decision (_emit_recorded_failure_or_cancellation,     *)
(* _complete_runtime_success), and whoever ended the generation is never   *)
(* hidden by what arrives late.                                            *)
THEOREM TerminalCorrect == Spec => []OneOwnedTerminal
<1>1. Init => IndInv
    BY InitIs
<1>2. IndInv /\ [Next]_vars => IndInv'
    BY StepIs DEF StepOk
<1>3. IndInv => OneOwnedTerminal
  <2> SUFFICES ASSUME IndInv PROVE OneOwnedTerminal
      OBVIOUS
  <2>1. PICK q : q = Queued
      OBVIOUS
  <2>2. Sound(s, ctl, seen, TRUE) /\ q = seen \o s.pending /\ s \in SessionType
      BY <2>1 DEF IndInv, Sound, Queued
  <2>3. CASE ~s.terminal
    <3>1. Lacks(q, Terminals)
      <4>1. Lacks(q, Terminals \cup {"tool_completed"})
          BY <2>2, <2>3 DEF Sound, Live
      <4> QED
          BY <4>1, LacksLess
    <3>2. OfKind(q, Terminals) = {}
        BY <3>1 DEF Lacks, OfKind
    <3> QED
        BY <2>1, <2>3, <3>2 DEF OneOwnedTerminal
  <2>4. CASE s.terminal
    <3>1. Done(s, ctl, seen, TRUE) /\ Witnessed(s.ev, ctl)
        BY <2>2, <2>4 DEF Sound
    <3>2. /\ OfKind(q, Terminals) = {Len(q)}
          /\ q[Len(q)].kind = CASE s.decision.disp = "success" -> "completed"
                                [] s.decision.disp = "failure" -> "failed"
                                [] OTHER -> "cancelled"
        BY <2>2, <3>1 DEF Done, Told
    <3>3. /\ s.decision.owner = "lifecycle" => ctl.reason = s.ev.origin
          /\ s.decision.owner \notin {"lifecycle", "unknown"} => ctl.reason \notin Lifecycle
        BY <3>1 DEF Done, Witnessed
    <3> QED
        BY <2>1, <2>4, <3>2, <3>3 DEF OneOwnedTerminal
  <2> QED
      BY <2>3, <2>4
<1> QED
    BY <1>1, <1>2, <1>3, PTL DEF Spec

(* Completed calls reach the caller all together and only in front of a    *)
(* completion (ToolBatchGate.commit_events), and a failure of the output   *)
(* leaves no runtime generating (_fail_for_model_output).                  *)
THEOREM OutcomeCorrect == Spec => []OutcomeIsConsistent
<1>1. Init => IndInv
    BY InitIs
<1>2. IndInv /\ [Next]_vars => IndInv'
    BY StepIs DEF StepOk
<1>3. IndInv => OutcomeIsConsistent
  <2> SUFFICES ASSUME IndInv PROVE OutcomeIsConsistent
      OBVIOUS
  <2>1. PICK q : q = Queued
      OBVIOUS
  <2>2. /\ Sound(s, ctl, seen, TRUE) /\ q = seen \o s.pending /\ ~s.stop
        /\ ctl.asked \/ ctl.over => job # "running"
      BY <2>1 DEF IndInv, Queued, ControlInv
  <2>3. CASE ~s.terminal
    <3>1. Lacks(q, Terminals \cup {"tool_completed"}) /\ s.decision = NoDecision
        BY <2>2, <2>3 DEF Sound, Live
    <3>2. OfKind(q, {"tool_completed"}) = {} /\ s.decision.disp # "success"
        BY <3>1 DEF Lacks, OfKind, NoDecision
    <3> QED
        BY <2>1, <2>3, <3>2 DEF OutcomeIsConsistent
  <2>4. CASE s.terminal
    <3>1. Done(s, ctl, seen, TRUE) /\ Halted(s, ctl)
        BY <2>2, <2>4 DEF Sound
    <3>2. s.decision.disp # "success" => OfKind(q, {"tool_completed"}) = {}
        BY <2>2, <3>1 DEF Done, Lacks, OfKind
    <3>3. s.decision.disp = "success" => Completes(q, s.gate.completed)
        BY <2>2, <3>1 DEF Done
    <3>4. s.decision.owner \in {"constraint", "parser", "semantic"} => job # "running"
        BY <2>2, <3>1 DEF Halted
    <3> QED
        BY <2>1, <3>2, <3>3, <3>4 DEF OutcomeIsConsistent
  <2> QED
      BY <2>3, <2>4
<1> QED
    BY <1>1, <1>2, <1>3, PTL DEF Spec

(* Once cancel() aborted the batch no output of the model is added, and no *)
(* failure behind delivered output says retry (commit_aware_error).        *)
THEOREM AddsCorrect == Spec => NothingUnfit
<1>1. ASSUME IndInv, [Next]_vars
      PROVE  [/\ s.gate.life = "ABORTED" =>
                    OfKind(Queued', SemanticKinds) = OfKind(Queued, SemanticKinds)
              /\ \A i \in OfKind(Queued', {"failed"}) \ OfKind(Queued, {"failed"}) :
                   Queued'[i].verdict = "retry" => OfKind(Queued, SemanticKinds) = {}]_vars
  <2>1. StepOk
      BY <1>1, StepIs
  <2>2. CASE Queued' = Queued
      BY <2>2
  <2>3. CASE Handled
    <3>1. PICK b \in BOOLEAN : b = (s.commit = "none")
        OBVIOUS
    <3>2. PICK q : q = Queued
        OBVIOUS
    <3>3. PICK y : y = Queued'
        OBVIOUS
    <3>4. /\ Sound(s, ctl, seen, TRUE) /\ Sound(s', ctl', seen', b)
          /\ ~s.terminal /\ seen' = seen /\ Adds(s, s')
          /\ q = seen \o s.pending /\ y = seen \o s'.pending
        BY <1>1, <2>3, <3>1, <3>2, <3>3 DEF IndInv, Handled, Queued
    <3>5. ASSUME s.gate.life = "ABORTED"
          PROVE  OfKind(y, SemanticKinds) = OfKind(q, SemanticKinds)
      <4>1. PICK z \in Seq(EventType), w \in Seq(EventType) : z = s.pending /\ w = s'.pending
          BY <3>4 DEF Sound, SessionType
      <4>2. /\ \A i \in DOMAIN z : i \in DOMAIN w /\ w[i] = z[i]
            /\ \A i \in DOMAIN w \ DOMAIN z : w[i].kind \notin SemanticKinds
          BY <3>4, <3>5, <4>1 DEF Adds
      <4>3. seen \in Seq(EventType)
          BY <1>1 DEF IndInv, Types
      <4>4. OfKind(seen \o w, SemanticKinds) = OfKind(seen \o z, SemanticKinds)
          BY <4>2, <4>3, KindsKept
      <4> QED
          BY <3>4, <4>1, <4>4
    <3>6. ASSUME NEW i \in OfKind(y, {"failed"}), y[i].verdict = "retry"
          PROVE  OfKind(q, SemanticKinds) = {}
      <4>1. i \in DOMAIN y /\ y[i].kind = "failed"
          BY <3>6 DEF OfKind
      <4>2. s'.terminal
        <5>1. ASSUME ~s'.terminal PROVE FALSE
          <6>1. Lacks(y, Terminals \cup {"tool_completed"})
              BY <3>4, <5>1 DEF Sound, Live
          <6> QED
              BY <4>1, <6>1 DEF Lacks, Terminals
        <5> QED
            BY <5>1
      <4>3. Told(y, s'.decision, b)
          BY <3>4, <4>2 DEF Sound, Done
      <4>4. i = Len(y)
        <5>1. i \in OfKind(y, Terminals)
            BY <4>1 DEF OfKind, Terminals
        <5> QED
            BY <4>3, <5>1 DEF Told
      <4>5. b
          BY <3>6, <4>1, <4>3, <4>4 DEF Told
      <4>6. Lacks(q, SemanticKinds)
          BY <3>1, <3>4, <4>5 DEF Sound, Live
      <4> QED
          BY <4>6 DEF Lacks, OfKind
    <3>7. /\ s.gate.life = "ABORTED" =>
                OfKind(Queued', SemanticKinds) = OfKind(Queued, SemanticKinds)
          /\ \A i \in OfKind(Queued', {"failed"}) \ OfKind(Queued, {"failed"}) :
                Queued'[i].verdict = "retry" => OfKind(Queued, SemanticKinds) = {}
        BY <3>2, <3>3, <3>5, <3>6
    <3> QED
        BY <3>7
  <2> QED
      BY <2>1, <2>2, <2>3 DEF StepOk
<1>2. Init => IndInv
    BY InitIs
<1>3. IndInv /\ [Next]_vars => IndInv'
    BY StepIs DEF StepOk
<1> QED
    BY <1>1, <1>2, <1>3, PTL DEF Spec, NothingUnfit

-----------------------------------------------------------------------------
(* The session as a terminal stream.                                       *)

(* A reader that went away does not come back.                             *)
LEMMA GoneStep ==
    ASSUME [Next]_vars, reader = "gone"
    PROVE  reader' = "gone"
BY DEF Next, vars, Read, RuntimeYields, WindowCloses, DeadlinePasses, ExpiryCancelled,
       StopEnds, ReaderCancelled, Cancel, CancelReturns, ControllerCancels

(* The reader is given one event at a time, and none behind a terminal one.*)
LEMMA SeenStep ==
    ASSUME IndInv, [Next]_vars, seen' # seen
    PROVE  /\ \E e \in EventType : seen' = Append(seen, e)
           /\ Lacks(seen, Terminals)
           /\ reader = "out" /\ reader' = "out"
<1>1. CASE UNCHANGED vars
    BY <1>1 DEF vars
<1>2. CASE RuntimeYields \/ WindowCloses \/ DeadlinePasses \/ ExpiryCancelled \/ StopEnds
           \/ ReaderCancelled \/ Cancel \/ CancelReturns \/ ControllerCancels
    BY <1>2 DEF RuntimeYields, WindowCloses, DeadlinePasses, ExpiryCancelled,
       StopEnds, ReaderCancelled, Cancel, CancelReturns, ControllerCancels
<1>3. CASE Read
  <2>1. /\ reader = "out" /\ reader' = "out" /\ s.pending # <<>>
        /\ seen' = Append(seen, Head(s.pending))
      BY <1>3 DEF Read
  <2>2. Sound(s, ctl, seen, TRUE) /\ seen \in Seq(EventType)
      BY DEF IndInv, Types
  <2>3. PICK p \in Seq(EventType) : p = s.pending
      BY <2>2 DEF Sound, SessionType
  <2>4. Head(p) \in EventType
      BY <2>1, <2>3, HandsOver
  <2>5. Lacks(seen, Terminals)
    <3>1. CASE ~s.terminal
      <4>1. Lacks(seen \o p, Terminals \cup {"tool_completed"})
          BY <2>2, <2>3, <3>1 DEF Sound, Live
      <4>2. Lacks(seen, Terminals \cup {"tool_completed"})
          BY <2>2, <4>1, ConcatLacks
      <4> QED
          BY <4>2, LacksLess
    <3>2. CASE s.terminal
      <4>1. OfKind(seen \o p, Terminals) = {Len(seen \o p)}
          BY <2>2, <2>3, <3>2 DEF Sound, Done, Told
      <4>2. /\ Len(seen \o p) = Len(seen) + Len(p)
            /\ \A i \in DOMAIN seen : i \in DOMAIN (seen \o p) /\ (seen \o p)[i] = seen[i]
          BY <2>2, ConcatIs
      <4>3. Len(p) \in Nat /\ Len(p) # 0 /\ Len(seen) \in Nat /\ DOMAIN seen = 1..Len(seen)
          BY <2>1, <2>2, <2>3
      <4>4. ASSUME NEW i \in DOMAIN seen, seen[i].kind \in Terminals PROVE FALSE
        <5>1. i \in OfKind(seen \o p, Terminals)
            BY <4>2, <4>4 DEF OfKind
        <5>2. i = Len(seen) + Len(p)
            BY <4>1, <4>2, <5>1
        <5> QED
            BY <4>3, <5>2
      <4> QED
          BY <4>4 DEF Lacks
    <3> QED
        BY <3>1, <3>2
  <2> QED
      BY <2>1, <2>3, <2>4, <2>5
<1> QED
    BY <1>1, <1>2, <1>3 DEF Next

(* The reader sees a terminal stream: one that only grows and is ended by  *)
(* its one terminal event (the safety half of ImplementsStream).           *)
THEOREM StreamCorrect == Spec => Stream!Safety
<1> DEFINE View(q) == [i \in DOMAIN q |-> [kind |-> q[i].kind, source |-> 1]]
<1>1. Init => Stream!Init
  <2>1. SUFFICES ASSUME Init PROVE Stream!Init
      OBVIOUS
  <2>2. seen = <<>> /\ DOMAIN seen = {} /\ reader = "out"
      BY <2>1 DEF Init
  <2>3. View(seen) = <<>>
      BY <2>2
  <2>4. Reader = "reading"
      BY <2>2 DEF Reader, OfKind
  <2> QED
      BY <2>3, <2>4 DEF Stream!Init
<1>2. ASSUME IndInv, [Next]_vars
      PROVE  [Stream!Next]_(Stream!vars)
  <2>1. CASE seen' = seen
    <3>1. View(seen)' = View(seen) /\ OfKind(seen, Terminals)' = OfKind(seen, Terminals)
        BY <2>1
    <3>2. Reader' = Reader \/ (Reader = "reading" /\ Reader' = "left")
      <4>1. reader = "gone" => reader' = "gone"
          BY <1>2, GoneStep
      <4> QED
          BY <3>1, <4>1 DEF Reader
    <3> QED
        BY <3>1, <3>2 DEF Stream!Next, Stream!Leave, Stream!vars
  <2>2. CASE seen' # seen
    <3>1. /\ Lacks(seen, Terminals) /\ reader = "out" /\ reader' = "out"
          /\ \E e \in EventType : seen' = Append(seen, e)
        BY <1>2, <2>2, SeenStep
    <3>2. PICK e \in EventType : seen' = Append(seen, e)
        BY <3>1
    <3>3. PICK z \in Seq(EventType) : z = seen
        BY <1>2 DEF IndInv, Types
    <3>4. PICK y \in Seq(EventType) : y = Append(z, e)
        BY AppendIs
    <3>5. /\ DOMAIN y = DOMAIN z \cup {Len(z) + 1} /\ Len(z) + 1 \notin DOMAIN z
          /\ \A i \in DOMAIN z : y[i] = z[i]
          /\ Len(y) = Len(z) + 1 /\ y[Len(z) + 1] = e
        BY <3>4, AppendIs
    <3>6. Lacks(z, Terminals)
        BY <3>1, <3>3
    <3>7. PICK v : v = View(z)
        OBVIOUS
    <3>8. PICK w : w = View(y)
        OBVIOUS
    <3>9. /\ DOMAIN v = DOMAIN z /\ DOMAIN w = DOMAIN y
          /\ \A i \in DOMAIN z : v[i] = [kind |-> z[i].kind, source |-> 1]
          /\ \A i \in DOMAIN y : w[i] = [kind |-> y[i].kind, source |-> 1]
        BY <3>7, <3>8
    <3>10. Len(w) = Len(y)
      <4>1. DOMAIN y = 1..Len(y) /\ Len(y) \in Nat
          OBVIOUS
      <4> QED
          BY <3>9, <4>1
    <3>11. View(seen) = v /\ View(seen)' = w
        BY <3>2, <3>3, <3>4, <3>7, <3>8
    <3>12. Reader = "reading"
        BY <3>1 DEF Reader, Lacks, OfKind
    <3>13. Stream!OneSource(w)
        BY <3>9 DEF Stream!OneSource, Stream!OfKind
    <3>14. /\ \A i \in DOMAIN v : i \in DOMAIN w /\ w[i] = v[i]
           /\ w # v
        BY <3>5, <3>9
    <3>15. Stream!Given
        BY <3>11, <3>12, <3>13, <3>14 DEF Stream!Given
    <3>16. Reader' = IF OfKind(y, Terminals) # {} THEN "ended" ELSE "reading"
        BY <3>1, <3>2, <3>3, <3>4 DEF Reader
    <3>17. CASE e.kind \in Terminals
      <4>1. OfKind(y, Terminals) = {Len(y)}
          BY <3>4, <3>6, <3>17, EndIs
      <4>2. Stream!OfKind(w, Terminals) = {Len(w)}
          BY <3>9, <3>10, <4>1 DEF Stream!OfKind, OfKind
      <4>3. Reader' = "ended"
          BY <3>16, <4>1
      <4>4. Stream!End
          BY <3>11, <3>15, <4>2, <4>3 DEF Stream!End
      <4> QED
          BY <4>4 DEF Stream!Next
    <3>18. CASE e.kind \notin Terminals
      <4>1. Lacks(y, Terminals)
          BY <3>4, <3>6, <3>18, AppendLacks
      <4>2. OfKind(y, Terminals) = {} /\ Stream!OfKind(w, Terminals) = {}
          BY <3>9, <4>1 DEF Stream!OfKind, OfKind, Lacks
      <4>3. Reader' = Reader
          BY <3>12, <3>16, <4>2
      <4>4. Stream!Continue
          BY <3>11, <3>15, <4>2, <4>3 DEF Stream!Continue
      <4> QED
          BY <4>4 DEF Stream!Next
    <3> QED
        BY <3>17, <3>18
  <2> QED
      BY <2>1, <2>2
<1>3. Init => IndInv
    BY InitIs
<1>4. IndInv /\ [Next]_vars => IndInv'
    BY StepIs DEF StepOk
<1> QED
    BY <1>1, <1>2, <1>3, <1>4, PTL DEF Spec, Stream!Safety
=============================================================================
