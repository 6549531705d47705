------------------------- MODULE HttpExchangeProofs -------------------------
(***************************************************************************)
(* Proofs about HttpExchange, for every set of endpoints and any number of *)
(* events: whatever cancels which task, nothing of an exchange is left, it *)
(* is observed once, and a tie of the answer and the disconnect is decided *)
(* as the endpoint promises.                                               *)
(*                                                                         *)
(* The invariant says what one task may assume of the others: where the    *)
(* worker can be while the handler is at each of its awaits, what was done *)
(* to the session by then, and who is writing the record.                  *)
(***************************************************************************)
EXTENDS HttpExchange, SequenceTheorems, TLAPS

HandlerAt == {"parse", "yield", "wait", "drop", "clean", "reap", "aborted", "reclean",
    "over"}
Results == {"none", "value", "error", "cancelled"}
Reading == {"unstarted", "read", "capture", "send"}
WorkerAt == Setup \cup Ending \cup Idle \cup Reading \cup {"finalize"}
RawKinds == Terminals \cup {"started", "text_started", "text", "text_completed", "usage"}
Dispositions == {"success", "failure", "cancellation"}

HandlerType == [at : HandlerAt, out : Results, handed : BOOLEAN, cleaned : BOOLEAN]
WorkerType ==
    [at : WorkerAt, result : Results, sig : BOOLEAN, shield : BOOLEAN, term : BOOLEAN,
     got : RawKinds \cup {"none"}, err : BOOLEAN]

Reasons ==
    Lifecycle \cup {"none", "completed", "runtime_failed", "runtime_cancelled"}

Types ==
    /\ kind \in Kinds /\ client \in {"here", "gone"} /\ outer \in {"no", "yes"}
    /\ h \in HandlerType /\ w \in WorkerType
    /\ d \in {"none", "waiting", "done", "cancelled"}
    /\ other \in Ending \cup Idle
    /\ lease \in {"none", "held", "free"}
    /\ job \in {"none", "running", "cancelled", "ended"}
    /\ n \in 0..MaxDeltas
    /\ reg \in {"none", "pinned", "active", "gone"}
    /\ lost \subseteq {"expired", "unstarted", "reap", "interrupted", "raised"}
    /\ stateful \in BOOLEAN
    /\ ctl \in [reason : Reasons, asked : BOOLEAN, over : BOOLEAN]

EvidenceType ==
    [owner : Owners, origin : Lifecycle \cup {"none"}, rfail : Errors, rcancel : BOOLEAN,
     stop : StopReasons \cup {"none"}, cfail : Errors, pfail : Errors, sfail : Errors,
     ufail : Errors]
RawRecord ==
    [pending : Seq(RawKinds), text : BOOLEAN, ev : EvidenceType,
     decision : [disp : Dispositions \cup {"none"}, owner : Owners, err : Errors],
     terminal : BOOLEAN, cancelled : BOOLEAN]
Statuses == Terminals \cup {"none", "rejected"}
ObsRecord ==
    [rejected : Nat, active : Int, status : Statuses, writing : BOOLEAN,
     records : Seq(Statuses)]
RawType == raw \in RawRecord
ObsType == obs \in ObsRecord

(* The endpoint's cancel was called and has not come back.                 *)
Cancelling == w.at = "cancelling" \/ other = "cancelling"

(* The session was told to stop, and its observer and its response know.   *)
Down ==
    /\ ctl.asked \/ ctl.over
    /\ obs.status # "none" \/ stateful
    /\ reg \in {"none", "gone"}

(* Where the worker can be while the handler is at an await.               *)
TaskInv ==
    /\ h.at \in {"parse", "yield", "wait", "drop", "clean"} => ~h.handed /\ ~h.cleaned
    /\ h.cleaned => w.at = "done" /\ ~h.handed
    /\ w.at = "none" => h.at \in {"parse", "over"} /\ w.result = "none"
    /\ h.at = "parse" => w.at = "none"
    /\ w.at \in Setup => h.at \in {"yield", "wait", "drop", "reap", "aborted"}
    /\ h.at \in {"drop", "reap", "aborted"} /\ w.at # "done" =>
          w.sig \/ w.at \in Ending
    /\ h.at \in {"clean", "reclean"} => Sse /\ w.at \in Ending \cup {"done"}
    /\ h.at \in {"clean", "reclean"} /\ w.at # "done" => w.shield
    /\ w.shield => w.at \in Ending /\ h.at \in {"clean", "reclean", "over"}
    /\ w.at # "done" /\ ~w.shield /\ h.at # "over" => w.result = "none"
    /\ h.at = "yield" => Race = "plain"
    /\ h.at = "drop" => Race # "setup"
    /\ w.at \in {"unstarted", "send"} => Sse
    /\ ~Sse /\ h.at = "over" => w.at \in Idle

(* A stream's session is not read before it was handed over.               *)
StreamInv ==
    /\ Sse /\ h.at # "over" =>
          /\ w.at \notin Reading /\ n = 0 /\ raw.pending = <<>> /\ ~raw.terminal
          /\ other = "none" /\ ~w.term /\ w.got = "none"
    /\ Sse /\ w.result = "value" /\ h.at = "wait" => w.at = "done" /\ obs.status = "none"
    /\ Sse /\ h.handed => d \notin {"waiting", "done"}
    /\ Sse /\ h.handed /\ h.at # "over" =>
          w.at = "done" /\ w.result = "value" /\ obs.status = "none"
    /\ other # "none" => Sse /\ Responses

(* What exists of the session at each point of the worker.                 *)
SessionInv ==
    /\ w.at \in (Setup \ {"register"}) \cup {"none"} => job = "none"
    /\ w.at \in Reading \cup Ending \cup {"register"} \/ w.result = "value" \/ other # "none"
          => job # "none"
    /\ w.at \in {"none", "start", "pin"} => reg = "none"
    /\ reg = "active" => job # "none"
    /\ w.at \in {"none", "start", "pin", "acquire"} => lease = "none"
    /\ w.at = "rejected" /\ lost = {} => lease \in {"none", "free"}
    /\ job = "none" => ~ctl.asked /\ ~ctl.over /\ ~raw.terminal /\ ~stateful
    /\ (ctl.asked \/ ctl.over) /\ ~Cancelling /\ lost = {} => lease = "free"
       /\ job # "running"
    /\ raw.terminal => ctl.over
    /\ raw.cancelled => ctl.asked \/ ctl.over
    /\ Cancelling => raw.cancelled
    /\ job # "none" /\ obs.status # "none" => ctl.asked \/ ctl.over
    /\ stateful => ctl.asked \/ ctl.over
    /\ stateful /\ ~Cancelling /\ lost = {} => obs.status # "none"

(* The gauge, and who writes the one record.                               *)
RecordInv ==
    /\ obs.active = IF job # "none" /\ obs.status = "none" THEN 1 ELSE 0
    /\ w.at \in (Setup \ {"rejected"}) \cup {"none"} => obs.status = "none"
    /\ w.at = "rejected" => obs.status = "rejected"
    /\ job # "none" => (obs.writing <=> obs.status # "none") /\ obs.status # "rejected"
    /\ job = "none" => ~obs.writing
    /\ w.at \in {"capture", "recording"} => obs.writing /\ other # "recording"
    /\ other = "recording" => obs.writing
    /\ (\/ w.at \in {"capture", "recording", "rejected"}
        \/ other = "recording"
        \/ obs.status = "none") => obs.records = <<>>
    /\ Len(obs.records) <= 1
    /\ \A i \in DOMAIN obs.records : obs.records[i] = obs.status

(* What the raw session decided, and what the observer made of it.         *)
DecisionInv ==
    /\ ~raw.terminal => raw.ev = NoEvidence /\ raw.decision = NoDecision
    /\ raw.terminal => raw.decision.disp \in Dispositions
    /\ \A i \in DOMAIN raw.pending :
          /\ raw.pending[i] \in Terminals => raw.terminal
          /\ raw.pending[i] = "completed" => raw.decision.disp = "success"
          /\ raw.pending[i] = "failed" => raw.decision.disp = "failure"
          /\ raw.pending[i] = "cancelled" => raw.decision.disp = "cancellation"
    /\ raw.terminal /\ obs.status = "none" =>
          raw.pending # <<>> /\ raw.pending[Len(raw.pending)] \in Terminals
    /\ w.term \/ w.got \in Terminals => raw.terminal /\ obs.status # "none"
    /\ obs.status = "completed" => raw.decision.disp = "success"
    /\ obs.status = "failed" => raw.decision.disp = "failure" \/ "raised" \in lost
    /\ obs.status = "cancelled" =>
          \/ raw.cancelled \/ other # "none" \/ raw.decision.disp = "cancellation"
          \/ ~w.term /\ w.at \in Ending \cup {"done"}

(* What is left when the worker is done.                                   *)
DoneInv ==
    /\ w.at = "done" /\ lost = {} =>
          \/ job = "none" /\ lease # "held" /\ reg \in {"none", "gone"}
          \/ Down
          \/ Sse /\ w.result = "value" /\ h.at # "over"
    /\ (h.cleaned \/ h.at \in {"clean", "reclean"}) /\ w.at = "done" /\ lost = {} => Down
    /\ h.at = "aborted" /\ lost = {} /\ Sse /\ w.at = "done"
       /\ w.result = "value" => h.cleaned

(* A finished answer that is not a stream is the handler's answer.         *)
AnswerInv ==
    /\ h.at = "aborted" => outer = "yes"
    /\ ~Sse /\ h.at \in {"drop", "reap", "over"} /\ outer = "no" =>
          /\ h.at \in {"reap", "over"} => w.at \in {"none", "done"}
          /\ w.result = "value" => h.at # "drop" /\ h.out = "value"

IndInv ==
    /\ Types /\ RawType /\ ObsType /\ TaskInv /\ StreamInv /\ SessionInv /\ RecordInv
    /\ DecisionInv /\ DoneInv /\ AnswerInv

-----------------------------------------------------------------------------
(* The operators the steps are composed of.                                *)

(* _finalize: the first status stays, and lowers the gauge.                *)
LEMMA FinalizeIs ==
    ASSUME NEW o \in ObsRecord, NEW status \in Terminals
    PROVE  LET f == Finalize(o, status)
           IN  /\ f \in ObsRecord /\ f.writing = o.writing /\ f.records = o.records
               /\ o.status = "none" => f.status = status /\ f.active = o.active - 1
               /\ o.status # "none" => f = o
<1>1. CASE o.status = "none"
  <2>1. Finalize(o, status) = [o EXCEPT !.status = status, !.active = o.active - 1]
  BY <1>1 DEF Finalize
  <2>2. status \in Statuses /\ o.active - 1 \in Int
  BY DEF ObsRecord, Statuses
  <2>3. Finalize(o, status) \in ObsRecord
  BY <2>1, <2>2 DEF ObsRecord
  <2> QED
  BY <1>1, <2>1, <2>3 DEF ObsRecord
<1>2. CASE o.status # "none"
  BY <1>2 DEF Finalize
<1> QED
  BY <1>1, <1>2

(* _write_capture                                                          *)
LEMMA BeginCaptureIs ==
    ASSUME NEW o \in ObsRecord
    PROVE  LET f == BeginCapture(o)
           IN  /\ f \in ObsRecord /\ f.writing
               /\ f.status = o.status /\ f.active = o.active /\ f.records = o.records
BY DEF BeginCapture, ObsRecord

(* The first record written is one of the status.                          *)
LEMMA EndCaptureIs ==
    ASSUME NEW o \in ObsRecord, NEW written \in BOOLEAN, o.records = <<>>
    PROVE  LET f == EndCapture(o, written)
           IN  /\ f \in ObsRecord /\ f.writing = o.writing
               /\ f.status = o.status /\ f.active = o.active
               /\ Len(f.records) <= 1
               /\ \A i \in DOMAIN f.records : f.records[i] = f.status
<1>1. CASE written
  <2>1. EndCapture(o, written) = [o EXCEPT !.records = Append(o.records, o.status)]
  BY <1>1 DEF EndCapture
  <2>2. Append(o.records, o.status) = <<o.status>> /\ <<o.status>> \in Seq(Statuses)
  BY DEF ObsRecord
  <2>3. Len(<<o.status>>) = 1 /\ DOMAIN <<o.status>> = {1} /\ <<o.status>>[1] = o.status
    OBVIOUS
  <2> DEFINE x == o.status
             q == <<x>>
  <2>4. q \in Seq(Statuses) /\ Len(q) = 1 /\ DOMAIN q = {1} /\ q[1] = x
  BY <2>2, <2>3
  <2>5. EndCapture(o, written) = [o EXCEPT !.records = q]
  BY <2>1, <2>2
  <2> HIDE DEF q
  <2>6. [o EXCEPT !.records = q] \in ObsRecord
  BY <2>4 DEF ObsRecord
  <2> DEFINE f == [o EXCEPT !.records = q]
  <2>7. f.writing = o.writing /\ f.status = x /\ f.active = o.active /\ f.records = q
  BY DEF ObsRecord
  <2> HIDE DEF f
  <2>8. Len(f.records) <= 1 /\ \A i \in DOMAIN f.records : f.records[i] = f.status
    <3>1. Len(q) <= 1 /\ \A i \in DOMAIN q : q[i] = x
      BY <2>4
    <3> QED
      BY <2>7, <3>1, Zenon
  <2> QED
  BY <2>5, <2>6, <2>7, <2>8 DEF f
<1>2. CASE ~written
  <2>1. Len(<<>>) = 0 /\ DOMAIN <<>> = {}
    OBVIOUS
  <2>2. EndCapture(o, written) = o
  BY <1>2 DEF EndCapture
  <2>3. Len(o.records) <= 1 /\ \A i \in DOMAIN o.records : o.records[i] = o.status
  BY <2>1
  <2> QED
  BY <2>2, <2>3
<1> QED
  BY <1>1, <1>2

(* t ends as r: its last event is a terminal one, which tells the decision. *)
EndsAs(t, r) ==
    /\ r \in RawRecord /\ r.terminal /\ r.cancelled = t.cancelled
    /\ r.decision.disp \in Dispositions
    /\ r.pending # <<>> /\ r.pending[Len(r.pending)] \in Terminals
    /\ \A i \in DOMAIN r.pending :
          /\ r.pending[i] = "completed" => r.decision.disp = "success"
          /\ r.pending[i] = "failed" => r.decision.disp = "failure"
          /\ r.pending[i] = "cancelled" => r.decision.disp = "cancellation"

(* _emit_terminal_decision                                                 *)
LEMMA EmitIs ==
    ASSUME NEW t \in RawRecord, t.pending = <<>>,
           NEW dec \in [disp : {"failure", "cancellation"}, owner : Owners, err : Errors]
    PROVE  EndsAs(t, EmitDecision(t, dec))
<1> DEFINE x == IF dec.disp = "failure" THEN "failed" ELSE "cancelled"
           r == EmitDecision(t, dec)
<1>1. x \in Terminals /\ x \in RawKinds /\ x # "completed"
      /\ (x = "failed" => dec.disp = "failure")
         /\ (x = "cancelled" => dec.disp = "cancellation")
  BY DEF Terminals, RawKinds
<1> HIDE DEF x
<1>2. Append(t.pending, x) = <<x>> /\ <<x>> \in Seq(RawKinds)
  BY <1>1
<1>3. r = [t EXCEPT !.pending = <<x>>, !.decision = dec, !.terminal = TRUE]
  BY <1>2 DEF EmitDecision, x
<1>4. r \in RawRecord /\ r.terminal /\ r.cancelled = t.cancelled /\ r.decision = dec
      /\ r.pending = <<x>>
  BY <1>2, <1>3, ZenonT(30) DEF RawRecord, Dispositions
<1>5. Len(<<x>>) = 1 /\ DOMAIN <<x>> = {1} /\ <<x>>[1] = x /\ <<x>> # <<>>
  OBVIOUS
<1> QED
  BY <1>1, <1>4, <1>5 DEF EndsAs, Dispositions

(* Who asked for the end of a session without evidence owns it.            *)
LEMMA ReasonIs ==
    ASSUME NEW reason
    PROVE  LET ev == RecordControlledReason(NoEvidence, reason)
           IN  /\ ev \in EvidenceType /\ ev.owner \in {"none", "lifecycle"}
               /\ ev.rfail = "none" /\ ev.cfail = "none" /\ ev.pfail = "none"
               /\ ev.sfail = "none" /\ ev.ufail = "none" /\ ev.stop = "none"
BY DEF RecordControlledReason, NoEvidence, EvidenceType, Claim, First, Owners, Errors,
       Lifecycle, StopReasons

(* The two ends that are no success.                                       *)
Bad == [disp : {"failure", "cancellation"}, owner : Owners, err : Errors]

LEMMA CancelEventIs ==
    ASSUME NEW t \in RawRecord, t.pending = <<>>, t.ev = NoEvidence, NEW reason
    PROVE  EndsAs(t, CancelEvent(t, reason))
<1> DEFINE ev == RecordControlledReason(NoEvidence, reason)
           e2 == IF ev.owner = "lifecycle" THEN ev ELSE RecordRuntimeCancelled(ev)
<1>1. /\ ev \in EvidenceType /\ ev.owner \in {"none", "lifecycle"} /\ ev.rfail = "none"
  BY ReasonIs
<1> HIDE DEF ev
<1>2. e2 \in EvidenceType /\ e2.owner \in {"lifecycle", "runtime"} /\ e2.rfail = "none"
  BY <1>1 DEF RecordRuntimeCancelled, Claim, EvidenceType, Owners
<1> HIDE DEF e2
<1>3. Resolve(e2, "final") \in Bad
  BY <1>2 DEF Resolve, Bad, Fails, Cancels, Owners, Errors
<1>4. [t EXCEPT !.ev = e2] \in RawRecord /\ [t EXCEPT !.ev = e2].pending = <<>>
      /\ [t EXCEPT !.ev = e2].cancelled = t.cancelled
  BY <1>2 DEF RawRecord
<1>5. EndsAs([t EXCEPT !.ev = e2], EmitDecision([t EXCEPT !.ev = e2], Resolve(e2, "final")))
  BY <1>3, <1>4, EmitIs DEF Bad
<1>6. CancelEvent(t, reason) = EmitDecision([t EXCEPT !.ev = e2], Resolve(e2, "final"))
  BY DEF CancelEvent, e2, ev
<1> QED
  BY <1>4, <1>5, <1>6 DEF EndsAs

LEMMA FailRawIs ==
    ASSUME NEW t \in RawRecord, t.pending = <<>>, t.ev = NoEvidence, ~t.terminal,
                                              NEW reason,
           NEW unknown \in BOOLEAN
    PROVE  EndsAs(t, FailRaw(t, reason, unknown))
<1> DEFINE ev == RecordControlledReason(NoEvidence, reason)
           e2 == IF unknown THEN RecordUnknownFailure(ev) ELSE RecordRuntimeFailure(ev,
               "final")
<1>1. /\ ev \in EvidenceType /\ ev.owner \in {"none", "lifecycle"} /\ ev.rfail = "none"
      /\ ev.ufail = "none" /\ ev.cfail = "none" /\ ev.pfail = "none" /\ ev.sfail = "none"
      /\ ev.stop = "none"
  BY ReasonIs
<1> HIDE DEF ev
<1>2. e2 \in EvidenceType /\ e2.stop = "none" /\ e2.cfail = "none" /\ e2.pfail = "none"
      /\ e2.sfail = "none"
      /\ \/ e2.owner = "lifecycle"
         \/ e2.owner = "runtime" /\ e2.rfail = "final"
         \/ e2.owner = "none" /\ e2.ufail = "final"
  <2>1. CASE unknown
    <3>1. e2 = [ev EXCEPT !.ufail = "final"]
      BY <1>1, <2>1 DEF RecordUnknownFailure, First
    <3> QED
      BY <1>1, <3>1 DEF EvidenceType, Errors
  <2>2. CASE ~unknown
    <3>1. e2 = Claim([ev EXCEPT !.rfail = "final"], "runtime")
      BY <1>1, <2>2 DEF RecordRuntimeFailure, First
    <3>2. CASE ev.owner = "none"
      BY <1>1, <2>2, <3>1, <3>2, ZenonT(30) DEF EvidenceType, Errors, Claim, Owners
    <3>3. CASE ev.owner = "lifecycle"
      BY <1>1, <2>2, <3>1, <3>3 DEF EvidenceType, Errors, Claim, Owners
    <3> QED
      BY <1>1, <3>2, <3>3
  <2> QED
  BY <2>1, <2>2
<1> HIDE DEF e2
<1>3. Resolve(e2, "final") \in Bad
  BY <1>2 DEF Resolve, Bad, Fails, Cancels, Owners, Errors
<1>4. [t EXCEPT !.ev = e2] \in RawRecord /\ [t EXCEPT !.ev = e2].pending = <<>>
      /\ [t EXCEPT !.ev = e2].cancelled = t.cancelled
  BY <1>2 DEF RawRecord
<1>5. EndsAs([t EXCEPT !.ev = e2], EmitDecision([t EXCEPT !.ev = e2], Resolve(e2, "final")))
  BY <1>3, <1>4, EmitIs DEF Bad
<1>6. FailRaw(t, reason, unknown) = EmitDecision([t EXCEPT !.ev = e2], Resolve(e2, "final"))
  BY DEF FailRaw, e2, ev
<1> QED
  BY <1>4, <1>5, <1>6 DEF EndsAs

(* What comes before the text of a first piece.                            *)
LEMMA PreludeIs ==
    ASSUME NEW t \in RawRecord, t.pending = <<>>
    PROVE  LET pre == t.pending \o (IF t.text THEN <<>> ELSE <<"text_started">>)
           IN  pre \in Seq(RawKinds) /\ \A i \in 1..Len(pre) : pre[i] = "text_started"
<1> DEFINE s == IF t.text THEN <<>> ELSE <<"text_started">>
<1>1. s \in Seq(RawKinds) /\ \A i \in 1..Len(s) : s[i] = "text_started"
  <2>1. CASE t.text
    <3>1. s = <<>> /\ Len(s) = 0 /\ s \in Seq(RawKinds)
      BY <2>1
    <3> QED
      BY <3>1
  <2>2. CASE ~t.text
  BY <2>2 DEF RawKinds
  <2> QED
  BY <2>1, <2>2
<1> HIDE DEF s
<1>2. <<>> \o s = s
  BY <1>1
<1> QED
  BY <1>1, <1>2 DEF s

LEMMA FinishRawIs ==
    ASSUME NEW t \in RawRecord, t.pending = <<>>, t.ev = NoEvidence, NEW reason
    PROVE  EndsAs(t, FinishRaw(t, reason, "eos"))
<1> DEFINE ev0 == RecordControlledReason(NoEvidence, reason)
           ev == RecordRuntimeFinished(ev0, "eos")
           dec == Resolve(ev, "final")
           t2 == [t EXCEPT !.ev = ev]
<1>1. /\ ev0 \in EvidenceType /\ ev0.owner \in {"none", "lifecycle"} /\ ev0.rfail = "none"
      /\ ev0.ufail = "none" /\ ev0.cfail = "none" /\ ev0.pfail = "none"
         /\ ev0.sfail = "none"
  BY ReasonIs
<1> HIDE DEF ev0
<1>2. ev \in EvidenceType /\ ev.owner \in {"none", "lifecycle"} /\ ev.rfail = "none"
      /\ ev.ufail = "none" /\ ev.cfail = "none" /\ ev.pfail = "none" /\ ev.sfail = "none"
      /\ ev.stop = "eos"
  BY <1>1 DEF RecordRuntimeFinished, EvidenceType, StopReasons
<1>3. FinishRaw(t, reason, "eos") =
        IF dec.disp # "success" THEN EmitDecision(t2, dec)
        ELSE [t EXCEPT !.ev = ev, !.text = TRUE, !.decision = dec, !.terminal = TRUE,
                       !.pending = t.pending \o (IF t.text THEN <<>> ELSE <<"text_started">>)
                                     \o <<"text_completed", "usage", "completed">>]
  BY DEF FinishRaw, ev, ev0
<1> HIDE DEF ev
<1>4. dec \in Bad \/ dec = Succeeds
  BY <1>2 DEF Resolve, Bad, Fails, Cancels, Owners, Errors
<1>5. t2 \in RawRecord /\ t2.pending = <<>> /\ t2.cancelled = t.cancelled
  BY <1>2 DEF RawRecord
<1>6. CASE dec \in Bad
  <2>1. EndsAs(t2, EmitDecision(t2, dec))
  BY <1>5, <1>6, EmitIs DEF Bad
  <2> QED
  BY <1>3, <1>5, <1>6, <2>1 DEF EndsAs, Bad
<1>8. LET pre == t.pending \o (IF t.text THEN <<>> ELSE <<"text_started">>)
          q == pre \o <<"text_completed", "usage", "completed">>
      IN  /\ q \in Seq(RawKinds) /\ Len(q) \in Nat \ {0} /\ q[Len(q)] = "completed"
          /\ \A i \in DOMAIN q : q[i] \notin {"failed", "cancelled"}
  <2> DEFINE pre == t.pending \o (IF t.text THEN <<>> ELSE <<"text_started">>)
             suf == <<"text_completed", "usage", "completed">>
             q == pre \o suf
  <2>1. pre \in Seq(RawKinds) /\ \A i \in 1..Len(pre) : pre[i] = "text_started"
  BY PreludeIs
  <2>2. suf \in Seq(RawKinds) /\ Len(suf) = 3 /\ suf[3] = "completed"
        /\ \A i \in 1..3 : suf[i] \notin {"failed", "cancelled"}
  BY DEF RawKinds, Terminals
  <2> HIDE DEF pre, suf
  <2>3. q \in Seq(RawKinds) /\ Len(q) = Len(pre) + 3
        /\ \A i \in 1..Len(q) : q[i] = IF i <= Len(pre) THEN pre[i] ELSE suf[i - Len(pre)]
    <3>1. /\ q \in Seq(RawKinds)
          /\ Len(q) = Len(pre) + Len(suf)
          /\ \A i \in 1..Len(pre) + Len(suf) :
                q[i] = IF i <= Len(pre) THEN pre[i] ELSE suf[i - Len(pre)]
      BY <2>1, <2>2, ConcatProperties
    <3> HIDE DEF q
    <3> QED
      BY <2>2, <3>1
  <2>4. Len(pre) \in Nat /\ DOMAIN q = 1..Len(q)
  BY <2>1, <2>3
  <2>5. q[Len(q)] = "completed"
  BY <2>2, <2>3, <2>4
  <2>6. ASSUME NEW i \in DOMAIN q PROVE q[i] \notin {"failed", "cancelled"}
    <3>1. CASE i <= Len(pre)
      BY <2>1, <2>3, <2>4, <3>1
    <3>2. CASE i > Len(pre)
      <4>1. i - Len(pre) \in 1..3 /\ q[i] = suf[i - Len(pre)]
        BY <2>3, <2>4, <3>2
      <4> QED
        BY <2>2, <4>1
    <3> QED
      BY <2>4, <3>1, <3>2
  <2> HIDE DEF q
  <2>7. Len(q) \in Nat \ {0}
  BY <2>3, <2>4
  <2>8. q \in Seq(RawKinds)
  BY <2>3
  <2> QED
  BY <2>5, <2>6, <2>7, <2>8 DEF q, pre, suf
<1>7. CASE dec = Succeeds
  <2> DEFINE q == t.pending \o (IF t.text THEN <<>> ELSE <<"text_started">>)
                     \o <<"text_completed", "usage", "completed">>
             r == [t EXCEPT !.ev = ev, !.text = TRUE, !.decision = dec, !.terminal = TRUE,
                            !.pending = q]
  <2>1. q \in Seq(RawKinds) /\ Len(q) \in Nat \ {0} /\ q[Len(q)] = "completed"
        /\ \A i \in DOMAIN q : q[i] \notin {"failed", "cancelled"}
  BY <1>8 DEF q
  <2>2. q # <<>>
  BY <2>1
  <2> HIDE DEF q
  <2>3. FinishRaw(t, reason, "eos") = r
  BY <1>3, <1>7 DEF q, Succeeds
  <2>4. dec \in [disp : Dispositions \cup {"none"}, owner : Owners, err : Errors]
        /\ dec.disp = "success"
  BY <1>7 DEF Succeeds, Dispositions, Owners, Errors
  <2>5. r \in RawRecord /\ r.terminal /\ r.cancelled = t.cancelled /\ r.pending = q
        /\ r.decision = dec
    <3> HIDE DEF dec
    <3> QED
      BY <1>2, <2>1, <2>4 DEF RawRecord
  <2> HIDE DEF dec, r
  <2> QED
  BY <2>1, <2>2, <2>3, <2>4, <2>5 DEF EndsAs, Terminals, Dispositions
<1> QED
  BY <1>4, <1>6, <1>7

(* _process_runtime                                                        *)
LEMMA ProcessRawIs ==
    ASSUME NEW t \in RawRecord, t.pending = <<>>, t.ev = NoEvidence, ~t.terminal,
                                              NEW reason,
           NEW e \in RuntimeEnds \cup {"started", "delta"}
    PROVE  LET r == ProcessRaw(t, reason, e)
           IN  /\ e \in RuntimeEnds => EndsAs(t, r)
               /\ e \notin RuntimeEnds =>
                     /\ r \in RawRecord /\ ~r.terminal /\ r.cancelled = t.cancelled
                     /\ r.ev = t.ev /\ r.decision = t.decision
                     /\ \A i \in DOMAIN r.pending : r.pending[i] \notin Terminals
<1> DEFINE r == ProcessRaw(t, reason, e)
<1>1. CASE e = "started"
  <2>1. Append(t.pending, "started") = <<"started">> /\ <<"started">> \in Seq(RawKinds)
        /\ DOMAIN <<"started">> = {1} /\ <<"started">>[1] = "started"
  BY DEF RawKinds
  <2>2. r = [t EXCEPT !.pending = <<"started">>]
  BY <1>1, <2>1 DEF ProcessRaw
  <2> QED
  BY <1>1, <2>1, <2>2 DEF RawRecord, Terminals, RuntimeEnds
<1>2. CASE e = "delta"
  <2> DEFINE q == t.pending \o (IF t.text THEN <<>> ELSE <<"text_started">>) \o <<"text">>
  <2>2. q \in Seq(RawKinds) /\ \A i \in DOMAIN q : q[i] \notin Terminals
    <3> DEFINE pre == t.pending \o (IF t.text THEN <<>> ELSE <<"text_started">>)
    <3>1. pre \in Seq(RawKinds) /\ \A i \in 1..Len(pre) : pre[i] = "text_started"
      BY PreludeIs
    <3>2. "text" \in RawKinds /\ q = Append(pre, "text")
      BY <3>1 DEF RawKinds
    <3> HIDE DEF pre, q
    <3>3. q \in Seq(RawKinds) /\ Len(q) = Len(pre) + 1 /\ Len(pre) \in Nat
          /\ \A i \in 1..Len(q) : q[i] = IF i <= Len(pre) THEN pre[i] ELSE "text"
      BY <3>1, <3>2
    <3> QED
      BY <3>1, <3>3 DEF Terminals
  <2> HIDE DEF q
  <2>3. r = [t EXCEPT !.text = TRUE, !.pending = q]
  BY <1>2 DEF ProcessRaw, q
  <2> QED
  BY <1>2, <2>2, <2>3 DEF RawRecord, RuntimeEnds
<1>3. CASE e = "finished"
  BY <1>3, FinishRawIs DEF ProcessRaw, RuntimeEnds
<1>4. CASE e = "runtime_cancelled"
  BY <1>4, CancelEventIs DEF ProcessRaw, RuntimeEnds
<1>5. CASE e \in {"runtime_failed", "stop", "raised"}
  <2>1. ProcessRaw(t, reason, e) = FailRaw(t, reason, e = "raised")
  BY <1>5 DEF ProcessRaw
  <2>2. (e = "raised") \in BOOLEAN
    OBVIOUS
  <2>3. EndsAs(t, FailRaw(t, reason, e = "raised"))
  BY <2>2, FailRawIs
  <2> QED
  BY <1>5, <2>1, <2>3 DEF RuntimeEnds
<1> QED
  BY <1>1, <1>2, <1>3, <1>4, <1>5 DEF RuntimeEnds

(* What Recorded does to an observer whose flags agree.                    *)
Noted(status) ==
    /\ obs' \in ObsRecord /\ obs'.writing /\ obs'.records = obs.records
    /\ obs.status = "none" => obs'.status = status /\ obs'.active = obs.active - 1
    /\ obs.status # "none" => obs'.status = obs.status /\ obs'.active = obs.active

LEMMA RecordedIs ==
    ASSUME ObsType, NEW status \in Terminals, obs' = Recorded(obs, status)
    PROVE  Noted(status)
<1> DEFINE f == Finalize(obs, status)
<1>1. obs \in ObsRecord
  BY DEF ObsType
<1>2. /\ f \in ObsRecord /\ f.writing = obs.writing /\ f.records = obs.records
      /\ obs.status = "none" => f.status = status /\ f.active = obs.active - 1
      /\ obs.status # "none" => f = obs
  BY <1>1, FinalizeIs
<1>3. obs' = BeginCapture(f)
  BY DEF Recorded
<1> HIDE DEF f
<1> QED
  BY <1>2, <1>3, BeginCaptureIs DEF Noted

(* The record of a task that was writing.                                  *)
Written ==
    /\ obs' \in ObsRecord /\ obs'.writing = obs.writing
    /\ obs'.status = obs.status /\ obs'.active = obs.active
    /\ Len(obs'.records) <= 1
    /\ \A i \in DOMAIN obs'.records : obs'.records[i] = obs'.status

LEMMA WrittenIs ==
    ASSUME ObsType, obs.records = <<>>,
           \E written \in {CaptureOn, FALSE} : obs' = EndCapture(obs, written)
    PROVE  Written
<1>1. PICK written \in BOOLEAN : obs' = EndCapture(obs, written)
  BY ExchangeAssumption
<1> QED
  BY <1>1, EndCaptureIs DEF Written, ObsType

(* The worker's code is at its end.                                        *)
Ended(results) ==
    /\ w' \in WorkerType /\ w'.at = "done" /\ w'.result \in results
    /\ ~w'.sig /\ ~w'.shield /\ w'.term = w.term /\ w'.got = "none"

LEMMA EndsIs ==
    ASSUME w \in WorkerType, NEW result \in Results, w' = Ends(result)
    PROVE  Ended({result})
BY DEF Ended, Ends, WorkerType, WorkerAt, Idle

LEMMA WorkerEndsIs ==
    ASSUME Types, WorkerEnds
    PROVE  /\ reg' \in {"none", "gone"}
           /\ \/ w.shield /\ w' \in WorkerType /\ w'.at = "done" /\ ~w'.sig /\ ~w'.shield
                 /\ w'.term = w.term /\ w'.got = w.got /\ w'.result = w.result
              \/ ~w.shield /\ Ended({"error", "cancelled"})
<1>1. reg' \in {"none", "gone"}
  BY DEF WorkerEnds, Abandon, Types
<1>2. CASE w.shield
  BY <1>1, <1>2 DEF WorkerEnds, Types, WorkerType, WorkerAt, Idle
<1>3. CASE ~w.shield
  <2>1. PICK result \in {"error", "cancelled"} : w' = Ends(result)
  BY <1>3 DEF WorkerEnds
  <2>2. w \in WorkerType /\ result \in Results
  BY DEF Types, Results
  <2>3. Ended({result})
  BY <2>1, <2>2, EndsIs
  <2> QED
  BY <1>1, <1>3, <2>3 DEF Ended
<1> QED
  BY <1>2, <1>3

(* The start of session.cancel(), by how far it gets.                      *)
LEMMA CallCancelIs ==
    ASSUME Types, RawType, ObsType, NEW reach, reach = CancelReach, CallCancel(reach)
    PROVE  /\ stateful' = (stateful \/ Responses)
           /\ reach = "skip" =>
                 /\ raw' = raw /\ ctl' = ctl /\ obs' = obs
                 /\ (Responses /\ stateful) \/ obs.status # "none"
           /\ reach # "skip" =>
                 /\ obs.status = "none"
                 /\ raw' \in RawRecord
                 /\ raw'.pending = raw.pending /\ raw'.terminal = raw.terminal
                 /\ raw'.ev = raw.ev /\ raw'.decision = raw.decision
                 /\ raw.cancelled => raw'.cancelled
           /\ reach = "record" =>
                 /\ raw.terminal \/ raw.cancelled \/ ctl.over \/ ctl.asked
                 /\ ctl' = ctl /\ Noted("cancelled")
           /\ reach = "await" =>
                 /\ raw'.cancelled /\ obs' = obs
                 /\ ctl' \in [reason : Reasons, asked : BOOLEAN, over : BOOLEAN]
                 /\ ctl'.asked /\ ctl'.over = ctl.over
                 /\ ~ctl.over /\ ~ctl.asked
           /\ reach \in {"skip", "record", "await"}
<1>1. stateful' = (stateful \/ Responses)
  BY DEF CallCancel
<1>2. CASE reach = "skip"
  BY <1>1, <1>2 DEF CallCancel, CancelReach
<1>3. CASE reach = "record"
  <2>1. obs.status = "none" /\ (raw.terminal \/ raw.cancelled \/ ctl.over \/ ctl.asked)
  BY <1>3 DEF CancelReach
  <2>2. ctl' = ctl /\ obs' = Recorded(obs, "cancelled")
  BY <1>3 DEF CallCancel, Recorded
  <2>3. Noted("cancelled")
  BY <2>2, RecordedIs DEF Terminals
  <2>4. raw' = raw \/ raw' = [raw EXCEPT !.cancelled = TRUE]
  BY DEF CallCancel
  <2>5. raw' \in RawRecord /\ raw'.pending = raw.pending /\ raw'.terminal = raw.terminal
        /\ raw'.ev = raw.ev /\ raw'.decision = raw.decision
           /\ (raw.cancelled => raw'.cancelled)
  BY <2>4 DEF RawType, RawRecord
  <2> QED
  BY <1>1, <1>3, <2>1, <2>2, <2>3, <2>5
<1>4. CASE reach = "await"
  <2>1. obs.status = "none" /\ ~raw.terminal /\ ~ctl.over /\ ~ctl.asked
  BY <1>4 DEF CancelReach
  <2>2. raw' = [raw EXCEPT !.cancelled = TRUE] /\ obs' = obs /\ AskRuntime
  BY <1>4, <2>1 DEF CallCancel
  <2>3. raw' \in RawRecord /\ raw'.pending = raw.pending /\ raw'.terminal = raw.terminal
        /\ raw'.ev = raw.ev /\ raw'.decision = raw.decision /\ raw'.cancelled
  BY <2>2 DEF RawType, RawRecord
  <2>4. ctl' \in [reason : Reasons, asked : BOOLEAN, over : BOOLEAN]
        /\ ctl'.asked /\ ctl'.over = ctl.over
  BY <2>2 DEF AskRuntime, Types, Reasons, Lifecycle
  <2> QED
  BY <1>1, <1>4, <2>1, <2>2, <2>3, <2>4
<1>5. reach \in {"skip", "record", "await"}
  BY DEF CancelReach
<1> QED
  BY <1>2, <1>3, <1>4, <1>5

(* What a step makes of a worker that is refused before it has a session.  *)
LEMMA RejectIs ==
    ASSUME Types, ObsType, Reject
    PROVE  /\ obs' \in ObsRecord /\ obs'.writing = obs.writing /\ obs'.records = obs.records
           /\ obs'.status = "rejected" /\ obs'.active = obs.active
           /\ w' = [w EXCEPT !.at = "rejected"]
<1>1. w' = [w EXCEPT !.at = "rejected"]
      /\ obs' = [obs EXCEPT !.rejected = obs.rejected + 1, !.status = "rejected"]
  BY DEF Reject, Go
<1>2. obs.rejected + 1 \in Nat /\ "rejected" \in Statuses
  BY DEF ObsType, ObsRecord, Statuses
<1> QED
  BY <1>1, <1>2 DEF ObsType, ObsRecord

(* The handler enters the finally block of its race.                       *)
LEMMA ReapIs ==
    ASSUME NEW out \in Results, NEW handed \in BOOLEAN, NEW cleaned \in BOOLEAN,
           Reap(out, handed, cleaned)
    PROVE  /\ h' \in HandlerType /\ h'.at = "reap" /\ h'.out = out
           /\ h'.handed = handed /\ h'.cleaned = cleaned
           /\ d' = IF d = "waiting" THEN "cancelled" ELSE d
BY DEF Reap, HandlerType, HandlerAt

LEMMA SignalIs ==
    ASSUME w \in WorkerType, SignalWorker
    PROVE  /\ w' \in WorkerType /\ w'.at = w.at /\ w'.result = w.result
           /\ w'.shield = w.shield /\ w'.term = w.term /\ w'.got = w.got /\ w'.err = w.err
           /\ w.at = "done" \/ w'.sig
BY DEF SignalWorker, WorkerType

(* An endpoint that consumes an event.                                     *)
LEMMA DeliverIs ==
    ASSUME w \in WorkerType, NEW e \in RawKinds \cup {"none"}, w' = Deliver(e)
    PROVE  /\ w' \in WorkerType /\ w'.at \in {"read", "send"} /\ (w'.at = "send" => Sse)
           /\ w'.got = e /\ (w'.term => w.term \/ e \in Terminals)
           /\ w'.result = w.result /\ w'.sig = w.sig /\ w'.shield = w.shield
<1>1. PICK at \in {"read", "send"}, term \in BOOLEAN, err \in BOOLEAN :
         /\ w' = [w EXCEPT !.at = at, !.got = e, !.term = term, !.err = err]
         /\ at = "send" => Sse
         /\ term => w.term \/ e \in Terminals
  BY DEF Deliver, WorkerType
<1> QED
  BY <1>1 DEF WorkerType, WorkerAt, Reading

(* The worker of an exchange is created, or never is.                      *)
LEMMA ParseKeeps ==
    ASSUME IndInv, Parse, ~Undisturbed
    PROVE  IndInv'
<1>1. Types /\ RawType /\ ObsType /\ TaskInv /\ StreamInv /\ SessionInv /\ RecordInv
      /\ DecisionInv /\ DoneInv /\ AnswerInv
  BY DEF IndInv
<1>2. UNCHANGED <<kind, client, outer, other, ctl, lease, job, n, raw, stateful, obs, reg,
                  lost>>
  BY DEF Parse, Race, Anthropic, Sse, tasks, session
<1>3. Sse' = Sse /\ Responses' = Responses /\ Race' = Race
      /\ (Race = "plain" => ~Sse) /\ (Race = "setup" => Sse)
  BY <1>2 DEF Sse, Responses, Race, Anthropic
<1>4. h.at = "parse" /\ h'.handed = h.handed /\ h'.cleaned = h.cleaned
      /\ w'.result = w.result /\ w'.sig = w.sig /\ w'.shield = w.shield
         /\ w'.term = w.term /\ w'.got = w.got /\ w'.err = w.err
  BY <1>1 DEF Parse, Race, Anthropic, Sse, Types, WorkerType, HandlerType
<1>5. (h'.at = "over" /\ w'.at = w.at)
      \/ (h'.at = (IF Race = "plain" THEN "yield" ELSE "wait") /\ w'.at = "start")
  BY <1>1 DEF Parse, Race, Anthropic, Sse, Types, WorkerType, HandlerType
<1>6. w' \in WorkerType
  BY <1>1, <1>2, <1>3, <1>4, <1>5
  DEF Types, WorkerType, WorkerAt, Results, Reading, Setup, Ending, Idle, Parse, Race,
      Anthropic, Sse
<1>7. h' \in HandlerType
  BY <1>1, <1>2, <1>3, <1>4, <1>5
  DEF Types, HandlerType, HandlerAt, Results, WorkerType, Parse, Race, Anthropic, Sse
<1>8. Types'
  BY <1>1, <1>2, <1>3, <1>4, <1>5, <1>6, <1>7
  DEF Types, Ending, Idle, Parse, Race, Anthropic, Sse
<1>9. RawType'
  BY <1>1, <1>2, <1>3 DEF RawType
<1>10. ObsType'
  BY <1>1, <1>2, <1>3 DEF ObsType
<1>11. TaskInv'
  BY <1>1, <1>2, <1>3, <1>4, <1>5 DEF TaskInv, Setup, Ending, Idle, Reading, Terminals
<1>12. StreamInv'
  BY <1>1, <1>2, <1>3, <1>4, <1>5
  DEF StreamInv, TaskInv, Setup, Ending, Idle, Reading, Terminals
<1>13. SessionInv'
  BY <1>1, <1>2, <1>3, <1>4, <1>5
  DEF SessionInv, TaskInv, StreamInv, Cancelling, Setup, Ending, Idle, Reading, Terminals
<1>14. RecordInv'
  BY <1>1, <1>2, <1>3, <1>4, <1>5
  DEF RecordInv, SessionInv, ObsType, TaskInv, Cancelling, Setup, Ending, Idle, Reading,
      Terminals
<1>15. DecisionInv'
  BY <1>1, <1>2, <1>3, <1>4, <1>5
  DEF DecisionInv, RawType, SessionInv, TaskInv, Dispositions, NoDecision, Cancelling,
      Setup, Ending, Idle, Reading, Terminals
<1>16. DoneInv'
  BY <1>1, <1>2, <1>3, <1>4, <1>5
  DEF DoneInv, TaskInv, SessionInv, Down, Cancelling, Setup, Ending, Idle, Reading,
      Terminals
<1>17. AnswerInv'
  BY <1>1, <1>2, <1>3, <1>4, <1>5
  DEF AnswerInv, TaskInv, Setup, Ending, Idle, Reading, Terminals
<1> QED
  BY <1>8, <1>9, <1>10, <1>11, <1>12, <1>13, <1>14, <1>15, <1>16, <1>17 DEF IndInv

(* The client leaves.                                                      *)
LEMMA ClientLeavesKeeps ==
    ASSUME IndInv, ClientLeaves, ~Undisturbed
    PROVE  IndInv'
<1>1. Types /\ RawType /\ ObsType /\ TaskInv /\ StreamInv /\ SessionInv /\ RecordInv
      /\ DecisionInv /\ DoneInv /\ AnswerInv
  BY DEF IndInv
<1>2. UNCHANGED <<kind, h, outer, d, w, other, ctl, lease, job, n, raw, stateful, obs, reg,
                  lost>>
  BY DEF ClientLeaves, tasks, session
<1>3. Sse' = Sse /\ Responses' = Responses /\ Race' = Race
      /\ (Race = "plain" => ~Sse) /\ (Race = "setup" => Sse)
  BY <1>2 DEF Sse, Responses, Race, Anthropic
<1>4. Types'
  BY <1>1, <1>2, <1>3 DEF Types, Ending, Idle, ClientLeaves
<1>5. RawType'
  BY <1>1, <1>2, <1>3 DEF RawType
<1>6. ObsType'
  BY <1>1, <1>2, <1>3 DEF ObsType
<1>7. TaskInv'
  BY <1>1, <1>2, <1>3 DEF TaskInv
<1>8. StreamInv'
  BY <1>1, <1>2, <1>3 DEF StreamInv
<1>9. SessionInv'
  BY <1>1, <1>2, <1>3 DEF SessionInv, Cancelling
<1>10. RecordInv'
  BY <1>1, <1>2, <1>3 DEF RecordInv
<1>11. DecisionInv'
  BY <1>1, <1>2, <1>3 DEF DecisionInv
<1>12. DoneInv'
  BY <1>1, <1>2, <1>3 DEF DoneInv, Down
<1>13. AnswerInv'
  BY <1>1, <1>2, <1>3 DEF AnswerInv
<1> QED
  BY <1>4, <1>5, <1>6, <1>7, <1>8, <1>9, <1>10, <1>11, <1>12, <1>13 DEF IndInv

(* The disconnect is seen.                                                 *)
LEMMA DisconnectSeenKeeps ==
    ASSUME IndInv, DisconnectSeen, ~Undisturbed
    PROVE  IndInv'
<1>1. Types /\ RawType /\ ObsType /\ TaskInv /\ StreamInv /\ SessionInv /\ RecordInv
      /\ DecisionInv /\ DoneInv /\ AnswerInv
  BY DEF IndInv
<1>2. UNCHANGED <<kind, client, h, outer, w, other, ctl, lease, job, n, raw, stateful, obs,
                  reg, lost>>
  BY DEF DisconnectSeen, tasks, session
<1>3. Sse' = Sse /\ Responses' = Responses /\ Race' = Race
      /\ (Race = "plain" => ~Sse) /\ (Race = "setup" => Sse)
  BY <1>2 DEF Sse, Responses, Race, Anthropic
<1>4. d = "waiting" /\ d' = "done"
  BY <1>1 DEF DisconnectSeen, Types, WorkerType, HandlerType
<1>5. Types'
  BY <1>1, <1>2, <1>3, <1>4 DEF Types, Ending, Idle, DisconnectSeen
<1>6. RawType'
  BY <1>1, <1>2, <1>3 DEF RawType
<1>7. ObsType'
  BY <1>1, <1>2, <1>3 DEF ObsType
<1>8. TaskInv'
  BY <1>1, <1>2, <1>3 DEF TaskInv
<1>9. StreamInv'
  BY <1>1, <1>2, <1>3, <1>4 DEF StreamInv, TaskInv, Setup, Ending, Idle, Reading, Terminals
<1>10. SessionInv'
  BY <1>1, <1>2, <1>3 DEF SessionInv, Cancelling
<1>11. RecordInv'
  BY <1>1, <1>2, <1>3 DEF RecordInv
<1>12. DecisionInv'
  BY <1>1, <1>2, <1>3 DEF DecisionInv
<1>13. DoneInv'
  BY <1>1, <1>2, <1>3 DEF DoneInv, Down
<1>14. AnswerInv'
  BY <1>1, <1>2, <1>3 DEF AnswerInv
<1> QED
  BY <1>5, <1>6, <1>7, <1>8, <1>9, <1>10, <1>11, <1>12, <1>13, <1>14 DEF IndInv

(* A plain race after its first turn.                                      *)
LEMMA YieldOverKeeps ==
    ASSUME IndInv, YieldOver, ~Undisturbed
    PROVE  IndInv'
<1>1. Types /\ RawType /\ ObsType /\ TaskInv /\ StreamInv /\ SessionInv /\ RecordInv
      /\ DecisionInv /\ DoneInv /\ AnswerInv
  BY DEF IndInv
<1>2. UNCHANGED <<kind, client, outer, w, other, ctl, lease, job, n, raw, stateful, obs,
                  reg, lost>>
  BY DEF YieldOver, Reap, Unmoved, tasks, session
<1>3. Sse' = Sse /\ Responses' = Responses /\ Race' = Race
      /\ (Race = "plain" => ~Sse) /\ (Race = "setup" => Sse)
  BY <1>2 DEF Sse, Responses, Race, Anthropic
<1>4. h.at = "yield"
  BY <1>1 DEF YieldOver, Reap, Unmoved, Types, WorkerType, HandlerType
<1>5. /\ h' \in HandlerType /\ d' \in {d, "cancelled", "waiting"}
      /\ \/ w.at = "done" /\ h'.at = "reap" /\ h'.out = w.result /\ h'.handed /\ ~h'.cleaned
         \/ w.at # "done" /\ h'.at = "wait" /\ h'.handed = h.handed
            /\ h'.cleaned = h.cleaned
  <2>1. w.result \in Results
  BY <1>1 DEF Types, WorkerType
  <2>2. CASE w.at = "done"
    <3>1. Reap(w.result, TRUE, FALSE)
      BY <2>2 DEF YieldOver
    <3> QED
      BY <2>1, <2>2, <3>1, ReapIs
  <2>3. CASE w.at # "done"
  BY <1>1, <2>3 DEF YieldOver, Types, HandlerType, HandlerAt
  <2> QED
  BY <2>2, <2>3
<1>6. Types'
  BY <1>1, <1>2, <1>3, <1>4, <1>5 DEF Types, Ending, Idle, YieldOver, Reap, Unmoved
<1>7. RawType'
  BY <1>1, <1>2, <1>3 DEF RawType
<1>8. ObsType'
  BY <1>1, <1>2, <1>3 DEF ObsType
<1>9. TaskInv'
  BY <1>1, <1>2, <1>3, <1>4, <1>5 DEF TaskInv, Setup, Ending, Idle, Reading, Terminals
<1>10. StreamInv'
  BY <1>1, <1>2, <1>3, <1>4, <1>5
  DEF StreamInv, TaskInv, Setup, Ending, Idle, Reading, Terminals
<1>11. SessionInv'
  BY <1>1, <1>2, <1>3 DEF SessionInv, Cancelling
<1>12. RecordInv'
  BY <1>1, <1>2, <1>3 DEF RecordInv
<1>13. DecisionInv'
  BY <1>1, <1>2, <1>3 DEF DecisionInv
<1>14. DoneInv'
  BY <1>1, <1>2, <1>3, <1>4, <1>5
  DEF DoneInv, TaskInv, SessionInv, Down, Cancelling, Setup, Ending, Idle, Reading,
      Terminals
<1>15. AnswerInv'
  BY <1>1, <1>2, <1>3, <1>4, <1>5
  DEF AnswerInv, TaskInv, Setup, Ending, Idle, Reading, Terminals
<1> QED
  BY <1>6, <1>7, <1>8, <1>9, <1>10, <1>11, <1>12, <1>13, <1>14, <1>15 DEF IndInv

(* Each of the three races decides.                                        *)
LEMMA WaitOverKeeps ==
    ASSUME IndInv, WaitOver, ~Undisturbed
    PROVE  IndInv'
<1>1. Types /\ RawType /\ ObsType /\ TaskInv /\ StreamInv /\ SessionInv /\ RecordInv
      /\ DecisionInv /\ DoneInv /\ AnswerInv
  BY DEF IndInv
<1>2. UNCHANGED <<kind, client, outer, other, ctl, lease, job, n, raw, stateful, obs, reg,
                  lost>>
  BY DEF WaitOver, Unmoved, tasks, session
<1>3. Sse' = Sse /\ Responses' = Responses /\ Race' = Race
      /\ (Race = "plain" => ~Sse) /\ (Race = "setup" => Sse)
  BY <1>2 DEF Sse, Responses, Race, Anthropic
<1>4. h.at = "wait"
  BY <1>1 DEF WaitOver, Unmoved, Types, WorkerType, HandlerType
<1>5. /\ h' \in HandlerType /\ w' \in WorkerType /\ d' \in {d, "cancelled"}
         /\ w'.result = w.result /\ w'.term = w.term /\ w'.got = w.got /\ w'.err = w.err
      /\ \/ h'.at = "reap" /\ ~h'.handed /\ ~h'.cleaned /\ Race = "setup"
            /\ w'.at = w.at /\ w'.shield = w.shield /\ (w.at = "done" \/ w'.sig)
         \/ h'.at = "drop" /\ h'.handed = h.handed /\ h'.cleaned = h.cleaned
            /\ Race # "setup"
            /\ w.at # "done" /\ w'.at = w.at /\ w'.shield = w.shield /\ w'.sig /\ d' = d
         \/ h'.at = "clean" /\ h'.handed = h.handed /\ h'.cleaned = h.cleaned /\ Sse
            /\ w.result = "value" /\ w.at = "done" /\ w'.at = "cancel" /\ w'.shield
               /\ d' = d
         \/ h'.at = "reap" /\ h'.out = w.result /\ (h'.handed <=> w.result = "value")
            /\ ~h'.cleaned
            /\ w.at = "done" /\ w'.at = w.at /\ w'.shield = w.shield
            /\ (Sse /\ w.result = "value" => d' \notin {"waiting", "done"})
  <2>1. w \in WorkerType /\ h \in HandlerType /\ w.result \in Results
  /\ "cancelled" \in Results
  BY <1>1 DEF Types, WorkerType, Results
  <2>2. CASE Race = "setup" /\ d = "done"
    <3>1. SignalWorker /\ Reap("cancelled", FALSE, FALSE)
      BY <2>2 DEF WaitOver
    <3> QED
      BY <2>1, <2>2, <3>1, ReapIs, SignalIs
  <2>3. CASE Race # "setup" /\ w.at # "done"
    <3>3. ~(Sse /\ w.result = "value")
      BY <1>1, <1>4, <2>3 DEF StreamInv
    <3>1. SignalWorker /\ d' = d /\ h' = [h EXCEPT !.at = "drop"]
      BY <2>3, <3>3 DEF WaitOver
    <3>2. h' \in HandlerType /\ h'.at = "drop" /\ h'.handed = h.handed
    /\ h'.cleaned = h.cleaned
      BY <2>1, <3>1 DEF HandlerType, HandlerAt
    <3> QED
      BY <2>1, <2>3, <3>1, <3>2, SignalIs
  <2>4. CASE Race = "shared" /\ w.at = "done" /\ d = "done" /\ Sse /\ w.result = "value"
    <3>1. w' = [w EXCEPT !.at = "cancel", !.shield = TRUE] /\ d' = d
          /\ h' = [h EXCEPT !.at = "clean"]
      BY <2>4 DEF WaitOver
    <3>2. h' \in HandlerType /\ h'.at = "clean" /\ h'.handed = h.handed
    /\ h'.cleaned = h.cleaned
      BY <2>1, <3>1 DEF HandlerType, HandlerAt
    <3>3. w' \in WorkerType /\ w'.at = "cancel" /\ w'.shield /\ w'.result = w.result
          /\ w'.term = w.term /\ w'.got = w.got /\ w'.err = w.err
      BY <2>1, <3>1 DEF WorkerType, WorkerAt, Ending
    <3> QED
      BY <2>4, <3>1, <3>2, <3>3
  <2>5. CASE /\ ~(Race = "setup" /\ d = "done") /\ ~(Race # "setup" /\ w.at # "done")
             /\ ~(Race = "shared" /\ d = "done" /\ Sse /\ w.result = "value")
    <3>1. w' = w /\ Reap(w.result, w.result = "value", FALSE) /\ w.at = "done"
      BY <2>5 DEF WaitOver
    <3>2. (w.result = "value") \in BOOLEAN
      OBVIOUS
    <3>3. /\ h' \in HandlerType /\ h'.at = "reap" /\ h'.out = w.result
          /\ h'.handed = (w.result = "value") /\ h'.cleaned = FALSE
          /\ d' = IF d = "waiting" THEN "cancelled" ELSE d
      BY <2>1, <3>1, <3>2, ReapIs
    <3>4. Sse /\ w.result = "value" => d # "done"
      BY <2>5 DEF Race, Sse, Anthropic
    <3> QED
      BY <2>1, <3>1, <3>3, <3>4
  <2> QED
  BY <2>2, <2>3, <2>4, <2>5
<1>6. Types'
  BY <1>1, <1>2, <1>3, <1>4, <1>5 DEF Types, Ending, Idle, WaitOver, Unmoved
<1>7. RawType'
  BY <1>1, <1>2, <1>3 DEF RawType
<1>8. ObsType'
  BY <1>1, <1>2, <1>3 DEF ObsType
<1>9. TaskInv'
  BY <1>1, <1>2, <1>3, <1>4, <1>5 DEF TaskInv, Setup, Ending, Idle, Reading, Terminals
<1>10. StreamInv'
  BY <1>1, <1>2, <1>3, <1>4, <1>5
  DEF StreamInv, TaskInv, Setup, Ending, Idle, Reading, Terminals
<1>11. SessionInv'
  BY <1>1, <1>2, <1>3, <1>4, <1>5
  DEF SessionInv, TaskInv, Cancelling, Setup, Ending, Idle, Reading, Terminals
<1>12. RecordInv'
  BY <1>1, <1>2, <1>3, <1>4, <1>5
  DEF RecordInv, SessionInv, ObsType, Cancelling, Setup, Ending, Idle, Reading, Terminals
<1>13. DecisionInv'
  BY <1>1, <1>2, <1>3, <1>4, <1>5
  DEF DecisionInv, RawType, SessionInv, Dispositions, NoDecision, Cancelling, Setup, Ending,
      Idle, Reading, Terminals
<1>14. DoneInv'
  BY <1>1, <1>2, <1>3, <1>4, <1>5
  DEF DoneInv, TaskInv, SessionInv, Down, Cancelling, Setup, Ending, Idle, Reading,
      Terminals
<1>15. AnswerInv'
  BY <1>1, <1>2, <1>3, <1>4, <1>5
  DEF AnswerInv, TaskInv, Setup, Ending, Idle, Reading, Terminals
<1> QED
  BY <1>6, <1>7, <1>8, <1>9, <1>10, <1>11, <1>12, <1>13, <1>14, <1>15 DEF IndInv

(* The cancelled worker is done.                                           *)
LEMMA DropOverKeeps ==
    ASSUME IndInv, DropOver, ~Undisturbed
    PROVE  IndInv'
<1>1. Types /\ RawType /\ ObsType /\ TaskInv /\ StreamInv /\ SessionInv /\ RecordInv
      /\ DecisionInv /\ DoneInv /\ AnswerInv
  BY DEF IndInv
<1>2. UNCHANGED <<kind, client, outer, w, other, ctl, lease, job, n, raw, stateful, obs,
                  reg, lost>>
  BY DEF DropOver, Reap, Unmoved, tasks, session
<1>3. Sse' = Sse /\ Responses' = Responses /\ Race' = Race
      /\ (Race = "plain" => ~Sse) /\ (Race = "setup" => Sse)
  BY <1>2 DEF Sse, Responses, Race, Anthropic
<1>4. h.at = "drop" /\ w.at = "done" /\ h'.at = "reap" /\ ~h'.handed /\ ~h'.cleaned
  BY <1>1 DEF DropOver, Reap, Unmoved, Types, WorkerType, HandlerType
<1>5. h' \in HandlerType
  BY <1>1, <1>2, <1>3, <1>4
  DEF Types, HandlerType, HandlerAt, Results, WorkerType, DropOver, Reap, Unmoved
<1>6. Types'
  BY <1>1, <1>2, <1>3, <1>4, <1>5 DEF Types, Ending, Idle, DropOver, Reap, Unmoved
<1>7. RawType'
  BY <1>1, <1>2, <1>3 DEF RawType
<1>8. ObsType'
  BY <1>1, <1>2, <1>3 DEF ObsType
<1>9. TaskInv'
  BY <1>1, <1>2, <1>3, <1>4 DEF TaskInv, Setup, Ending, Idle, Reading, Terminals
<1>10. StreamInv'
  BY <1>1, <1>2, <1>3, <1>4 DEF StreamInv, TaskInv, Setup, Ending, Idle, Reading, Terminals
<1>11. SessionInv'
  BY <1>1, <1>2, <1>3 DEF SessionInv, Cancelling
<1>12. RecordInv'
  BY <1>1, <1>2, <1>3 DEF RecordInv
<1>13. DecisionInv'
  BY <1>1, <1>2, <1>3 DEF DecisionInv
<1>14. DoneInv'
  BY <1>1, <1>2, <1>3, <1>4
  DEF DoneInv, TaskInv, SessionInv, Down, Cancelling, Setup, Ending, Idle, Reading,
      Terminals
<1>15. AnswerInv'
  BY <1>1, <1>2, <1>3, <1>4 DEF AnswerInv, TaskInv, Setup, Ending, Idle, Reading, Terminals
<1> QED
  BY <1>6, <1>7, <1>8, <1>9, <1>10, <1>11, <1>12, <1>13, <1>14, <1>15 DEF IndInv

(* The worker has taken its session down.                                  *)
LEMMA CleanOverKeeps ==
    ASSUME IndInv, CleanOver, ~Undisturbed
    PROVE  IndInv'
<1>1. Types /\ RawType /\ ObsType /\ TaskInv /\ StreamInv /\ SessionInv /\ RecordInv
      /\ DecisionInv /\ DoneInv /\ AnswerInv
  BY DEF IndInv
<1>2. UNCHANGED <<kind, client, outer, w, other, ctl, lease, job, n, raw, stateful, obs,
                  reg, lost>>
  BY DEF CleanOver, Reap, Unmoved, tasks, session
<1>3. Sse' = Sse /\ Responses' = Responses /\ Race' = Race
      /\ (Race = "plain" => ~Sse) /\ (Race = "setup" => Sse)
  BY <1>2 DEF Sse, Responses, Race, Anthropic
<1>4. h.at = "clean" /\ w.at = "done" /\ h'.at = "reap" /\ ~h'.handed
  BY <1>1 DEF CleanOver, Reap, Unmoved, Types, WorkerType, HandlerType
<1>5. h' \in HandlerType
  BY <1>1, <1>2, <1>3, <1>4
  DEF Types, HandlerType, HandlerAt, Results, WorkerType, CleanOver, Reap, Unmoved
<1>6. Types'
  BY <1>1, <1>2, <1>3, <1>4, <1>5 DEF Types, Ending, Idle, CleanOver, Reap, Unmoved
<1>7. RawType'
  BY <1>1, <1>2, <1>3 DEF RawType
<1>8. ObsType'
  BY <1>1, <1>2, <1>3 DEF ObsType
<1>9. TaskInv'
  BY <1>1, <1>2, <1>3, <1>4 DEF TaskInv, Setup, Ending, Idle, Reading, Terminals
<1>10. StreamInv'
  BY <1>1, <1>2, <1>3, <1>4 DEF StreamInv, TaskInv, Setup, Ending, Idle, Reading, Terminals
<1>11. SessionInv'
  BY <1>1, <1>2, <1>3 DEF SessionInv, Cancelling
<1>12. RecordInv'
  BY <1>1, <1>2, <1>3 DEF RecordInv
<1>13. DecisionInv'
  BY <1>1, <1>2, <1>3 DEF DecisionInv
<1>14. DoneInv'
  BY <1>1, <1>2, <1>3, <1>4
  DEF DoneInv, TaskInv, SessionInv, Down, Cancelling, Setup, Ending, Idle, Reading,
      Terminals
<1>15. AnswerInv'
  BY <1>1, <1>2, <1>3, <1>4 DEF AnswerInv, TaskInv, Setup, Ending, Idle, Reading, Terminals
<1> QED
  BY <1>6, <1>7, <1>8, <1>9, <1>10, <1>11, <1>12, <1>13, <1>14, <1>15 DEF IndInv

(* The finally block hands over, takes down, or ends.                      *)
LEMMA ReapOverKeeps ==
    ASSUME IndInv, ReapOver, ~Undisturbed
    PROVE  IndInv'
<1>1. Types /\ RawType /\ ObsType /\ TaskInv /\ StreamInv /\ SessionInv /\ RecordInv
      /\ DecisionInv /\ DoneInv /\ AnswerInv
  BY DEF IndInv
<1>2. UNCHANGED <<kind, client, outer, d, other, ctl, lease, job, n, raw, stateful, obs,
                  reg, lost>>
  BY DEF ReapOver, Race, Anthropic, Sse, tasks, session
<1>3. Sse' = Sse /\ Responses' = Responses /\ Race' = Race
      /\ (Race = "plain" => ~Sse) /\ (Race = "setup" => Sse)
  BY <1>2 DEF Sse, Responses, Race, Anthropic
<1>4. h.at = "reap" /\ w.at = "done" /\ h'.handed = h.handed /\ h'.cleaned = h.cleaned
      /\ h'.out = h.out /\ w'.result = w.result /\ w'.sig = w.sig /\ w'.term = w.term
         /\ w'.got = w.got /\ w'.err = w.err
  BY <1>1, ZenonT(30) DEF ReapOver, Race, Anthropic, Sse, Types, WorkerType, HandlerType
<1>5. (h'.at = "reclean" /\ ~h.handed /\ ~h.cleaned /\ Sse /\ w.result = "value"
      /\ w'.at = "cancel" /\ w'.shield)
      \/ (h'.at = "over" /\ Sse /\ h.handed /\ w'.at = "unstarted" /\ w'.shield = w.shield)
      \/ (h'.at = "over" /\ w'.at = w.at /\ w'.shield = w.shield
             /\ (Sse /\ w.result = "value" => h.cleaned))
  BY <1>1 DEF ReapOver, Race, Anthropic, Sse, Types, WorkerType, HandlerType
<1>6. w' \in WorkerType
  BY <1>1, <1>2, <1>3, <1>4, <1>5
  DEF Types, WorkerType, WorkerAt, Results, Reading, Setup, Ending, Idle, ReapOver, Race,
      Anthropic, Sse
<1>7. h' \in HandlerType
  BY <1>1, <1>2, <1>3, <1>4, <1>5
  DEF Types, HandlerType, HandlerAt, Results, WorkerType, ReapOver, Race, Anthropic, Sse
<1>8. Types'
  BY <1>1, <1>2, <1>3, <1>4, <1>5, <1>6, <1>7 DEF Types, Ending, Idle
<1>9. RawType'
  BY <1>1, <1>2, <1>3 DEF RawType
<1>10. ObsType'
  BY <1>1, <1>2, <1>3 DEF ObsType
<1>11. TaskInv'
  BY <1>1, <1>2, <1>3, <1>4, <1>5 DEF TaskInv, Setup, Ending, Idle, Reading, Terminals
<1>12. StreamInv'
  BY <1>1, <1>2, <1>3, <1>4, <1>5
  DEF StreamInv, TaskInv, Setup, Ending, Idle, Reading, Terminals
<1>13. SessionInv'
  BY <1>1, <1>2, <1>3, <1>4, <1>5
  DEF SessionInv, TaskInv, StreamInv, Cancelling, Setup, Ending, Idle, Reading, Terminals
<1>14. RecordInv'
  BY <1>1, <1>2, <1>3, <1>4, <1>5
  DEF RecordInv, SessionInv, ObsType, Cancelling, Setup, Ending, Idle, Reading, Terminals
<1>15. DecisionInv'
  BY <1>1, <1>2, <1>3, <1>4, <1>5
  DEF DecisionInv, RawType, SessionInv, StreamInv, Dispositions, NoDecision, Cancelling,
      Setup, Ending, Idle, Reading, Terminals
<1>16. DoneInv'
  BY <1>1, <1>2, <1>3, <1>4, <1>5
  DEF DoneInv, TaskInv, SessionInv, Down, Cancelling, Setup, Ending, Idle, Reading,
      Terminals
<1>17. AnswerInv'
  BY <1>1, <1>2, <1>3, <1>4, <1>5
  DEF AnswerInv, TaskInv, Setup, Ending, Idle, Reading, Terminals
<1> QED
  BY <1>8, <1>9, <1>10, <1>11, <1>12, <1>13, <1>14, <1>15, <1>16, <1>17 DEF IndInv

(* The orphan of the race was taken down.                                  *)
LEMMA RecleanOverKeeps ==
    ASSUME IndInv, RecleanOver, ~Undisturbed
    PROVE  IndInv'
<1>1. Types /\ RawType /\ ObsType /\ TaskInv /\ StreamInv /\ SessionInv /\ RecordInv
      /\ DecisionInv /\ DoneInv /\ AnswerInv
  BY DEF IndInv
<1>2. UNCHANGED <<kind, client, outer, d, w, other, ctl, lease, job, n, raw, stateful, obs,
                  reg, lost>>
  BY DEF RecleanOver, tasks, session
<1>3. Sse' = Sse /\ Responses' = Responses /\ Race' = Race
      /\ (Race = "plain" => ~Sse) /\ (Race = "setup" => Sse)
  BY <1>2 DEF Sse, Responses, Race, Anthropic
<1>4. h.at = "reclean" /\ w.at = "done" /\ h'.at = "over" /\ h'.handed = h.handed
      /\ h'.cleaned = h.cleaned
  BY <1>1 DEF RecleanOver, Types, WorkerType, HandlerType
<1>5. h' \in HandlerType
  BY <1>1, <1>2, <1>3, <1>4 DEF Types, HandlerType, HandlerAt, Results, WorkerType,
      RecleanOver
<1>6. Types'
  BY <1>1, <1>2, <1>3, <1>4, <1>5 DEF Types, Ending, Idle
<1>7. RawType'
  BY <1>1, <1>2, <1>3 DEF RawType
<1>8. ObsType'
  BY <1>1, <1>2, <1>3 DEF ObsType
<1>9. TaskInv'
  BY <1>1, <1>2, <1>3, <1>4 DEF TaskInv, Setup, Ending, Idle, Reading, Terminals
<1>10. StreamInv'
  BY <1>1, <1>2, <1>3, <1>4 DEF StreamInv, TaskInv, Setup, Ending, Idle, Reading, Terminals
<1>11. SessionInv'
  BY <1>1, <1>2, <1>3 DEF SessionInv, Cancelling
<1>12. RecordInv'
  BY <1>1, <1>2, <1>3 DEF RecordInv
<1>13. DecisionInv'
  BY <1>1, <1>2, <1>3 DEF DecisionInv
<1>14. DoneInv'
  BY <1>1, <1>2, <1>3, <1>4
  DEF DoneInv, TaskInv, SessionInv, Down, Cancelling, Setup, Ending, Idle, Reading,
      Terminals
<1>15. AnswerInv'
  BY <1>1, <1>2, <1>3, <1>4 DEF AnswerInv, TaskInv, Setup, Ending, Idle, Reading, Terminals
<1> QED
  BY <1>6, <1>7, <1>8, <1>9, <1>10, <1>11, <1>12, <1>13, <1>14, <1>15 DEF IndInv

(* The application cancels the handler, wherever it is.                    *)
LEMMA OuterCancelKeeps ==
    ASSUME IndInv, OuterCancel, ~Undisturbed
    PROVE  IndInv'
<1>1. Types /\ RawType /\ ObsType /\ TaskInv /\ StreamInv /\ SessionInv /\ RecordInv
      /\ DecisionInv /\ DoneInv /\ AnswerInv
  BY DEF IndInv
<1>2. UNCHANGED <<kind, client, other, ctl, lease, job, n, raw, stateful, obs, reg>>
  BY DEF OuterCancel, tasks, session
<1>3. Sse' = Sse /\ Responses' = Responses /\ Race' = Race
      /\ (Race = "plain" => ~Sse) /\ (Race = "setup" => Sse)
  BY <1>2 DEF Sse, Responses, Race, Anthropic
<1>4. outer' = "yes" /\ lost \subseteq lost'
  BY <1>1 DEF OuterCancel, Types, WorkerType, HandlerType
<1>5. /\ h' \in HandlerType /\ w' \in WorkerType /\ d' \in {d, "cancelled"}
      /\ w'.at = w.at /\ w'.result = w.result /\ w'.shield = w.shield
         /\ w'.term = w.term /\ w'.got = w.got /\ w'.err = w.err
      /\ \/ h.at \in {"yield", "wait"} /\ h'.at = "reap" /\ ~h'.handed /\ ~h'.cleaned
            /\ lost' = lost /\ (w.at = "done" \/ w'.sig)
         \/ h.at = "drop" /\ h' = h /\ lost' = lost /\ (w.at = "done" \/ w'.sig)
         \/ h.at \in {"clean", "reclean"} /\ h' = h /\ w' = w /\ lost' = lost
         \/ h.at = "reap" /\ h'.at = "aborted" /\ h'.handed = h.handed
            /\ h'.cleaned = h.cleaned
            /\ (w.at = "done" \/ w'.sig)
            /\ (lost' # {} \/ ~(Sse /\ w.at = "done" /\ w.result = "value" /\ ~h.cleaned))
  <2>1. w \in WorkerType /\ h \in HandlerType /\ "cancelled" \in Results
  BY <1>1 DEF Types, Results
  <2>2. CASE /\ h.at \in {"yield", "wait"}
             /\ SignalWorker /\ Reap("cancelled", FALSE, FALSE) /\ lost' = lost
  BY <2>1, <2>2, ReapIs, SignalIs
  <2>3. CASE h.at = "drop" /\ SignalWorker /\ h' = h /\ d' = d /\ lost' = lost
  BY <2>1, <2>3, SignalIs
  <2>4. CASE h.at \in {"clean", "reclean"} /\ h' = h /\ d' = d /\ w' = w /\ lost' = lost
  BY <2>1, <2>4
  <2>5. CASE /\ h.at = "reap" /\ SignalWorker /\ d' = d
             /\ h' = [h EXCEPT !.at = "aborted", !.out = "cancelled"]
             /\ lost' = IF Sse /\ w.at = "done" /\ w.result = "value" /\ ~h.cleaned
                        THEN lost \cup {"reap"} ELSE lost
    <3>1. h' \in HandlerType /\ h'.at = "aborted" /\ h'.handed = h.handed
          /\ h'.cleaned = h.cleaned
      BY <2>1, <2>5 DEF HandlerType, HandlerAt
    <3> QED
      BY <2>1, <2>5, <3>1, SignalIs
  <2> QED
  BY <2>2, <2>3, <2>4, <2>5 DEF OuterCancel
<1>6. Types'
  BY <1>1, <1>2, <1>3, <1>4, <1>5 DEF Types, Ending, Idle, OuterCancel
<1>7. RawType'
  BY <1>1, <1>2, <1>3 DEF RawType
<1>8. ObsType'
  BY <1>1, <1>2, <1>3 DEF ObsType
<1>9. TaskInv'
  BY <1>1, <1>2, <1>3, <1>4, <1>5 DEF TaskInv, Setup, Ending, Idle, Reading, Terminals
<1>10. StreamInv'
  BY <1>1, <1>2, <1>3, <1>4, <1>5
  DEF StreamInv, TaskInv, Setup, Ending, Idle, Reading, Terminals
<1>11. SessionInv'
  BY <1>1, <1>2, <1>3, <1>4, <1>5
  DEF SessionInv, TaskInv, Cancelling, Setup, Ending, Idle, Reading, Terminals
<1>12. RecordInv'
  BY <1>1, <1>2, <1>3, <1>4, <1>5
  DEF RecordInv, SessionInv, ObsType, Cancelling, Setup, Ending, Idle, Reading, Terminals
<1>13. DecisionInv'
  BY <1>1, <1>2, <1>3, <1>4, <1>5
  DEF DecisionInv, RawType, SessionInv, Dispositions, NoDecision, Cancelling, Setup, Ending,
      Idle, Reading, Terminals
<1>14. DoneInv'
  BY <1>1, <1>2, <1>3, <1>4, <1>5
  DEF DoneInv, TaskInv, SessionInv, Down, Cancelling, Setup, Ending, Idle, Reading,
      Terminals
<1>15. AnswerInv'
  BY <1>1, <1>2, <1>3, <1>4, <1>5
  DEF AnswerInv, TaskInv, Setup, Ending, Idle, Reading, Terminals
<1> QED
  BY <1>6, <1>7, <1>8, <1>9, <1>10, <1>11, <1>12, <1>13, <1>14, <1>15 DEF IndInv

(* A cancelled handler ends.                                               *)
LEMMA AbortedOverKeeps ==
    ASSUME IndInv, AbortedOver, ~Undisturbed
    PROVE  IndInv'
<1>1. Types /\ RawType /\ ObsType /\ TaskInv /\ StreamInv /\ SessionInv /\ RecordInv
      /\ DecisionInv /\ DoneInv /\ AnswerInv
  BY DEF IndInv
<1>2. UNCHANGED <<kind, client, outer, d, w, other, ctl, lease, job, n, raw, stateful, obs,
                  reg, lost>>
  BY DEF AbortedOver, tasks, session
<1>3. Sse' = Sse /\ Responses' = Responses /\ Race' = Race
      /\ (Race = "plain" => ~Sse) /\ (Race = "setup" => Sse)
  BY <1>2 DEF Sse, Responses, Race, Anthropic
<1>4. h.at = "aborted" /\ w.at = "done" /\ h'.at = "over" /\ h'.handed = h.handed
      /\ h'.cleaned = h.cleaned
  BY <1>1 DEF AbortedOver, Types, WorkerType, HandlerType
<1>5. h' \in HandlerType
  BY <1>1, <1>2, <1>3, <1>4 DEF Types, HandlerType, HandlerAt, Results, WorkerType,
      AbortedOver
<1>6. Types'
  BY <1>1, <1>2, <1>3, <1>4, <1>5 DEF Types, Ending, Idle
<1>7. RawType'
  BY <1>1, <1>2, <1>3 DEF RawType
<1>8. ObsType'
  BY <1>1, <1>2, <1>3 DEF ObsType
<1>9. TaskInv'
  BY <1>1, <1>2, <1>3, <1>4 DEF TaskInv, Setup, Ending, Idle, Reading, Terminals
<1>10. StreamInv'
  BY <1>1, <1>2, <1>3, <1>4 DEF StreamInv, TaskInv, Setup, Ending, Idle, Reading, Terminals
<1>11. SessionInv'
  BY <1>1, <1>2, <1>3 DEF SessionInv, Cancelling
<1>12. RecordInv'
  BY <1>1, <1>2, <1>3 DEF RecordInv
<1>13. DecisionInv'
  BY <1>1, <1>2, <1>3 DEF DecisionInv
<1>14. DoneInv'
  BY <1>1, <1>2, <1>3, <1>4
  DEF DoneInv, TaskInv, SessionInv, Down, Cancelling, Setup, Ending, Idle, Reading,
      Terminals
<1>15. AnswerInv'
  BY <1>1, <1>2, <1>3, <1>4 DEF AnswerInv, TaskInv, Setup, Ending, Idle, Reading, Terminals
<1> QED
  BY <1>6, <1>7, <1>8, <1>9, <1>10, <1>11, <1>12, <1>13, <1>14, <1>15 DEF IndInv

(* The worker starts.                                                      *)
LEMMA StartKeeps ==
    ASSUME IndInv, Start, ~Undisturbed
    PROVE  IndInv'
<1>1. Types /\ RawType /\ ObsType /\ TaskInv /\ StreamInv /\ SessionInv /\ RecordInv
      /\ DecisionInv /\ DoneInv /\ AnswerInv
  BY DEF IndInv
<1>2. UNCHANGED <<kind, client, h, outer, d, other, ctl, lease, job, n, raw, stateful, obs,
                  reg, lost>>
  BY DEF Start, Running, Go, tasks, session
<1>3. Sse' = Sse /\ Responses' = Responses /\ Race' = Race
      /\ (Race = "plain" => ~Sse) /\ (Race = "setup" => Sse)
  BY <1>2 DEF Sse, Responses, Race, Anthropic
<1>4. w.at = "start" /\ w'.at \in {"pin", "acquire"} /\ w'.result = w.result
      /\ w'.sig = w.sig /\ w'.shield = w.shield /\ w'.term = w.term /\ w'.got = w.got
         /\ w'.err = w.err
  BY <1>1 DEF Start, Running, Go, Types, WorkerType, HandlerType
<1>5. w' \in WorkerType
  BY <1>1, <1>2, <1>3, <1>4
  DEF Types, WorkerType, WorkerAt, Results, Reading, Setup, Ending, Idle, Start, Running, Go
<1>6. Types'
  BY <1>1, <1>2, <1>3, <1>4, <1>5 DEF Types, Ending, Idle
<1>7. RawType'
  BY <1>1, <1>2, <1>3 DEF RawType
<1>8. ObsType'
  BY <1>1, <1>2, <1>3 DEF ObsType
<1>9. TaskInv'
  BY <1>1, <1>2, <1>3, <1>4 DEF TaskInv, Setup, Ending, Idle, Reading, Terminals
<1>10. StreamInv'
  BY <1>1, <1>2, <1>3, <1>4 DEF StreamInv, TaskInv, Setup, Ending, Idle, Reading, Terminals
<1>11. SessionInv'
  BY <1>1, <1>2, <1>3, <1>4
  DEF SessionInv, TaskInv, Cancelling, Setup, Ending, Idle, Reading, Terminals
<1>12. RecordInv'
  BY <1>1, <1>2, <1>3, <1>4
  DEF RecordInv, SessionInv, ObsType, Cancelling, Setup, Ending, Idle, Reading, Terminals
<1>13. DecisionInv'
  BY <1>1, <1>2, <1>3, <1>4
  DEF DecisionInv, RawType, SessionInv, Dispositions, NoDecision, Cancelling, Setup, Ending,
      Idle, Reading, Terminals
<1>14. DoneInv'
  BY <1>1, <1>2, <1>3, <1>4
  DEF DoneInv, TaskInv, SessionInv, Down, Cancelling, Setup, Ending, Idle, Reading,
      Terminals
<1>15. AnswerInv'
  BY <1>1, <1>2, <1>3, <1>4 DEF AnswerInv, TaskInv, Setup, Ending, Idle, Reading, Terminals
<1> QED
  BY <1>6, <1>7, <1>8, <1>9, <1>10, <1>11, <1>12, <1>13, <1>14, <1>15 DEF IndInv

(* The ancestors are pinned, or refused.                                   *)
LEMMA PinKeeps ==
    ASSUME IndInv, Pin, ~Undisturbed
    PROVE  IndInv'
<1>1. Types /\ RawType /\ ObsType /\ TaskInv /\ StreamInv /\ SessionInv /\ RecordInv
      /\ DecisionInv /\ DoneInv /\ AnswerInv
  BY DEF IndInv
<1>2. UNCHANGED <<kind, client, h, outer, d, other, ctl, lease, job, n, raw, stateful, obs,
                  lost>>
  BY DEF Pin, Running, Go, Ends, tasks, session
<1>3. Sse' = Sse /\ Responses' = Responses /\ Race' = Race
      /\ (Race = "plain" => ~Sse) /\ (Race = "setup" => Sse)
  BY <1>2 DEF Sse, Responses, Race, Anthropic
<1>4. w.at = "pin" /\ ~w.sig /\ ~w'.sig /\ w'.term = w.term /\ w'.err = w.err
  BY <1>1 DEF Pin, Running, Go, Ends, Types, WorkerType, HandlerType
<1>5. w'.got \in {w.got, "none"} /\ w'.shield \in {w.shield, FALSE}
  BY <1>1 DEF Pin, Running, Go, Ends, Types, WorkerType, HandlerType
<1>6. (w'.at = "acquire" /\ w'.result = w.result /\ reg' = "pinned")
      \/ (w'.at = "done" /\ w'.result = "error" /\ reg' = reg)
  BY <1>1 DEF Pin, Running, Go, Ends, Types, WorkerType, HandlerType
<1>7. w' \in WorkerType
  BY <1>1, <1>2, <1>3, <1>4, <1>5, <1>6
  DEF Types, WorkerType, WorkerAt, Results, Reading, Setup, Ending, Idle, Pin, Running, Go,
      Ends
<1>8. Types'
  BY <1>1, <1>2, <1>3, <1>4, <1>5, <1>6, <1>7 DEF Types, Ending, Idle, Pin, Running, Go,
      Ends
<1>9. RawType'
  BY <1>1, <1>2, <1>3 DEF RawType
<1>10. ObsType'
  BY <1>1, <1>2, <1>3 DEF ObsType
<1>11. TaskInv'
  BY <1>1, <1>2, <1>3, <1>4, <1>5, <1>6 DEF TaskInv, Setup, Ending, Idle, Reading, Terminals
<1>12. StreamInv'
  BY <1>1, <1>2, <1>3, <1>4, <1>5, <1>6
  DEF StreamInv, TaskInv, Setup, Ending, Idle, Reading, Terminals
<1>13. SessionInv'
  BY <1>1, <1>2, <1>3, <1>4, <1>5, <1>6
  DEF SessionInv, TaskInv, Cancelling, Setup, Ending, Idle, Reading, Terminals
<1>14. RecordInv'
  BY <1>1, <1>2, <1>3, <1>4, <1>5, <1>6
  DEF RecordInv, SessionInv, ObsType, Cancelling, Setup, Ending, Idle, Reading, Terminals
<1>15. DecisionInv'
  BY <1>1, <1>2, <1>3, <1>4, <1>5, <1>6
  DEF DecisionInv, RawType, SessionInv, Dispositions, NoDecision, Cancelling, Setup, Ending,
      Idle, Reading, Terminals
<1>16. DoneInv'
  BY <1>1, <1>2, <1>3, <1>4, <1>5, <1>6
  DEF DoneInv, TaskInv, SessionInv, Down, Cancelling, Setup, Ending, Idle, Reading,
      Terminals
<1>17. AnswerInv'
  BY <1>1, <1>2, <1>3, <1>4, <1>5, <1>6
  DEF AnswerInv, TaskInv, Setup, Ending, Idle, Reading, Terminals
<1> QED
  BY <1>8, <1>9, <1>10, <1>11, <1>12, <1>13, <1>14, <1>15, <1>16, <1>17 DEF IndInv

(* A lease, or a rejection with or without one.                            *)
LEMMA AcquireKeeps ==
    ASSUME IndInv, Acquire, ~Undisturbed
    PROVE  IndInv'
<1>1. Types /\ RawType /\ ObsType /\ TaskInv /\ StreamInv /\ SessionInv /\ RecordInv
      /\ DecisionInv /\ DoneInv /\ AnswerInv
  BY DEF IndInv
<1>2. UNCHANGED <<kind, client, h, outer, d, other, ctl, job, n, raw, stateful, reg>>
  BY DEF Acquire, Running, Go, Reject, tasks, session
<1>3. Sse' = Sse /\ Responses' = Responses /\ Race' = Race
      /\ (Race = "plain" => ~Sse) /\ (Race = "setup" => Sse)
  BY <1>2 DEF Sse, Responses, Race, Anthropic
<1>4. w.at = "acquire" /\ ~w.sig /\ lost \subseteq lost'
  BY <1>1 DEF Acquire, Running, Go, Reject, Types, WorkerType, HandlerType
<1>5. \/ w' = [w EXCEPT !.at = "render"] /\ obs' = obs /\ lost' = lost
      \/ /\ obs' \in ObsRecord /\ obs'.writing = obs.writing /\ obs'.records = obs.records
         /\ obs'.status = "rejected" /\ obs'.active = obs.active
         /\ w' = [w EXCEPT !.at = "rejected"]
         /\ lease' = lease \/ lost' # {}
  BY <1>1, RejectIs DEF Acquire, Running, Go
<1>6. /\ w' \in WorkerType /\ obs' \in ObsRecord /\ w'.result = w.result
         /\ w'.sig = w.sig /\ w'.shield = w.shield /\ w'.term = w.term /\ w'.got = w.got
            /\ w'.err = w.err
      /\ obs'.writing = obs.writing /\ obs'.records = obs.records
         /\ obs'.active = obs.active
      /\ \/ w'.at = "render" /\ obs' = obs /\ lost' = lost
         \/ w'.at = "rejected" /\ obs'.status = "rejected" /\ (lease' = lease \/ lost' # {})
  BY <1>1, <1>5 DEF Types, ObsType, WorkerType, WorkerAt, Setup
<1>7. Types'
  BY <1>1, <1>2, <1>3, <1>4, <1>5, <1>6 DEF Types, Ending, Idle, Acquire, Running, Go,
      Reject
<1>8. RawType'
  BY <1>1, <1>2, <1>3 DEF RawType
<1>9. ObsType'
  BY <1>1, <1>2, <1>3, <1>4, <1>5, <1>6 DEF ObsType, Setup, Ending, Idle, Reading, Terminals
<1>10. TaskInv'
  BY <1>1, <1>2, <1>3, <1>4, <1>5, <1>6 DEF TaskInv, Setup, Ending, Idle, Reading, Terminals
<1>11. StreamInv'
  BY <1>1, <1>2, <1>3, <1>4, <1>5, <1>6
  DEF StreamInv, TaskInv, Setup, Ending, Idle, Reading, Terminals
<1>12. SessionInv'
  BY <1>1, <1>2, <1>3, <1>4, <1>5, <1>6
  DEF SessionInv, TaskInv, Cancelling, Setup, Ending, Idle, Reading, Terminals
<1>13. RecordInv'
  BY <1>1, <1>2, <1>3, <1>4, <1>5, <1>6
  DEF RecordInv, SessionInv, ObsType, Cancelling, Setup, Ending, Idle, Reading, Terminals
<1>14. DecisionInv'
  BY <1>1, <1>2, <1>3, <1>4, <1>5, <1>6
  DEF DecisionInv, RawType, SessionInv, Dispositions, NoDecision, Cancelling, Setup, Ending,
      Idle, Reading, Terminals
<1>15. DoneInv'
  BY <1>1, <1>2, <1>3, <1>4, <1>5, <1>6
  DEF DoneInv, TaskInv, SessionInv, Down, Cancelling, Setup, Ending, Idle, Reading,
      Terminals
<1>16. AnswerInv'
  BY <1>1, <1>2, <1>3, <1>4, <1>5, <1>6
  DEF AnswerInv, TaskInv, Setup, Ending, Idle, Reading, Terminals
<1> QED
  BY <1>7, <1>8, <1>9, <1>10, <1>11, <1>12, <1>13, <1>14, <1>15, <1>16 DEF IndInv

(* The prompt, or a rejection.                                             *)
LEMMA RenderKeeps ==
    ASSUME IndInv, Render, ~Undisturbed
    PROVE  IndInv'
<1>1. Types /\ RawType /\ ObsType /\ TaskInv /\ StreamInv /\ SessionInv /\ RecordInv
      /\ DecisionInv /\ DoneInv /\ AnswerInv
  BY DEF IndInv
<1>2. UNCHANGED <<kind, client, h, outer, d, other, ctl, job, n, raw, stateful, reg, lost>>
  BY DEF Render, Running, Go, Reject, tasks, session
<1>3. Sse' = Sse /\ Responses' = Responses /\ Race' = Race
      /\ (Race = "plain" => ~Sse) /\ (Race = "setup" => Sse)
  BY <1>2 DEF Sse, Responses, Race, Anthropic
<1>4. w.at = "render" /\ ~w.sig
  BY <1>1 DEF Render, Running, Go, Reject, Types, WorkerType, HandlerType
<1>5. \/ w' = [w EXCEPT !.at = "submit"] /\ obs' = obs
      \/ /\ obs' \in ObsRecord /\ obs'.writing = obs.writing /\ obs'.records = obs.records
         /\ obs'.status = "rejected" /\ obs'.active = obs.active
         /\ w' = [w EXCEPT !.at = "rejected"]
         /\ lease' = "free"
  BY <1>1, RejectIs DEF Render, Running, Go
<1>6. /\ w' \in WorkerType /\ obs' \in ObsRecord /\ w'.result = w.result
         /\ w'.sig = w.sig /\ w'.shield = w.shield /\ w'.term = w.term /\ w'.got = w.got
            /\ w'.err = w.err
      /\ obs'.writing = obs.writing /\ obs'.records = obs.records
         /\ obs'.active = obs.active
      /\ \/ w'.at = "submit" /\ obs' = obs
         \/ w'.at = "rejected" /\ obs'.status = "rejected" /\ lease' = "free"
  BY <1>1, <1>5 DEF Types, ObsType, WorkerType, WorkerAt, Setup
<1>7. Types'
  BY <1>1, <1>2, <1>3, <1>4, <1>5, <1>6 DEF Types, Ending, Idle, Render, Running, Go, Reject
<1>8. RawType'
  BY <1>1, <1>2, <1>3 DEF RawType
<1>9. ObsType'
  BY <1>1, <1>2, <1>3, <1>4, <1>5, <1>6 DEF ObsType, Setup, Ending, Idle, Reading, Terminals
<1>10. TaskInv'
  BY <1>1, <1>2, <1>3, <1>4, <1>5, <1>6 DEF TaskInv, Setup, Ending, Idle, Reading, Terminals
<1>11. StreamInv'
  BY <1>1, <1>2, <1>3, <1>4, <1>5, <1>6
  DEF StreamInv, TaskInv, Setup, Ending, Idle, Reading, Terminals
<1>12. SessionInv'
  BY <1>1, <1>2, <1>3, <1>4, <1>5, <1>6
  DEF SessionInv, TaskInv, Cancelling, Setup, Ending, Idle, Reading, Terminals
<1>13. RecordInv'
  BY <1>1, <1>2, <1>3, <1>4, <1>5, <1>6
  DEF RecordInv, SessionInv, ObsType, Cancelling, Setup, Ending, Idle, Reading, Terminals
<1>14. DecisionInv'
  BY <1>1, <1>2, <1>3, <1>4, <1>5, <1>6
  DEF DecisionInv, RawType, SessionInv, Dispositions, NoDecision, Cancelling, Setup, Ending,
      Idle, Reading, Terminals
<1>15. DoneInv'
  BY <1>1, <1>2, <1>3, <1>4, <1>5, <1>6
  DEF DoneInv, TaskInv, SessionInv, Down, Cancelling, Setup, Ending, Idle, Reading,
      Terminals
<1>16. AnswerInv'
  BY <1>1, <1>2, <1>3, <1>4, <1>5, <1>6
  DEF AnswerInv, TaskInv, Setup, Ending, Idle, Reading, Terminals
<1> QED
  BY <1>7, <1>8, <1>9, <1>10, <1>11, <1>12, <1>13, <1>14, <1>15, <1>16 DEF IndInv

(* A session, or a rejection.                                              *)
LEMMA SubmitKeeps ==
    ASSUME IndInv, Submit, ~Undisturbed
    PROVE  IndInv'
<1>1. Types /\ RawType /\ ObsType /\ TaskInv /\ StreamInv /\ SessionInv /\ RecordInv
      /\ DecisionInv /\ DoneInv /\ AnswerInv
  BY DEF IndInv
<1>2. UNCHANGED <<kind, client, h, outer, d, other, ctl, n, raw, stateful, reg, lost>>
  BY DEF Submit, Running, Go, Reject, tasks, session
<1>3. Sse' = Sse /\ Responses' = Responses /\ Race' = Race
      /\ (Race = "plain" => ~Sse) /\ (Race = "setup" => Sse)
  BY <1>2 DEF Sse, Responses, Race, Anthropic
<1>4. w.at = "submit" /\ ~w.sig
  BY <1>1 DEF Submit, Running, Go, Reject, Types, WorkerType, HandlerType
<1>5. /\ obs' \in ObsRecord /\ obs'.writing = obs.writing /\ obs'.records = obs.records
      /\ \/ /\ job' = "running" /\ obs'.status = obs.status /\ obs'.active = obs.active + 1
            /\ \/ w' = [w EXCEPT !.at = "register"]
               \/ ~Sse /\ w' = [w EXCEPT !.at = "read"]
               \/ Sse /\ w' = Ends("value")
         \/ /\ job' = job /\ lease' = "free"
            /\ obs'.status = "rejected" /\ obs'.active = obs.active
            /\ w' = [w EXCEPT !.at = "rejected"]
  <2>1. CASE Reject /\ lease' = "free" /\ job' = job
  BY <1>1, <2>1, RejectIs
  <2>2. CASE /\ job' = "running"
             /\ obs' = [obs EXCEPT !.active = obs.active + 1]
             /\ w' = IF Responses THEN [w EXCEPT !.at = "register"]
                     ELSE IF Sse THEN Ends("value") ELSE [w EXCEPT !.at = "read"]
    <3>1. obs.active + 1 \in Int
      BY <1>1 DEF ObsType, ObsRecord
    <3>2. obs' \in ObsRecord /\ obs'.writing = obs.writing /\ obs'.records = obs.records
          /\ obs'.status = obs.status /\ obs'.active = obs.active + 1
      BY <1>1, <2>2, <3>1 DEF ObsType, ObsRecord
    <3> QED
      BY <2>2, <3>2
  <2> QED
  BY <2>1, <2>2 DEF Submit
<1>6. /\ w' \in WorkerType /\ ~w'.sig /\ w'.term = w.term
      /\ w'.got \in {w.got, "none"} /\ w'.shield \in {w.shield, FALSE}
      /\ \/ w'.at = "register" /\ w'.result = w.result /\ job' = "running"
         \/ w'.at = "read" /\ ~Sse /\ w'.result = w.result /\ job' = "running"
         \/ w'.at = "done" /\ w'.result = "value" /\ Sse /\ job' = "running"
         \/ w'.at = "rejected" /\ w'.result = w.result /\ job' = job /\ lease' = "free"
  <2>1. w \in WorkerType /\ "value" \in Results
  BY <1>1 DEF Types, Results
  <2>2. CASE w' = Ends("value")
    <3>1. Ended({"value"})
      BY <2>1, <2>2, EndsIs
    <3> QED
      BY <1>5, <2>1, <3>1 DEF Ended, WorkerType
  <2>3. CASE w' # Ends("value")
  BY <1>4, <1>5, <2>1, <2>3 DEF WorkerType, WorkerAt, Setup, Reading
  <2> QED
  BY <2>2, <2>3
<1>7. Types'
  BY <1>1, <1>2, <1>3, <1>4, <1>5, <1>6 DEF Types, Ending, Idle, Submit, Running, Go, Reject
<1>8. RawType'
  BY <1>1, <1>2, <1>3 DEF RawType
<1>9. ObsType'
  BY <1>1, <1>2, <1>3, <1>4, <1>5, <1>6 DEF ObsType, Setup, Ending, Idle, Reading, Terminals
<1>10. TaskInv'
  BY <1>1, <1>2, <1>3, <1>4, <1>5, <1>6 DEF TaskInv, Setup, Ending, Idle, Reading, Terminals
<1>11. StreamInv'
  BY <1>1, <1>2, <1>3, <1>4, <1>5, <1>6
  DEF StreamInv, TaskInv, RecordInv, SessionInv, Cancelling, Setup, Ending, Idle, Reading,
      Terminals
<1>12. SessionInv'
  BY <1>1, <1>2, <1>3, <1>4, <1>5, <1>6
  DEF SessionInv, TaskInv, RecordInv, Cancelling, Setup, Ending, Idle, Reading, Terminals
<1>13. RecordInv'
  BY <1>1, <1>2, <1>3, <1>4, <1>5, <1>6
  DEF RecordInv, SessionInv, ObsType, Cancelling, Setup, Ending, Idle, Reading, Terminals
<1>14. DecisionInv'
  BY <1>1, <1>2, <1>3, <1>4, <1>5, <1>6
  DEF DecisionInv, RawType, SessionInv, Dispositions, NoDecision, Cancelling, Setup, Ending,
      Idle, Reading, Terminals
<1>15. DoneInv'
  BY <1>1, <1>2, <1>3, <1>4, <1>5, <1>6
  DEF DoneInv, TaskInv, SessionInv, Down, Cancelling, Setup, Ending, Idle, Reading,
      Terminals
<1>16. AnswerInv'
  BY <1>1, <1>2, <1>3, <1>4, <1>5, <1>6
  DEF AnswerInv, TaskInv, Setup, Ending, Idle, Reading, Terminals
<1> QED
  BY <1>7, <1>8, <1>9, <1>10, <1>11, <1>12, <1>13, <1>14, <1>15, <1>16 DEF IndInv

(* The response is registered, or its session taken down.                  *)
LEMMA RegisterKeeps ==
    ASSUME IndInv, Register, ~Undisturbed
    PROVE  IndInv'
<1>1. Types /\ RawType /\ ObsType /\ TaskInv /\ StreamInv /\ SessionInv /\ RecordInv
      /\ DecisionInv /\ DoneInv /\ AnswerInv
  BY DEF IndInv
<1>2. UNCHANGED <<kind, client, h, outer, d, other, ctl, lease, job, n, raw, stateful, obs,
                  lost>>
  BY DEF Register, Running, Ends, tasks, session
<1>3. Sse' = Sse /\ Responses' = Responses /\ Race' = Race
      /\ (Race = "plain" => ~Sse) /\ (Race = "setup" => Sse)
  BY <1>2 DEF Sse, Responses, Race, Anthropic
<1>4. w.at = "register" /\ ~w.sig /\ ~w'.sig /\ w'.term = w.term
  BY <1>1, ZenonT(30) DEF Register, Running, Ends, Types, WorkerType, HandlerType
<1>5. w'.got \in {w.got, "none"} /\ w'.shield \in {w.shield, FALSE}
  BY <1>1 DEF Register, Running, Ends, Types, WorkerType, HandlerType
<1>6. (w'.at = "read" /\ ~Sse /\ w'.result = w.result /\ reg' = "active")
      \/ (w'.at = "done" /\ w'.result = "value" /\ Sse /\ reg' = "active")
      \/ (w'.at = "cancel" /\ w'.result = w.result /\ reg' = reg)
  BY <1>1 DEF Register, Running, Ends, Types, WorkerType, HandlerType
<1>7. w' \in WorkerType
  BY <1>1, <1>2, <1>3, <1>4, <1>5, <1>6, ZenonT(30)
  DEF Types, WorkerType, WorkerAt, Results, Reading, Setup, Ending, Idle, Register, Running,
      Ends
<1>8. Types'
  BY <1>1, <1>2, <1>3, <1>4, <1>5, <1>6, <1>7 DEF Types, Ending, Idle, Register, Running,
      Ends
<1>9. RawType'
  BY <1>1, <1>2, <1>3 DEF RawType
<1>10. ObsType'
  BY <1>1, <1>2, <1>3 DEF ObsType
<1>11. TaskInv'
  BY <1>1, <1>2, <1>3, <1>4, <1>5, <1>6 DEF TaskInv, Setup, Ending, Idle, Reading, Terminals
<1>12. StreamInv'
  BY <1>1, <1>2, <1>3, <1>4, <1>5, <1>6
  DEF StreamInv, TaskInv, RecordInv, Setup, Ending, Idle, Reading, Terminals
<1>13. SessionInv'
  BY <1>1, <1>2, <1>3, <1>4, <1>5, <1>6
  DEF SessionInv, TaskInv, Cancelling, Setup, Ending, Idle, Reading, Terminals
<1>14. RecordInv'
  BY <1>1, <1>2, <1>3, <1>4, <1>5, <1>6
  DEF RecordInv, SessionInv, ObsType, Cancelling, Setup, Ending, Idle, Reading, Terminals
<1>15. DecisionInv'
  BY <1>1, <1>2, <1>3, <1>4, <1>5, <1>6
  DEF DecisionInv, RawType, SessionInv, Dispositions, NoDecision, Cancelling, Setup, Ending,
      Idle, Reading, Terminals
<1>16. DoneInv'
  BY <1>1, <1>2, <1>3, <1>4, <1>5, <1>6
  DEF DoneInv, TaskInv, SessionInv, Down, Cancelling, Setup, Ending, Idle, Reading,
      Terminals
<1>17. AnswerInv'
  BY <1>1, <1>2, <1>3, <1>4, <1>5, <1>6
  DEF AnswerInv, TaskInv, Setup, Ending, Idle, Reading, Terminals
<1> QED
  BY <1>8, <1>9, <1>10, <1>11, <1>12, <1>13, <1>14, <1>15, <1>16, <1>17 DEF IndInv

(* A rejection is recorded.                                                *)
LEMMA RejectedKeeps ==
    ASSUME IndInv, Rejected, ~Undisturbed
    PROVE  IndInv'
<1>1. Types /\ RawType /\ ObsType /\ TaskInv /\ StreamInv /\ SessionInv /\ RecordInv
      /\ DecisionInv /\ DoneInv /\ AnswerInv
  BY DEF IndInv
<1>2. UNCHANGED <<kind, client, h, outer, d, other, ctl, lease, job, n, raw, stateful,
                  lost>>
  BY DEF Rejected, Running, Ends, tasks, session
<1>3. Sse' = Sse /\ Responses' = Responses /\ Race' = Race
      /\ (Race = "plain" => ~Sse) /\ (Race = "setup" => Sse)
  BY <1>2 DEF Sse, Responses, Race, Anthropic
<1>4. w.at = "rejected" /\ w'.result = "error" /\ w'.at = "done" /\ ~w'.sig
      /\ ~w'.shield /\ w'.term = w.term /\ w'.got = "none"
  BY <1>1 DEF Rejected, Running, Ends, Types, WorkerType, HandlerType
<1>5. reg' \in {"none", "gone"}
  BY <1>1 DEF Rejected, Unwind, Abandon, Types
<1>6. Written
  BY <1>1, WrittenIs DEF Rejected, RecordInv, Running
<1>7. w' \in WorkerType
  BY <1>1, <1>2, <1>3, <1>4, <1>5, <1>6
  DEF Written, Types, WorkerType, WorkerAt, Results, Reading, Setup, Ending, Idle, Rejected,
      Running, Ends
<1>8. Types'
  BY <1>1, <1>2, <1>3, <1>4, <1>5, <1>6, <1>7 DEF Types, Ending, Idle, Rejected, Running,
      Ends
<1>9. RawType'
  BY <1>1, <1>2, <1>3 DEF RawType
<1>10. ObsType'
  BY <1>1, <1>2, <1>3, <1>4, <1>5, <1>6
  DEF ObsType, Written, Setup, Ending, Idle, Reading, Terminals
<1>11. TaskInv'
  BY <1>1, <1>2, <1>3, <1>4, <1>5, <1>6
  DEF TaskInv, Written, Setup, Ending, Idle, Reading, Terminals
<1>12. StreamInv'
  BY <1>1, <1>2, <1>3, <1>4, <1>5, <1>6
  DEF StreamInv, TaskInv, Written, Setup, Ending, Idle, Reading, Terminals
<1>13. SessionInv'
  BY <1>1, <1>2, <1>3, <1>4, <1>5, <1>6
  DEF SessionInv, TaskInv, Written, Cancelling, Setup, Ending, Idle, Reading, Terminals
<1>14. RecordInv'
  BY <1>1, <1>2, <1>3, <1>4, <1>5, <1>6
  DEF RecordInv, SessionInv, ObsType, Written, Cancelling, Setup, Ending, Idle, Reading,
      Terminals
<1>15. DecisionInv'
  BY <1>1, <1>2, <1>3, <1>4, <1>5, <1>6
  DEF DecisionInv, RawType, SessionInv, Written, Dispositions, NoDecision, Cancelling,
      Setup, Ending, Idle, Reading, Terminals
<1>16. DoneInv'
  BY <1>1, <1>2, <1>3, <1>4, <1>5, <1>6
  DEF DoneInv, TaskInv, SessionInv, Written, Down, Cancelling, Setup, Ending, Idle, Reading,
      Terminals
<1>17. AnswerInv'
  BY <1>1, <1>2, <1>3, <1>4, <1>5, <1>6
  DEF AnswerInv, TaskInv, Written, Setup, Ending, Idle, Reading, Terminals
<1> QED
  BY <1>8, <1>9, <1>10, <1>11, <1>12, <1>13, <1>14, <1>15, <1>16, <1>17 DEF IndInv

(* An event of the runtime, or its end.                                    *)
LEMMA RuntimeNextKeeps ==
    ASSUME IndInv, NEW e \in RuntimeEnds \cup {"started", "delta"}, RuntimeNext(e),
        ~Undisturbed
    PROVE  IndInv'
<1>1. Types /\ RawType /\ ObsType /\ TaskInv /\ StreamInv /\ SessionInv /\ RecordInv
      /\ DecisionInv /\ DoneInv /\ AnswerInv
  BY DEF IndInv
<1>2. UNCHANGED <<kind, client, h, outer, d, w, other, stateful, obs, reg, lost>>
  BY DEF RuntimeNext, Running, tasks, session
<1>3. Sse' = Sse /\ Responses' = Responses /\ Race' = Race
      /\ (Race = "plain" => ~Sse) /\ (Race = "setup" => Sse)
  BY <1>2 DEF Sse, Responses, Race, Anthropic
<1>4. w.at = "read" /\ raw.pending = <<>> /\ ~raw.terminal
  BY <1>1 DEF RuntimeNext, Running, Types, WorkerType, HandlerType
<1>5. ctl' \in [reason : Reasons, asked : BOOLEAN, over : BOOLEAN] /\ ctl'.asked = ctl.asked
  BY <1>1 DEF RuntimeNext, CtlEnd, Types, Reasons, Lifecycle
<1>6. n' \in 0..MaxDeltas
  BY <1>1, ExchangeAssumption DEF RuntimeNext, Types
<1>7. \/ e \in RuntimeEnds /\ ctl'.over /\ lease' = "free" /\ job' \in {job, "ended"}
         /\ job' # "running"
      \/ e \notin RuntimeEnds /\ ctl' = ctl /\ lease' = lease /\ job' = job
  BY <1>1 DEF RuntimeNext, CtlEnd, Types
<1>8. /\ e \in RuntimeEnds => EndsAs(raw, raw')
      /\ e \notin RuntimeEnds =>
            /\ raw' \in RawRecord /\ ~raw'.terminal /\ raw'.cancelled = raw.cancelled
            /\ raw'.ev = raw.ev /\ raw'.decision = raw.decision
            /\ \A i \in DOMAIN raw'.pending : raw'.pending[i] \notin Terminals
  BY <1>1, ProcessRawIs DEF RuntimeNext, RawType, DecisionInv
<1>9. Types'
  BY <1>1, <1>2, <1>3, <1>4, <1>5, <1>6, <1>7, <1>8
  DEF Types, Ending, Idle, RuntimeNext, Running
<1>10. RawType'
  BY <1>1, <1>2, <1>3, <1>4, <1>5, <1>6, <1>7, <1>8
  DEF RawType, EndsAs, Setup, Ending, Idle, Reading, Terminals
<1>11. ObsType'
  BY <1>1, <1>2, <1>3 DEF ObsType
<1>12. TaskInv'
  BY <1>1, <1>2, <1>3 DEF TaskInv
<1>13. StreamInv'
  BY <1>1, <1>2, <1>3, <1>4, <1>5, <1>6, <1>7, <1>8
  DEF StreamInv, TaskInv, EndsAs, Setup, Ending, Idle, Reading, Terminals
<1>14. SessionInv'
  BY <1>1, <1>2, <1>3, <1>4, <1>5, <1>6, <1>7, <1>8
  DEF SessionInv, TaskInv, EndsAs, Cancelling, Setup, Ending, Idle, Reading, Terminals
<1>15. RecordInv'
  BY <1>1, <1>2, <1>3, <1>4, <1>5, <1>6, <1>7, <1>8
  DEF RecordInv, SessionInv, ObsType, EndsAs, Cancelling, Setup, Ending, Idle, Reading,
      Terminals
<1>16. DecisionInv'
  BY <1>1, <1>2, <1>3, <1>4, <1>5, <1>6, <1>7, <1>8
  DEF DecisionInv, RawType, SessionInv, EndsAs, Dispositions, NoDecision, Cancelling, Setup,
      Ending, Idle, Reading, Terminals
<1>17. DoneInv'
  BY <1>1, <1>2, <1>3, <1>4, <1>5, <1>6, <1>7, <1>8
  DEF DoneInv, TaskInv, SessionInv, EndsAs, Down, Cancelling, Setup, Ending, Idle, Reading,
      Terminals
<1>18. AnswerInv'
  BY <1>1, <1>2, <1>3 DEF AnswerInv
<1> QED
  BY <1>9, <1>10, <1>11, <1>12, <1>13, <1>14, <1>15, <1>16, <1>17, <1>18 DEF IndInv

(* The deadline or the shutdown ends the session.                          *)
LEMMA CtlAbortsKeeps ==
    ASSUME IndInv, NEW r \in {"timeout", "server_shutdown"}, CtlAborts(r), ~Undisturbed
    PROVE  IndInv'
<1>1. Types /\ RawType /\ ObsType /\ TaskInv /\ StreamInv /\ SessionInv /\ RecordInv
      /\ DecisionInv /\ DoneInv /\ AnswerInv
  BY DEF IndInv
<1>2. UNCHANGED <<kind, client, h, outer, d, w, other, n, raw, stateful, obs, reg, lost>>
  BY DEF CtlAborts, tasks, session
<1>3. Sse' = Sse /\ Responses' = Responses /\ Race' = Race
      /\ (Race = "plain" => ~Sse) /\ (Race = "setup" => Sse)
  BY <1>2 DEF Sse, Responses, Race, Anthropic
<1>4. job = "running" /\ job' = "cancelled" /\ lease' = "free"
  BY <1>1 DEF CtlAborts, Types, WorkerType, HandlerType
<1>5. ctl' \in [reason : Reasons, asked : BOOLEAN, over : BOOLEAN] /\ ctl'.asked
      /\ ctl'.over = ctl.over
  BY <1>1 DEF CtlAborts, Types, Reasons, Lifecycle
<1>6. Types'
  BY <1>1, <1>2, <1>3, <1>4, <1>5 DEF Types, Ending, Idle, CtlAborts
<1>7. RawType'
  BY <1>1, <1>2, <1>3 DEF RawType
<1>8. ObsType'
  BY <1>1, <1>2, <1>3 DEF ObsType
<1>9. TaskInv'
  BY <1>1, <1>2, <1>3 DEF TaskInv
<1>10. StreamInv'
  BY <1>1, <1>2, <1>3 DEF StreamInv
<1>11. SessionInv'
  BY <1>1, <1>2, <1>3, <1>4, <1>5
  DEF SessionInv, TaskInv, Cancelling, Setup, Ending, Idle, Reading, Terminals
<1>12. RecordInv'
  BY <1>1, <1>2, <1>3, <1>4, <1>5
  DEF RecordInv, SessionInv, ObsType, Cancelling, Setup, Ending, Idle, Reading, Terminals
<1>13. DecisionInv'
  BY <1>1, <1>2, <1>3 DEF DecisionInv
<1>14. DoneInv'
  BY <1>1, <1>2, <1>3, <1>4, <1>5
  DEF DoneInv, TaskInv, SessionInv, Down, Cancelling, Setup, Ending, Idle, Reading,
      Terminals
<1>15. AnswerInv'
  BY <1>1, <1>2, <1>3 DEF AnswerInv
<1> QED
  BY <1>6, <1>7, <1>8, <1>9, <1>10, <1>11, <1>12, <1>13, <1>14, <1>15 DEF IndInv

(* The record of the reader is written.                                    *)
LEMMA CapturedKeeps ==
    ASSUME IndInv, Captured, ~Undisturbed
    PROVE  IndInv'
<1>1. Types /\ RawType /\ ObsType /\ TaskInv /\ StreamInv /\ SessionInv /\ RecordInv
      /\ DecisionInv /\ DoneInv /\ AnswerInv
  BY DEF IndInv
<1>2. UNCHANGED <<kind, client, h, outer, d, other, ctl, lease, job, n, raw, stateful, reg,
                  lost>>
  BY DEF Captured, Running, tasks, session
<1>3. Sse' = Sse /\ Responses' = Responses /\ Race' = Race
      /\ (Race = "plain" => ~Sse) /\ (Race = "setup" => Sse)
  BY <1>2 DEF Sse, Responses, Race, Anthropic
<1>4. w.at = "capture"
  BY <1>1 DEF Captured, Running, Types, WorkerType, HandlerType
<1>5. /\ w' \in WorkerType /\ w'.at \in {"read", "send"} /\ (w'.at = "send" => Sse)
      /\ w'.got = w.got /\ (w'.term => w.term \/ w.got \in Terminals)
      /\ w'.result = w.result /\ w'.sig = w.sig /\ w'.shield = w.shield
  BY <1>1, DeliverIs DEF Captured, Types, WorkerType
<1>6. Written
  BY <1>1, WrittenIs DEF Captured, RecordInv, Running
<1>7. Types'
  BY <1>1, <1>2, <1>3, <1>4, <1>5, <1>6 DEF Types, Ending, Idle, Captured, Running
<1>8. RawType'
  BY <1>1, <1>2, <1>3 DEF RawType
<1>9. ObsType'
  BY <1>1, <1>2, <1>3, <1>4, <1>5, <1>6
  DEF ObsType, Written, Setup, Ending, Idle, Reading, Terminals
<1>10. TaskInv'
  BY <1>1, <1>2, <1>3, <1>4, <1>5, <1>6
  DEF TaskInv, Written, Setup, Ending, Idle, Reading, Terminals
<1>11. StreamInv'
  BY <1>1, <1>2, <1>3, <1>4, <1>5, <1>6
  DEF StreamInv, TaskInv, Written, Setup, Ending, Idle, Reading, Terminals
<1>12. SessionInv'
  BY <1>1, <1>2, <1>3, <1>4, <1>5, <1>6
  DEF SessionInv, TaskInv, Written, Cancelling, Setup, Ending, Idle, Reading, Terminals
<1>13. RecordInv'
  BY <1>1, <1>2, <1>3, <1>4, <1>5, <1>6
  DEF RecordInv, SessionInv, ObsType, Written, Cancelling, Setup, Ending, Idle, Reading,
      Terminals
<1>14. DecisionInv'
  BY <1>1, <1>2, <1>3, <1>4, <1>5, <1>6
  DEF DecisionInv, RawType, SessionInv, Written, Dispositions, NoDecision, Cancelling,
      Setup, Ending, Idle, Reading, Terminals
<1>15. DoneInv'
  BY <1>1, <1>2, <1>3, <1>4, <1>5, <1>6
  DEF DoneInv, TaskInv, SessionInv, Written, Down, Cancelling, Setup, Ending, Idle, Reading,
      Terminals
<1>16. AnswerInv'
  BY <1>1, <1>2, <1>3, <1>4, <1>5, <1>6
  DEF AnswerInv, TaskInv, Written, Setup, Ending, Idle, Reading, Terminals
<1> QED
  BY <1>7, <1>8, <1>9, <1>10, <1>11, <1>12, <1>13, <1>14, <1>15, <1>16 DEF IndInv

(* A chunk was sent.                                                       *)
LEMMA SentKeeps ==
    ASSUME IndInv, Sent, ~Undisturbed
    PROVE  IndInv'
<1>1. Types /\ RawType /\ ObsType /\ TaskInv /\ StreamInv /\ SessionInv /\ RecordInv
      /\ DecisionInv /\ DoneInv /\ AnswerInv
  BY DEF IndInv
<1>2. UNCHANGED <<kind, client, h, outer, d, other, ctl, lease, job, n, raw, stateful, obs,
                  reg, lost>>
  BY DEF Sent, Running, tasks, session
<1>3. Sse' = Sse /\ Responses' = Responses /\ Race' = Race
      /\ (Race = "plain" => ~Sse) /\ (Race = "setup" => Sse)
  BY <1>2 DEF Sse, Responses, Race, Anthropic
<1>4. w.at = "send" /\ w'.at = "read" /\ w'.got = "none" /\ w'.result = w.result
      /\ w'.sig = w.sig /\ w'.shield = w.shield /\ w'.err = w.err
      /\ (w'.term => w.term \/ w.got \in Terminals)
  BY <1>1 DEF Sent, Running, Types, WorkerType, HandlerType
<1>5. w' \in WorkerType
  BY <1>1, <1>2, <1>3, <1>4
  DEF Types, WorkerType, WorkerAt, Results, Reading, Setup, Ending, Idle, Sent, Running
<1>6. Types'
  BY <1>1, <1>2, <1>3, <1>4, <1>5 DEF Types, Ending, Idle
<1>7. RawType'
  BY <1>1, <1>2, <1>3 DEF RawType
<1>8. ObsType'
  BY <1>1, <1>2, <1>3 DEF ObsType
<1>9. TaskInv'
  BY <1>1, <1>2, <1>3, <1>4 DEF TaskInv, Setup, Ending, Idle, Reading, Terminals
<1>10. StreamInv'
  BY <1>1, <1>2, <1>3, <1>4 DEF StreamInv, TaskInv, Setup, Ending, Idle, Reading, Terminals
<1>11. SessionInv'
  BY <1>1, <1>2, <1>3, <1>4
  DEF SessionInv, TaskInv, Cancelling, Setup, Ending, Idle, Reading, Terminals
<1>12. RecordInv'
  BY <1>1, <1>2, <1>3, <1>4
  DEF RecordInv, SessionInv, ObsType, Cancelling, Setup, Ending, Idle, Reading, Terminals
<1>13. DecisionInv'
  BY <1>1, <1>2, <1>3, <1>4
  DEF DecisionInv, RawType, SessionInv, Dispositions, NoDecision, Cancelling, Setup, Ending,
      Idle, Reading, Terminals
<1>14. DoneInv'
  BY <1>1, <1>2, <1>3, <1>4
  DEF DoneInv, TaskInv, SessionInv, Down, Cancelling, Setup, Ending, Idle, Reading,
      Terminals
<1>15. AnswerInv'
  BY <1>1, <1>2, <1>3, <1>4 DEF AnswerInv, TaskInv, Setup, Ending, Idle, Reading, Terminals
<1> QED
  BY <1>6, <1>7, <1>8, <1>9, <1>10, <1>11, <1>12, <1>13, <1>14, <1>15 DEF IndInv

(* The session is exhausted.                                               *)
LEMMA ExhaustedKeeps ==
    ASSUME IndInv, Exhausted
    PROVE  IndInv'
<1>1. Types /\ RawType /\ ObsType /\ TaskInv /\ StreamInv /\ SessionInv /\ RecordInv
      /\ DecisionInv /\ DoneInv /\ AnswerInv
  BY DEF IndInv
<1>2. UNCHANGED <<kind, client, h, outer, d, other, ctl, lease, job, n, raw, stateful, obs,
                  lost>>
  BY DEF Exhausted, Running, Ends, tasks, session
<1>3. Sse' = Sse /\ Responses' = Responses /\ Race' = Race
      /\ (Race = "plain" => ~Sse) /\ (Race = "setup" => Sse)
  BY <1>2 DEF Sse, Responses, Race, Anthropic
<1>4. w.at = "read" /\ ~w.sig /\ raw.pending = <<>> /\ raw.terminal
      /\ w'.result \in {"value", "error"}
  BY <1>1 DEF Exhausted, Running, Ends, Types, WorkerType, HandlerType
<1>5. w'.at = "done" /\ ~w'.sig /\ ~w'.shield /\ w'.term = w.term /\ w'.got = "none"
  BY <1>1 DEF Exhausted, Running, Ends, Types, WorkerType, HandlerType
<1>6. reg' \in {"none", "gone"}
  BY <1>1 DEF Exhausted, Unwind, Abandon, Types
<1>7. w' \in WorkerType
  BY <1>1, <1>2, <1>3, <1>4, <1>5, <1>6
  DEF Types, WorkerType, WorkerAt, Results, Reading, Setup, Ending, Idle, Exhausted,
      Running, Ends
<1>8. Types'
  BY <1>1, <1>2, <1>3, <1>4, <1>5, <1>6, <1>7 DEF Types, Ending, Idle, Exhausted, Running,
      Ends
<1>9. RawType'
  BY <1>1, <1>2, <1>3 DEF RawType
<1>10. ObsType'
  BY <1>1, <1>2, <1>3 DEF ObsType
<1>11. TaskInv'
  BY <1>1, <1>2, <1>3, <1>4, <1>5, <1>6 DEF TaskInv, Setup, Ending, Idle, Reading, Terminals
<1>12. StreamInv'
  BY <1>1, <1>2, <1>3, <1>4, <1>5, <1>6
  DEF StreamInv, TaskInv, Setup, Ending, Idle, Reading, Terminals
<1>13. SessionInv'
  BY <1>1, <1>2, <1>3, <1>4, <1>5, <1>6
  DEF SessionInv, TaskInv, Cancelling, Setup, Ending, Idle, Reading, Terminals
<1>14. RecordInv'
  BY <1>1, <1>2, <1>3, <1>4, <1>5, <1>6
  DEF RecordInv, SessionInv, ObsType, Cancelling, Setup, Ending, Idle, Reading, Terminals
<1>15. DecisionInv'
  BY <1>1, <1>2, <1>3, <1>4, <1>5, <1>6
  DEF DecisionInv, RawType, SessionInv, Dispositions, NoDecision, Cancelling, Setup, Ending,
      Idle, Reading, Terminals
<1>16. DoneInv'
  BY <1>1, <1>2, <1>3, <1>4, <1>5, <1>6
  DEF DoneInv, TaskInv, SessionInv, DecisionInv, StreamInv, Down, Cancelling, Dispositions,
      NoDecision, Setup, Ending, Idle, Reading, Terminals
<1>17. AnswerInv'
  BY <1>1, <1>2, <1>3, <1>4, <1>5, <1>6
  DEF AnswerInv, TaskInv, Setup, Ending, Idle, Reading, Terminals
<1> QED
  BY <1>8, <1>9, <1>10, <1>11, <1>12, <1>13, <1>14, <1>15, <1>16, <1>17 DEF IndInv

(* The body of a stream starts.                                            *)
LEMMA BodyStartsKeeps ==
    ASSUME IndInv, BodyStarts, ~Undisturbed
    PROVE  IndInv'
<1>1. Types /\ RawType /\ ObsType /\ TaskInv /\ StreamInv /\ SessionInv /\ RecordInv
      /\ DecisionInv /\ DoneInv /\ AnswerInv
  BY DEF IndInv
<1>2. UNCHANGED <<kind, client, h, outer, d, other, ctl, lease, job, n, raw, stateful, obs,
                  reg, lost>>
  BY DEF BodyStarts, Go, tasks, session
<1>3. Sse' = Sse /\ Responses' = Responses /\ Race' = Race
      /\ (Race = "plain" => ~Sse) /\ (Race = "setup" => Sse)
  BY <1>2 DEF Sse, Responses, Race, Anthropic
<1>4. h.at = "over" /\ w.at = "unstarted" /\ w'.at = "read" /\ w'.result = w.result
      /\ w'.sig = w.sig /\ w'.shield = w.shield /\ w'.term = w.term /\ w'.got = w.got
         /\ w'.err = w.err
  BY <1>1 DEF BodyStarts, Go, Types, WorkerType, HandlerType
<1>5. w' \in WorkerType
  BY <1>1, <1>2, <1>3, <1>4
  DEF Types, WorkerType, WorkerAt, Results, Reading, Setup, Ending, Idle, BodyStarts, Go
<1>6. Types'
  BY <1>1, <1>2, <1>3, <1>4, <1>5 DEF Types, Ending, Idle
<1>7. RawType'
  BY <1>1, <1>2, <1>3 DEF RawType
<1>8. ObsType'
  BY <1>1, <1>2, <1>3 DEF ObsType
<1>9. TaskInv'
  BY <1>1, <1>2, <1>3, <1>4 DEF TaskInv, Setup, Ending, Idle, Reading, Terminals
<1>10. StreamInv'
  BY <1>1, <1>2, <1>3, <1>4 DEF StreamInv, TaskInv, Setup, Ending, Idle, Reading, Terminals
<1>11. SessionInv'
  BY <1>1, <1>2, <1>3, <1>4
  DEF SessionInv, TaskInv, Cancelling, Setup, Ending, Idle, Reading, Terminals
<1>12. RecordInv'
  BY <1>1, <1>2, <1>3, <1>4
  DEF RecordInv, SessionInv, ObsType, Cancelling, Setup, Ending, Idle, Reading, Terminals
<1>13. DecisionInv'
  BY <1>1, <1>2, <1>3, <1>4
  DEF DecisionInv, RawType, SessionInv, Dispositions, NoDecision, Cancelling, Setup, Ending,
      Idle, Reading, Terminals
<1>14. DoneInv'
  BY <1>1, <1>2, <1>3, <1>4
  DEF DoneInv, TaskInv, SessionInv, Down, Cancelling, Setup, Ending, Idle, Reading,
      Terminals
<1>15. AnswerInv'
  BY <1>1, <1>2, <1>3, <1>4 DEF AnswerInv, TaskInv, Setup, Ending, Idle, Reading, Terminals
<1> QED
  BY <1>6, <1>7, <1>8, <1>9, <1>10, <1>11, <1>12, <1>13, <1>14, <1>15 DEF IndInv

(* The body of a stream never starts.                                      *)
LEMMA BodyForgottenKeeps ==
    ASSUME IndInv, BodyForgotten, ~Undisturbed
    PROVE  IndInv'
<1>1. Types /\ RawType /\ ObsType /\ TaskInv /\ StreamInv /\ SessionInv /\ RecordInv
      /\ DecisionInv /\ DoneInv /\ AnswerInv
  BY DEF IndInv
<1>2. UNCHANGED <<kind, client, h, d, other, ctl, lease, job, n, raw, stateful, obs, reg>>
  BY DEF BodyForgotten, BodyAborted, Ends, tasks, session
<1>3. Sse' = Sse /\ Responses' = Responses /\ Race' = Race
      /\ (Race = "plain" => ~Sse) /\ (Race = "setup" => Sse)
  BY <1>2 DEF Sse, Responses, Race, Anthropic
<1>4. h.at = "over" /\ w.at = "unstarted" /\ w'.result = "cancelled" /\ w'.at = "done"
      /\ ~w'.sig /\ ~w'.shield /\ w'.term = w.term /\ w'.got = "none"
  BY <1>1 DEF BodyForgotten, BodyAborted, Ends, Types, WorkerType, HandlerType
<1>5. lost \subseteq lost' /\ lost' # {}
  BY <1>1 DEF BodyForgotten, BodyAborted, Ends, Types, WorkerType, HandlerType
<1>6. w' \in WorkerType
  BY <1>1, <1>2, <1>3, <1>4, <1>5
  DEF Types, WorkerType, WorkerAt, Results, Reading, Setup, Ending, Idle, BodyForgotten,
      BodyAborted, Ends
<1>7. Types'
  BY <1>1, <1>2, <1>3, <1>4, <1>5, <1>6
  DEF Types, Ending, Idle, BodyForgotten, BodyAborted, Ends
<1>8. RawType'
  BY <1>1, <1>2, <1>3 DEF RawType
<1>9. ObsType'
  BY <1>1, <1>2, <1>3 DEF ObsType
<1>10. TaskInv'
  BY <1>1, <1>2, <1>3, <1>4, <1>5 DEF TaskInv, Setup, Ending, Idle, Reading, Terminals
<1>11. StreamInv'
  BY <1>1, <1>2, <1>3, <1>4, <1>5
  DEF StreamInv, TaskInv, Setup, Ending, Idle, Reading, Terminals
<1>12. SessionInv'
  BY <1>1, <1>2, <1>3, <1>4, <1>5
  DEF SessionInv, TaskInv, Cancelling, Setup, Ending, Idle, Reading, Terminals
<1>13. RecordInv'
  BY <1>1, <1>2, <1>3, <1>4, <1>5
  DEF RecordInv, SessionInv, ObsType, Cancelling, Setup, Ending, Idle, Reading, Terminals
<1>14. DecisionInv'
  BY <1>1, <1>2, <1>3, <1>4, <1>5
  DEF DecisionInv, RawType, SessionInv, Dispositions, NoDecision, Cancelling, Setup, Ending,
      Idle, Reading, Terminals
<1>15. DoneInv'
  BY <1>1, <1>2, <1>3, <1>4, <1>5
  DEF DoneInv, TaskInv, SessionInv, Down, Cancelling, Setup, Ending, Idle, Reading,
      Terminals
<1>16. AnswerInv'
  BY <1>1, <1>2, <1>3, <1>4, <1>5
  DEF AnswerInv, TaskInv, Setup, Ending, Idle, Reading, Terminals
<1> QED
  BY <1>7, <1>8, <1>9, <1>10, <1>11, <1>12, <1>13, <1>14, <1>15, <1>16 DEF IndInv

(* The body of a stream is cancelled.                                      *)
LEMMA BodyCancelledKeeps ==
    ASSUME IndInv, BodyCancelled, ~Undisturbed
    PROVE  IndInv'
<1>1. Types /\ RawType /\ ObsType /\ TaskInv /\ StreamInv /\ SessionInv /\ RecordInv
      /\ DecisionInv /\ DoneInv /\ AnswerInv
  BY DEF IndInv
<1>2. UNCHANGED <<kind, client, h, d, other, ctl, lease, job, n, raw, stateful, obs, reg,
                  lost>>
  BY DEF BodyCancelled, BodyAborted, tasks, session
<1>3. Sse' = Sse /\ Responses' = Responses /\ Race' = Race
      /\ (Race = "plain" => ~Sse) /\ (Race = "setup" => Sse)
  BY <1>2 DEF Sse, Responses, Race, Anthropic
<1>4. h.at = "over" /\ Sse /\ w'.result = w.result /\ w'.term = w.term /\ w'.got = w.got
      /\ w'.err = w.err
  BY <1>1 DEF BodyCancelled, BodyAborted, Types, WorkerType, HandlerType
<1>5. (w'.at = w.at /\ w'.shield = w.shield)
      \/ (w.at = "send" /\ w'.at = "cancel" /\ w'.shield)
  BY <1>1 DEF BodyCancelled, BodyAborted, Types, WorkerType, HandlerType
<1>6. w' \in WorkerType
  BY <1>1, <1>2, <1>3, <1>4, <1>5
  DEF Types, WorkerType, WorkerAt, Results, Reading, Setup, Ending, Idle, BodyCancelled,
      BodyAborted
<1>7. Types'
  BY <1>1, <1>2, <1>3, <1>4, <1>5, <1>6 DEF Types, Ending, Idle, BodyCancelled, BodyAborted
<1>8. RawType'
  BY <1>1, <1>2, <1>3 DEF RawType
<1>9. ObsType'
  BY <1>1, <1>2, <1>3 DEF ObsType
<1>10. TaskInv'
  BY <1>1, <1>2, <1>3, <1>4, <1>5 DEF TaskInv, Setup, Ending, Idle, Reading, Terminals
<1>11. StreamInv'
  BY <1>1, <1>2, <1>3, <1>4, <1>5
  DEF StreamInv, TaskInv, Setup, Ending, Idle, Reading, Terminals
<1>12. SessionInv'
  BY <1>1, <1>2, <1>3, <1>4, <1>5
  DEF SessionInv, TaskInv, Cancelling, Setup, Ending, Idle, Reading, Terminals
<1>13. RecordInv'
  BY <1>1, <1>2, <1>3, <1>4, <1>5
  DEF RecordInv, SessionInv, ObsType, Cancelling, Setup, Ending, Idle, Reading, Terminals
<1>14. DecisionInv'
  BY <1>1, <1>2, <1>3, <1>4, <1>5
  DEF DecisionInv, RawType, SessionInv, Dispositions, NoDecision, Cancelling, Setup, Ending,
      Idle, Reading, Terminals
<1>15. DoneInv'
  BY <1>1, <1>2, <1>3, <1>4, <1>5
  DEF DoneInv, TaskInv, SessionInv, Down, Cancelling, Setup, Ending, Idle, Reading,
      Terminals
<1>16. AnswerInv'
  BY <1>1, <1>2, <1>3, <1>4, <1>5
  DEF AnswerInv, TaskInv, Setup, Ending, Idle, Reading, Terminals
<1> QED
  BY <1>7, <1>8, <1>9, <1>10, <1>11, <1>12, <1>13, <1>14, <1>15, <1>16 DEF IndInv

(* Cancelled before there is a session.                                    *)
LEMMA CancelledInSetupKeeps ==
    ASSUME IndInv, CancelledInSetup, ~Undisturbed
    PROVE  IndInv'
<1>1. Types /\ RawType /\ ObsType /\ TaskInv /\ StreamInv /\ SessionInv /\ RecordInv
      /\ DecisionInv /\ DoneInv /\ AnswerInv
  BY DEF IndInv
<1>2. UNCHANGED <<kind, client, h, outer, d, other, ctl, job, n, raw, stateful, obs, lost>>
  BY DEF CancelledInSetup, Unwind, Ends, tasks, session
<1>3. Sse' = Sse /\ Responses' = Responses /\ Race' = Race
      /\ (Race = "plain" => ~Sse) /\ (Race = "setup" => Sse)
  BY <1>2 DEF Sse, Responses, Race, Anthropic
<1>4. w.sig /\ w.at \in Setup \ {"register"} /\ w'.result = "cancelled"
      /\ w'.at = "done" /\ ~w'.sig /\ ~w'.shield /\ w'.term = w.term /\ w'.got = "none"
  BY <1>1 DEF CancelledInSetup, Unwind, Ends, Types, WorkerType, HandlerType
<1>5. reg' \in {"none", "gone"}
  BY <1>1 DEF CancelledInSetup, Unwind, Abandon, Types
<1>6. lease' # "held"
  BY <1>1 DEF CancelledInSetup, Unwind, Ends, Types, WorkerType, HandlerType
<1>7. w' \in WorkerType
  BY <1>1, <1>2, <1>3, <1>4, <1>5, <1>6
  DEF Types, WorkerType, WorkerAt, Results, Reading, Setup, Ending, Idle, CancelledInSetup,
      Unwind, Ends
<1>8. Types'
  BY <1>1, <1>2, <1>3, <1>4, <1>5, <1>6, <1>7
  DEF Types, Ending, Idle, CancelledInSetup, Unwind, Ends
<1>9. RawType'
  BY <1>1, <1>2, <1>3 DEF RawType
<1>10. ObsType'
  BY <1>1, <1>2, <1>3 DEF ObsType
<1>11. TaskInv'
  BY <1>1, <1>2, <1>3, <1>4, <1>5, <1>6 DEF TaskInv, Setup, Ending, Idle, Reading, Terminals
<1>12. StreamInv'
  BY <1>1, <1>2, <1>3, <1>4, <1>5, <1>6
  DEF StreamInv, TaskInv, Setup, Ending, Idle, Reading, Terminals
<1>13. SessionInv'
  BY <1>1, <1>2, <1>3, <1>4, <1>5, <1>6
  DEF SessionInv, TaskInv, Cancelling, Setup, Ending, Idle, Reading, Terminals
<1>14. RecordInv'
  BY <1>1, <1>2, <1>3, <1>4, <1>5, <1>6
  DEF RecordInv, SessionInv, ObsType, Cancelling, Setup, Ending, Idle, Reading, Terminals
<1>15. DecisionInv'
  BY <1>1, <1>2, <1>3, <1>4, <1>5, <1>6
  DEF DecisionInv, RawType, SessionInv, Dispositions, NoDecision, Cancelling, Setup, Ending,
      Idle, Reading, Terminals
<1>16. DoneInv'
  BY <1>1, <1>2, <1>3, <1>4, <1>5, <1>6
  DEF DoneInv, TaskInv, SessionInv, Down, Cancelling, Setup, Ending, Idle, Reading,
      Terminals
<1>17. AnswerInv'
  BY <1>1, <1>2, <1>3, <1>4, <1>5, <1>6
  DEF AnswerInv, TaskInv, Setup, Ending, Idle, Reading, Terminals
<1> QED
  BY <1>8, <1>9, <1>10, <1>11, <1>12, <1>13, <1>14, <1>15, <1>16, <1>17 DEF IndInv

(* Cancelled while it registers or records.                                *)
LEMMA CancelledInHandKeeps ==
    ASSUME IndInv, CancelledInHand, ~Undisturbed
    PROVE  IndInv'
<1>1. Types /\ RawType /\ ObsType /\ TaskInv /\ StreamInv /\ SessionInv /\ RecordInv
      /\ DecisionInv /\ DoneInv /\ AnswerInv
  BY DEF IndInv
<1>2. UNCHANGED <<kind, client, h, outer, d, other, ctl, lease, job, n, raw, stateful, reg,
                  lost>>
  BY DEF CancelledInHand, tasks, session
<1>3. Sse' = Sse /\ Responses' = Responses /\ Race' = Race
      /\ (Race = "plain" => ~Sse) /\ (Race = "setup" => Sse)
  BY <1>2 DEF Sse, Responses, Race, Anthropic
<1>4. w.sig /\ ~w'.sig /\ w'.at = "cancel" /\ w'.result = w.result
      /\ w'.shield = w.shield /\ w'.term = w.term /\ w'.got = w.got /\ w'.err = w.err
  BY <1>1 DEF CancelledInHand, Types, WorkerType, HandlerType
<1>5. \/ w.at = "register" /\ obs' = obs
      \/ w.at = "capture" /\ Written
  BY <1>1, WrittenIs DEF CancelledInHand, RecordInv
<1>6. w' \in WorkerType
  BY <1>1, <1>2, <1>3, <1>4, <1>5
  DEF Written, Types, WorkerType, WorkerAt, Results, Reading, Setup, Ending, Idle,
      CancelledInHand
<1>7. Types'
  BY <1>1, <1>2, <1>3, <1>4, <1>5, <1>6 DEF Types, Ending, Idle, CancelledInHand
<1>8. RawType'
  BY <1>1, <1>2, <1>3 DEF RawType
<1>9. ObsType'
  BY <1>1, <1>2, <1>3, <1>4, <1>5 DEF ObsType, Written, Setup, Ending, Idle, Reading,
      Terminals
<1>10. TaskInv'
  BY <1>1, <1>2, <1>3, <1>4, <1>5 DEF TaskInv, Written, Setup, Ending, Idle, Reading,
      Terminals
<1>11. StreamInv'
  BY <1>1, <1>2, <1>3, <1>4, <1>5
  DEF StreamInv, TaskInv, Written, Setup, Ending, Idle, Reading, Terminals
<1>12. SessionInv'
  BY <1>1, <1>2, <1>3, <1>4, <1>5
  DEF SessionInv, TaskInv, Written, Cancelling, Setup, Ending, Idle, Reading, Terminals
<1>13. RecordInv'
  BY <1>1, <1>2, <1>3, <1>4, <1>5
  DEF RecordInv, SessionInv, ObsType, Written, Cancelling, Setup, Ending, Idle, Reading,
      Terminals
<1>14. DecisionInv'
  BY <1>1, <1>2, <1>3, <1>4, <1>5
  DEF DecisionInv, RawType, SessionInv, Written, Dispositions, NoDecision, Cancelling,
      Setup, Ending, Idle, Reading, Terminals
<1>15. DoneInv'
  BY <1>1, <1>2, <1>3, <1>4, <1>5
  DEF DoneInv, TaskInv, SessionInv, Written, Down, Cancelling, Setup, Ending, Idle, Reading,
      Terminals
<1>16. AnswerInv'
  BY <1>1, <1>2, <1>3, <1>4, <1>5
  DEF AnswerInv, TaskInv, Written, Setup, Ending, Idle, Reading, Terminals
<1> QED
  BY <1>7, <1>8, <1>9, <1>10, <1>11, <1>12, <1>13, <1>14, <1>15, <1>16 DEF IndInv

(* Cancelled while it waits for the runtime.                               *)
LEMMA CancelledInReadKeeps ==
    ASSUME IndInv, CancelledInRead, ~Undisturbed
    PROVE  IndInv'
<1>1. Types /\ RawType /\ ObsType /\ TaskInv /\ StreamInv /\ SessionInv /\ RecordInv
      /\ DecisionInv /\ DoneInv /\ AnswerInv
  BY DEF IndInv
<1>2. UNCHANGED <<kind, client, h, outer, d, other, n, raw, stateful, obs, reg, lost>>
  BY DEF CancelledInRead, tasks, session
<1>3. Sse' = Sse /\ Responses' = Responses /\ Race' = Race
      /\ (Race = "plain" => ~Sse) /\ (Race = "setup" => Sse)
  BY <1>2 DEF Sse, Responses, Race, Anthropic
<1>4. w.sig /\ w.at = "read" /\ w'.at = "cancel" /\ ~w'.sig /\ lease' = "free"
      /\ w'.result = w.result /\ w'.shield = w.shield /\ w'.term = w.term
         /\ w'.got = w.got /\ w'.err = w.err
  BY <1>1 DEF CancelledInRead, Types, WorkerType, HandlerType
<1>5. ctl' \in [reason : Reasons, asked : BOOLEAN, over : BOOLEAN] /\ ctl'.asked
      /\ ctl'.over
  BY <1>1 DEF CancelledInRead, Types, Reasons, Lifecycle
<1>6. \/ job' = job /\ (job # "running" \/ ctl.asked)
      \/ job = "running" /\ job' = "cancelled"
  BY <1>1 DEF CancelledInRead, Types
<1>7. w' \in WorkerType
  BY <1>1, <1>2, <1>3, <1>4, <1>5, <1>6
  DEF Types, WorkerType, WorkerAt, Results, Reading, Setup, Ending, Idle, CancelledInRead
<1>8. Types'
  BY <1>1, <1>2, <1>3, <1>4, <1>5, <1>6, <1>7 DEF Types, Ending, Idle, CancelledInRead
<1>9. RawType'
  BY <1>1, <1>2, <1>3 DEF RawType
<1>10. ObsType'
  BY <1>1, <1>2, <1>3 DEF ObsType
<1>11. TaskInv'
  BY <1>1, <1>2, <1>3, <1>4, <1>5, <1>6 DEF TaskInv, Setup, Ending, Idle, Reading, Terminals
<1>12. StreamInv'
  BY <1>1, <1>2, <1>3, <1>4, <1>5, <1>6
  DEF StreamInv, TaskInv, Setup, Ending, Idle, Reading, Terminals
<1>13. SessionInv'
  BY <1>1, <1>2, <1>3, <1>4, <1>5, <1>6
  DEF SessionInv, TaskInv, Cancelling, Setup, Ending, Idle, Reading, Terminals
<1>14. RecordInv'
  BY <1>1, <1>2, <1>3, <1>4, <1>5, <1>6
  DEF RecordInv, SessionInv, ObsType, Cancelling, Setup, Ending, Idle, Reading, Terminals
<1>15. DecisionInv'
  BY <1>1, <1>2, <1>3, <1>4, <1>5, <1>6
  DEF DecisionInv, RawType, SessionInv, Dispositions, NoDecision, Cancelling, Setup, Ending,
      Idle, Reading, Terminals
<1>16. DoneInv'
  BY <1>1, <1>2, <1>3, <1>4, <1>5, <1>6
  DEF DoneInv, TaskInv, SessionInv, Down, Cancelling, Setup, Ending, Idle, Reading,
      Terminals
<1>17. AnswerInv'
  BY <1>1, <1>2, <1>3, <1>4, <1>5, <1>6
  DEF AnswerInv, TaskInv, Setup, Ending, Idle, Reading, Terminals
<1> QED
  BY <1>8, <1>9, <1>10, <1>11, <1>12, <1>13, <1>14, <1>15, <1>16, <1>17 DEF IndInv

(* Cancelled inside session.cancel().                                      *)
LEMMA CancelledInCancelKeeps ==
    ASSUME IndInv, CancelledInCancel, ~Undisturbed
    PROVE  IndInv'
<1>1. Types /\ RawType /\ ObsType /\ TaskInv /\ StreamInv /\ SessionInv /\ RecordInv
      /\ DecisionInv /\ DoneInv /\ AnswerInv
  BY DEF IndInv
<1>2. UNCHANGED <<kind, client, h, outer, d, other, ctl, lease, job, n, raw, stateful>>
  BY DEF CancelledInCancel, Ends, tasks, session
<1>3. Sse' = Sse /\ Responses' = Responses /\ Race' = Race
      /\ (Race = "plain" => ~Sse) /\ (Race = "setup" => Sse)
  BY <1>2 DEF Sse, Responses, Race, Anthropic
<1>4. w.at \in {"cancelling", "recording"} /\ w'.result = "cancelled" /\ w'.at = "done"
      /\ ~w'.sig /\ ~w'.shield /\ w'.term = w.term /\ w'.got = "none"
  BY <1>1 DEF CancelledInCancel, Ends, Types, WorkerType, HandlerType
<1>5. lost \subseteq lost' /\ lost' # {}
  BY <1>1 DEF CancelledInCancel, Ends, Types, WorkerType, HandlerType
<1>6. \/ w.at = "cancelling" /\ obs' = obs
      \/ w.at = "recording" /\ Written
  BY <1>1, WrittenIs DEF CancelledInCancel, RecordInv
<1>7. reg' \in {reg, "gone"}
  BY <1>1 DEF CancelledInCancel, Abandon
<1>8. w' \in WorkerType
  BY <1>1, <1>2, <1>3, <1>4, <1>5, <1>6, <1>7
  DEF Written, Types, WorkerType, WorkerAt, Results, Reading, Setup, Ending, Idle,
      CancelledInCancel, Ends
<1>9. Types'
  BY <1>1, <1>2, <1>3, <1>4, <1>5, <1>6, <1>7, <1>8
  DEF Types, Ending, Idle, CancelledInCancel, Ends
<1>10. RawType'
  BY <1>1, <1>2, <1>3 DEF RawType
<1>11. ObsType'
  BY <1>1, <1>2, <1>3, <1>4, <1>5, <1>6, <1>7
  DEF ObsType, Written, Setup, Ending, Idle, Reading, Terminals
<1>12. TaskInv'
  BY <1>1, <1>2, <1>3, <1>4, <1>5, <1>6, <1>7
  DEF TaskInv, Written, Setup, Ending, Idle, Reading, Terminals
<1>13. StreamInv'
  BY <1>1, <1>2, <1>3, <1>4, <1>5, <1>6, <1>7
  DEF StreamInv, TaskInv, Written, Setup, Ending, Idle, Reading, Terminals
<1>14. SessionInv'
  BY <1>1, <1>2, <1>3, <1>4, <1>5, <1>6, <1>7
  DEF SessionInv, TaskInv, Written, Cancelling, Setup, Ending, Idle, Reading, Terminals
<1>15. RecordInv'
  BY <1>1, <1>2, <1>3, <1>4, <1>5, <1>6, <1>7
  DEF RecordInv, SessionInv, ObsType, Written, Cancelling, Setup, Ending, Idle, Reading,
      Terminals
<1>16. DecisionInv'
  BY <1>1, <1>2, <1>3, <1>4, <1>5, <1>6, <1>7
  DEF DecisionInv, RawType, SessionInv, Written, Dispositions, NoDecision, Cancelling,
      Setup, Ending, Idle, Reading, Terminals
<1>17. DoneInv'
  BY <1>1, <1>2, <1>3, <1>4, <1>5, <1>6, <1>7
  DEF DoneInv, TaskInv, SessionInv, Written, Down, Cancelling, Setup, Ending, Idle, Reading,
      Terminals
<1>18. AnswerInv'
  BY <1>1, <1>2, <1>3, <1>4, <1>5, <1>6, <1>7
  DEF AnswerInv, TaskInv, Written, Setup, Ending, Idle, Reading, Terminals
<1> QED
  BY <1>9, <1>10, <1>11, <1>12, <1>13, <1>14, <1>15, <1>16, <1>17, <1>18 DEF IndInv

(* The worker has written the record of a cancel.                          *)
LEMMA WorkerRecordedKeeps ==
    ASSUME IndInv, WorkerRecorded, ~Undisturbed
    PROVE  IndInv'
<1>1. Types /\ RawType /\ ObsType /\ TaskInv /\ StreamInv /\ SessionInv /\ RecordInv
      /\ DecisionInv /\ DoneInv /\ AnswerInv
  BY DEF IndInv
<1>2. UNCHANGED <<kind, client, h, outer, d, other, ctl, lease, job, n, raw, stateful,
                  lost>>
  BY DEF WorkerRecorded, Running, tasks, session
<1>3. Sse' = Sse /\ Responses' = Responses /\ Race' = Race
      /\ (Race = "plain" => ~Sse) /\ (Race = "setup" => Sse)
  BY <1>2 DEF Sse, Responses, Race, Anthropic
<1>4. w.at = "recording"
  BY <1>1 DEF WorkerRecorded, Running, Types, WorkerType, HandlerType
<1>5. Written
  BY <1>1, WrittenIs DEF WorkerRecorded, RecordInv, Running
<1>6. /\ reg' \in {"none", "gone"}
      /\ \/ w.shield /\ w' \in WorkerType /\ w'.at = "done" /\ ~w'.sig /\ ~w'.shield
                /\ w'.term = w.term /\ w'.got = w.got /\ w'.result = w.result
         \/ ~w.shield /\ Ended({"error", "cancelled"})
  BY <1>1, WorkerEndsIs DEF WorkerRecorded
<1>7. w' \in WorkerType
  BY <1>1, <1>2, <1>3, <1>4, <1>5, <1>6 DEF Written, Ended
<1>8. Types'
  BY <1>1, <1>2, <1>3, <1>4, <1>5, <1>6, <1>7 DEF Types, Ending, Idle, WorkerRecorded,
      Running
<1>9. RawType'
  BY <1>1, <1>2, <1>3 DEF RawType
<1>10. ObsType'
  BY <1>1, <1>2, <1>3, <1>4, <1>5, <1>6
  DEF ObsType, Written, Ended, Setup, Ending, Idle, Reading, Terminals
<1>11. TaskInv'
  BY <1>1, <1>2, <1>3, <1>4, <1>5, <1>6
  DEF TaskInv, Written, Ended, Setup, Ending, Idle, Reading, Terminals
<1>12. StreamInv'
  BY <1>1, <1>2, <1>3, <1>4, <1>5, <1>6
  DEF StreamInv, TaskInv, Written, Ended, Setup, Ending, Idle, Reading, Terminals
<1>13. SessionInv'
  BY <1>1, <1>2, <1>3, <1>4, <1>5, <1>6
  DEF SessionInv, TaskInv, Written, Ended, Cancelling, Setup, Ending, Idle, Reading,
      Terminals
<1>14. RecordInv'
  BY <1>1, <1>2, <1>3, <1>4, <1>5, <1>6
  DEF RecordInv, SessionInv, ObsType, Written, Ended, Cancelling, Setup, Ending, Idle,
      Reading, Terminals
<1>15. DecisionInv'
  BY <1>1, <1>2, <1>3, <1>4, <1>5, <1>6
  DEF DecisionInv, RawType, SessionInv, Written, Ended, Dispositions, NoDecision,
      Cancelling, Setup, Ending, Idle, Reading, Terminals
<1>16. DoneInv'
  BY <1>1, <1>2, <1>3, <1>4, <1>5, <1>6
  DEF DoneInv, TaskInv, SessionInv, RecordInv, StreamInv, Written, Ended, Down, Cancelling,
      Setup, Ending, Idle, Reading, Terminals
<1>17. AnswerInv'
  BY <1>1, <1>2, <1>3, <1>4, <1>5, <1>6
  DEF AnswerInv, TaskInv, Written, Ended, Setup, Ending, Idle, Reading, Terminals
<1> QED
  BY <1>8, <1>9, <1>10, <1>11, <1>12, <1>13, <1>14, <1>15, <1>16, <1>17 DEF IndInv

(* The cancel call has written its record.                                 *)
LEMMA OtherRecordedKeeps ==
    ASSUME IndInv, OtherRecorded, ~Undisturbed
    PROVE  IndInv'
<1>1. Types /\ RawType /\ ObsType /\ TaskInv /\ StreamInv /\ SessionInv /\ RecordInv
      /\ DecisionInv /\ DoneInv /\ AnswerInv
  BY DEF IndInv
<1>2. UNCHANGED <<kind, client, h, outer, d, w, ctl, lease, job, n, raw, stateful, reg,
                  lost>>
  BY DEF OtherRecorded, tasks, session
<1>3. Sse' = Sse /\ Responses' = Responses /\ Race' = Race
      /\ (Race = "plain" => ~Sse) /\ (Race = "setup" => Sse)
  BY <1>2 DEF Sse, Responses, Race, Anthropic
<1>4. other = "recording" /\ other' = "done"
  BY <1>1 DEF OtherRecorded, Types, WorkerType, HandlerType
<1>5. Written
  BY <1>1, WrittenIs DEF OtherRecorded, RecordInv
<1>6. Types'
  BY <1>1, <1>2, <1>3, <1>4, <1>5 DEF Types, Ending, Idle, OtherRecorded
<1>7. RawType'
  BY <1>1, <1>2, <1>3 DEF RawType
<1>8. ObsType'
  BY <1>1, <1>2, <1>3, <1>4, <1>5 DEF ObsType, Written, Setup, Ending, Idle, Reading,
      Terminals
<1>9. TaskInv'
  BY <1>1, <1>2, <1>3 DEF TaskInv
<1>10. StreamInv'
  BY <1>1, <1>2, <1>3, <1>4, <1>5
  DEF StreamInv, TaskInv, Written, Setup, Ending, Idle, Reading, Terminals
<1>11. SessionInv'
  BY <1>1, <1>2, <1>3, <1>4, <1>5
  DEF SessionInv, TaskInv, Written, Cancelling, Setup, Ending, Idle, Reading, Terminals
<1>12. RecordInv'
  BY <1>1, <1>2, <1>3, <1>4, <1>5
  DEF RecordInv, SessionInv, ObsType, Written, Cancelling, Setup, Ending, Idle, Reading,
      Terminals
<1>13. DecisionInv'
  BY <1>1, <1>2, <1>3, <1>4, <1>5
  DEF DecisionInv, RawType, SessionInv, Written, Dispositions, NoDecision, Cancelling,
      Setup, Ending, Idle, Reading, Terminals
<1>14. DoneInv'
  BY <1>1, <1>2, <1>3, <1>4, <1>5
  DEF DoneInv, TaskInv, SessionInv, Written, Down, Cancelling, Setup, Ending, Idle, Reading,
      Terminals
<1>15. AnswerInv'
  BY <1>1, <1>2, <1>3 DEF AnswerInv
<1> QED
  BY <1>6, <1>7, <1>8, <1>9, <1>10, <1>11, <1>12, <1>13, <1>14, <1>15 DEF IndInv

(* runtime.cancel() returns to the cancel call.                            *)
LEMMA OtherStoppedKeeps ==
    ASSUME IndInv, OtherStopped, ~Undisturbed
    PROVE  IndInv'
<1>1. Types /\ RawType /\ ObsType /\ TaskInv /\ StreamInv /\ SessionInv /\ RecordInv
      /\ DecisionInv /\ DoneInv /\ AnswerInv
  BY DEF IndInv
<1>2. UNCHANGED <<kind, client, h, outer, d, w, ctl, n, raw, stateful, reg, lost>>
  BY DEF OtherStopped, Stopped, tasks, session
<1>3. Sse' = Sse /\ Responses' = Responses /\ Race' = Race
      /\ (Race = "plain" => ~Sse) /\ (Race = "setup" => Sse)
  BY <1>2 DEF Sse, Responses, Race, Anthropic
<1>4. other = "cancelling" /\ lease' = "free" /\ job' # "running"
      /\ job' \in {job, "cancelled"}
      /\ ((obs.writing /\ other' = "done") \/ (~obs.writing /\ other' = "recording"))
  BY <1>1 DEF OtherStopped, Stopped, Types, WorkerType, HandlerType
<1>5. Noted("cancelled")
  BY <1>1, RecordedIs DEF OtherStopped, Terminals
<1>6. Types'
  BY <1>1, <1>2, <1>3, <1>4, <1>5 DEF Types, Ending, Idle, OtherStopped, Stopped
<1>7. RawType'
  BY <1>1, <1>2, <1>3 DEF RawType
<1>8. ObsType'
  BY <1>1, <1>2, <1>3, <1>4, <1>5 DEF ObsType, Noted, Setup, Ending, Idle, Reading,
      Terminals
<1>9. TaskInv'
  BY <1>1, <1>2, <1>3 DEF TaskInv
<1>10. StreamInv'
  BY <1>1, <1>2, <1>3, <1>4, <1>5
  DEF StreamInv, TaskInv, Noted, Setup, Ending, Idle, Reading, Terminals
<1>11. SessionInv'
  BY <1>1, <1>2, <1>3, <1>4, <1>5
  DEF SessionInv, TaskInv, Noted, Cancelling, Setup, Ending, Idle, Reading, Terminals
<1>12. RecordInv'
  <2>1. job # "none" /\ job' # "none" /\ w.at \notin Setup \cup {"none"}
  BY <1>1, <1>2, <1>4, <1>5 DEF SessionInv, StreamInv, TaskInv, Setup
  <2>2. CASE obs.writing
  BY <1>1, <1>2, <1>4, <1>5, <2>1, <2>2 DEF RecordInv, Noted, Setup
  <2>3. CASE ~obs.writing
    <3>1. obs.status = "none" /\ obs.records = <<>> /\ Len(<<>>) = 0 /\ DOMAIN <<>> = {}
      BY <1>1, <2>1, <2>3 DEF RecordInv
    <3> QED
      BY <1>1, <1>2, <1>4, <1>5, <2>1, <2>3, <3>1 DEF RecordInv, Noted, Setup
  <2> QED
  BY <2>2, <2>3
<1>13. DecisionInv'
  BY <1>1, <1>2, <1>3, <1>4, <1>5
  DEF DecisionInv, RawType, SessionInv, Noted, Dispositions, NoDecision, Cancelling, Setup,
      Ending, Idle, Reading, Terminals
<1>14. DoneInv'
  BY <1>1, <1>2, <1>3, <1>4, <1>5
  DEF DoneInv, TaskInv, SessionInv, Noted, Down, Cancelling, Setup, Ending, Idle, Reading,
      Terminals
<1>15. AnswerInv'
  BY <1>1, <1>2, <1>3 DEF AnswerInv
<1> QED
  BY <1>6, <1>7, <1>8, <1>9, <1>10, <1>11, <1>12, <1>13, <1>14, <1>15 DEF IndInv

(* runtime.cancel() raises in the cancel call.                             *)
LEMMA OtherRaisedKeeps ==
    ASSUME IndInv, OtherRaised, ~Undisturbed
    PROVE  IndInv'
<1>1. Types /\ RawType /\ ObsType /\ TaskInv /\ StreamInv /\ SessionInv /\ RecordInv
      /\ DecisionInv /\ DoneInv /\ AnswerInv
  BY DEF IndInv
<1>2. UNCHANGED <<kind, client, h, outer, d, w, ctl, lease, job, n, raw, stateful, reg>>
  BY DEF OtherRaised, tasks, session
<1>3. Sse' = Sse /\ Responses' = Responses /\ Race' = Race
      /\ (Race = "plain" => ~Sse) /\ (Race = "setup" => Sse)
  BY <1>2 DEF Sse, Responses, Race, Anthropic
<1>4. other = "cancelling" /\ "raised" \in lost' /\ lost \subseteq lost'
      /\ ((obs.writing /\ other' = "done") \/ (~obs.writing /\ other' = "recording"))
  BY <1>1 DEF OtherRaised, Types, WorkerType, HandlerType
<1>5. Noted("failed")
  BY <1>1, RecordedIs DEF OtherRaised, Terminals
<1>6. Types'
  BY <1>1, <1>2, <1>3, <1>4, <1>5 DEF Types, Ending, Idle, OtherRaised
<1>7. RawType'
  BY <1>1, <1>2, <1>3 DEF RawType
<1>8. ObsType'
  BY <1>1, <1>2, <1>3, <1>4, <1>5 DEF ObsType, Noted, Setup, Ending, Idle, Reading,
      Terminals
<1>9. TaskInv'
  BY <1>1, <1>2, <1>3 DEF TaskInv
<1>10. StreamInv'
  BY <1>1, <1>2, <1>3, <1>4, <1>5
  DEF StreamInv, TaskInv, Noted, Setup, Ending, Idle, Reading, Terminals
<1>11. SessionInv'
  BY <1>1, <1>2, <1>3, <1>4, <1>5
  DEF SessionInv, TaskInv, Noted, Cancelling, Setup, Ending, Idle, Reading, Terminals
<1>12. RecordInv'
  <2>1. job # "none" /\ job' # "none" /\ w.at \notin Setup \cup {"none"}
  BY <1>1, <1>2, <1>4, <1>5 DEF SessionInv, StreamInv, TaskInv, Setup
  <2>2. CASE obs.writing
  BY <1>1, <1>2, <1>4, <1>5, <2>1, <2>2 DEF RecordInv, Noted, Setup
  <2>3. CASE ~obs.writing
    <3>1. obs.status = "none" /\ obs.records = <<>> /\ Len(<<>>) = 0 /\ DOMAIN <<>> = {}
      BY <1>1, <2>1, <2>3 DEF RecordInv
    <3> QED
      BY <1>1, <1>2, <1>4, <1>5, <2>1, <2>3, <3>1 DEF RecordInv, Noted, Setup
  <2> QED
  BY <2>2, <2>3
<1>13. DecisionInv'
  BY <1>1, <1>2, <1>3, <1>4, <1>5
  DEF DecisionInv, RawType, SessionInv, Noted, Dispositions, NoDecision, Cancelling, Setup,
      Ending, Idle, Reading, Terminals
<1>14. DoneInv'
  BY <1>1, <1>2, <1>3, <1>4, <1>5
  DEF DoneInv, TaskInv, SessionInv, Noted, Down, Cancelling, Setup, Ending, Idle, Reading,
      Terminals
<1>15. AnswerInv'
  BY <1>1, <1>2, <1>3 DEF AnswerInv
<1> QED
  BY <1>6, <1>7, <1>8, <1>9, <1>10, <1>11, <1>12, <1>13, <1>14, <1>15 DEF IndInv

(* runtime.cancel() returns to the worker.                                 *)
LEMMA WorkerStoppedKeeps ==
    ASSUME IndInv, WorkerStopped, ~Undisturbed
    PROVE  IndInv'
<1>1. Types /\ RawType /\ ObsType /\ TaskInv /\ StreamInv /\ SessionInv /\ RecordInv
      /\ DecisionInv /\ DoneInv /\ AnswerInv
  BY DEF IndInv
<1>2. UNCHANGED <<kind, client, h, outer, d, other, ctl, n, raw, stateful, lost>>
  BY DEF WorkerStopped, Running, Stopped, tasks, session
<1>3. Sse' = Sse /\ Responses' = Responses /\ Race' = Race
      /\ (Race = "plain" => ~Sse) /\ (Race = "setup" => Sse)
  BY <1>2 DEF Sse, Responses, Race, Anthropic
<1>4. w.at = "cancelling" /\ ~w.sig /\ lease' = "free" /\ job' # "running"
      /\ job' \in {job, "cancelled"}
  BY <1>1 DEF WorkerStopped, Running, Stopped, Types, WorkerType, HandlerType
<1>5. Noted("cancelled")
  BY <1>1, RecordedIs DEF WorkerStopped, Terminals
<1>6. \/ /\ obs.writing /\ reg' \in {"none", "gone"}
         /\ \/ w.shield /\ w' \in WorkerType /\ w'.at = "done" /\ ~w'.sig /\ ~w'.shield
               /\ w'.term = w.term /\ w'.got = w.got /\ w'.result = w.result
            \/ ~w.shield /\ Ended({"error", "cancelled"})
      \/ /\ ~obs.writing /\ reg' = reg /\ w' \in WorkerType /\ w'.at = "recording"
         /\ w'.result = w.result /\ w'.sig = w.sig /\ w'.shield = w.shield
            /\ w'.term = w.term /\ w'.got = w.got /\ w'.err = w.err
  <2>1. CASE obs.writing
  BY <1>1, <2>1, WorkerEndsIs DEF WorkerStopped
  <2>2. CASE ~obs.writing
    <3>1. w' = [w EXCEPT !.at = "recording"] /\ reg' = reg
      BY <2>2 DEF WorkerStopped, Go
    <3> QED
      BY <1>1, <2>2, <3>1 DEF Types, WorkerType, WorkerAt, Ending
  <2> QED
  BY <2>1, <2>2
<1>7. w' \in WorkerType
  BY <1>1, <1>2, <1>3, <1>4, <1>5, <1>6 DEF Noted, Ended
<1>8. Types'
  BY <1>1, <1>2, <1>3, <1>4, <1>5, <1>6, <1>7
  DEF Types, Ending, Idle, WorkerStopped, Running, Stopped
<1>9. RawType'
  BY <1>1, <1>2, <1>3 DEF RawType
<1>10. ObsType'
  BY <1>1, <1>2, <1>3, <1>4, <1>5, <1>6
  DEF ObsType, Noted, Ended, Setup, Ending, Idle, Reading, Terminals
<1>11. TaskInv'
  BY <1>1, <1>2, <1>3, <1>4, <1>5, <1>6
  DEF TaskInv, Noted, Ended, Setup, Ending, Idle, Reading, Terminals
<1>12. StreamInv'
  BY <1>1, <1>2, <1>3, <1>4, <1>5, <1>6
  DEF StreamInv, TaskInv, Noted, Ended, Setup, Ending, Idle, Reading, Terminals
<1>13. SessionInv'
  BY <1>1, <1>2, <1>3, <1>4, <1>5, <1>6
  DEF SessionInv, TaskInv, Noted, Ended, Cancelling, Setup, Ending, Idle, Reading, Terminals
<1>14. RecordInv'
  BY <1>1, <1>2, <1>3, <1>4, <1>5, <1>6
  DEF RecordInv, SessionInv, ObsType, Noted, Ended, Cancelling, Setup, Ending, Idle,
      Reading, Terminals
<1>15. DecisionInv'
  BY <1>1, <1>2, <1>3, <1>4, <1>5, <1>6
  DEF DecisionInv, RawType, SessionInv, Noted, Ended, Dispositions, NoDecision, Cancelling,
      Setup, Ending, Idle, Reading, Terminals
<1>16. DoneInv'
  BY <1>1, <1>2, <1>3, <1>4, <1>5, <1>6
  DEF DoneInv, TaskInv, SessionInv, RecordInv, StreamInv, Noted, Ended, Down, Cancelling,
      Setup, Ending, Idle, Reading, Terminals
<1>17. AnswerInv'
  BY <1>1, <1>2, <1>3, <1>4, <1>5, <1>6
  DEF AnswerInv, TaskInv, Noted, Ended, Setup, Ending, Idle, Reading, Terminals
<1> QED
  BY <1>8, <1>9, <1>10, <1>11, <1>12, <1>13, <1>14, <1>15, <1>16, <1>17 DEF IndInv

(* runtime.cancel() raises in the worker.                                  *)
LEMMA WorkerRaisedKeeps ==
    ASSUME IndInv, WorkerRaised, ~Undisturbed
    PROVE  IndInv'
<1>1. Types /\ RawType /\ ObsType /\ TaskInv /\ StreamInv /\ SessionInv /\ RecordInv
      /\ DecisionInv /\ DoneInv /\ AnswerInv
  BY DEF IndInv
<1>2. UNCHANGED <<kind, client, h, outer, d, other, ctl, lease, job, n, raw, stateful, reg>>
  BY DEF WorkerRaised, Running, tasks, session
<1>3. Sse' = Sse /\ Responses' = Responses /\ Race' = Race
      /\ (Race = "plain" => ~Sse) /\ (Race = "setup" => Sse)
  BY <1>2 DEF Sse, Responses, Race, Anthropic
<1>4. w.at = "cancelling" /\ ~w.sig /\ "raised" \in lost' /\ lost \subseteq lost'
  BY <1>1 DEF WorkerRaised, Running, Types, WorkerType, HandlerType
<1>5. Noted("failed")
  BY <1>1, RecordedIs DEF WorkerRaised, Terminals
<1>6. /\ w' \in WorkerType
      /\ \/ obs.writing /\ w'.result = "error" /\ w'.at = "done" /\ ~w'.sig /\ ~w'.shield
            /\ w'.term = w.term /\ w'.got = "none"
         \/ ~obs.writing /\ w'.at = "recording" /\ w'.result = w.result /\ w'.sig = w.sig
            /\ w'.shield = w.shield /\ w'.term = w.term /\ w'.got = w.got
  <2>1. CASE obs.writing
    <3>1. w' = [Ends("error") EXCEPT !.err = TRUE, !.result = "error"]
      BY <2>1 DEF WorkerRaised, Ends
    <3> QED
      BY <1>1, <2>1, <3>1 DEF Ends, Types, WorkerType, WorkerAt, Idle, Results
  <2>2. CASE ~obs.writing
    <3>1. w' = [w EXCEPT !.at = "recording", !.err = TRUE]
      BY <2>2 DEF WorkerRaised
    <3> QED
      BY <1>1, <2>2, <3>1 DEF Types, WorkerType, WorkerAt, Ending
  <2> QED
  BY <2>1, <2>2
<1>7. Types'
  BY <1>1, <1>2, <1>3, <1>4, <1>5, <1>6 DEF Types, Ending, Idle, WorkerRaised, Running
<1>8. RawType'
  BY <1>1, <1>2, <1>3 DEF RawType
<1>9. ObsType'
  BY <1>1, <1>2, <1>3, <1>4, <1>5, <1>6
  DEF ObsType, Noted, Setup, Ending, Idle, Reading, Terminals
<1>10. TaskInv'
  BY <1>1, <1>2, <1>3, <1>4, <1>5, <1>6
  DEF TaskInv, Noted, Setup, Ending, Idle, Reading, Terminals
<1>11. StreamInv'
  BY <1>1, <1>2, <1>3, <1>4, <1>5, <1>6
  DEF StreamInv, TaskInv, Noted, Setup, Ending, Idle, Reading, Terminals
<1>12. SessionInv'
  BY <1>1, <1>2, <1>3, <1>4, <1>5, <1>6
  DEF SessionInv, TaskInv, Noted, Cancelling, Setup, Ending, Idle, Reading, Terminals
<1>13. RecordInv'
  BY <1>1, <1>2, <1>3, <1>4, <1>5, <1>6
  DEF RecordInv, SessionInv, ObsType, Noted, Cancelling, Setup, Ending, Idle, Reading,
      Terminals
<1>14. DecisionInv'
  BY <1>1, <1>2, <1>3, <1>4, <1>5, <1>6
  DEF DecisionInv, RawType, SessionInv, Noted, Dispositions, NoDecision, Cancelling, Setup,
      Ending, Idle, Reading, Terminals
<1>15. DoneInv'
  BY <1>1, <1>2, <1>3, <1>4, <1>5, <1>6
  DEF DoneInv, TaskInv, SessionInv, RecordInv, Noted, Down, Cancelling, Setup, Ending, Idle,
      Reading, Terminals
<1>16. AnswerInv'
  BY <1>1, <1>2, <1>3, <1>4, <1>5, <1>6
  DEF AnswerInv, TaskInv, Noted, Setup, Ending, Idle, Reading, Terminals
<1> QED
  BY <1>7, <1>8, <1>9, <1>10, <1>11, <1>12, <1>13, <1>14, <1>15, <1>16 DEF IndInv

(* Another connection cancels the response.                                *)
LEMMA OtherCancelKeeps ==
    ASSUME IndInv, OtherCancel, ~Undisturbed
    PROVE  IndInv'
<1>1. Types /\ RawType /\ ObsType /\ TaskInv /\ StreamInv /\ SessionInv /\ RecordInv
      /\ DecisionInv /\ DoneInv /\ AnswerInv
  BY DEF IndInv
<1>2. UNCHANGED <<kind, client, h, outer, d, w, lease, job, n, reg, lost>>
  BY DEF OtherCancel, CallCancel, tasks, session
<1>3. Sse' = Sse /\ Responses' = Responses /\ Race' = Race
      /\ (Race = "plain" => ~Sse) /\ (Race = "setup" => Sse)
  BY <1>2 DEF Sse, Responses, Race, Anthropic
<1>4. Responses /\ Sse /\ reg = "active" /\ n > 0 /\ other = "none"
      /\ other' = After(CancelReach)
  BY <1>1 DEF OtherCancel, CallCancel, Types, WorkerType, HandlerType
<1>5. h.at = "over"
  BY <1>1, <1>4 DEF StreamInv, Types
<1>6. /\ stateful' = (stateful \/ Responses)
      /\ ctl' \in [reason : Reasons, asked : BOOLEAN, over : BOOLEAN] /\ raw' \in RawRecord
      /\ raw'.pending = raw.pending /\ raw'.terminal = raw.terminal
      /\ raw'.ev = raw.ev /\ raw'.decision = raw.decision
         /\ (raw.cancelled => raw'.cancelled)
      /\ \/ /\ other' = "done" /\ raw' = raw /\ ctl' = ctl /\ obs' = obs
            /\ (Responses /\ stateful) \/ obs.status # "none"
         \/ /\ other' = "recording" /\ ctl' = ctl /\ obs.status = "none"
               /\ Noted("cancelled")
            /\ raw.terminal \/ raw.cancelled \/ ctl.over \/ ctl.asked
         \/ /\ other' = "cancelling" /\ obs.status = "none" /\ obs' = obs /\ raw'.cancelled
            /\ ctl'.asked /\ ctl'.over = ctl.over /\ ~ctl.over /\ ~ctl.asked
  <2>1. CallCancel(CancelReach) /\ other' = After(CancelReach)
  BY DEF OtherCancel
  <2>2. CancelReach = "skip" \/ CancelReach = "record" \/ CancelReach = "await"
  BY DEF CancelReach
  <2>3. CASE CancelReach = "skip"
  BY <1>1, <2>1, <2>3, CallCancelIs DEF After, Types, RawType
  <2>4. CASE CancelReach = "record"
  BY <1>1, <2>1, <2>4, CallCancelIs DEF After, Types
  <2>5. CASE CancelReach = "await"
  BY <1>1, <2>1, <2>5, CallCancelIs DEF After
  <2> QED
  BY <2>2, <2>3, <2>4, <2>5
<1>7. Types'
  BY <1>1, <1>2, <1>3, <1>4, <1>5, <1>6 DEF Types, Ending, Idle, OtherCancel, CallCancel
<1>8. RawType'
  BY <1>1, <1>2, <1>3, <1>4, <1>5, <1>6
  DEF RawType, Noted, Setup, Ending, Idle, Reading, Terminals
<1>9. ObsType'
  BY <1>1, <1>2, <1>3, <1>4, <1>5, <1>6
  DEF ObsType, Noted, Setup, Ending, Idle, Reading, Terminals
<1>10. TaskInv'
  BY <1>1, <1>2, <1>3 DEF TaskInv
<1>11. StreamInv'
  BY <1>1, <1>2, <1>3, <1>4, <1>5, <1>6
  DEF StreamInv, TaskInv, Noted, Setup, Ending, Idle, Reading, Terminals
<1>12. SessionInv'
  BY <1>1, <1>2, <1>3, <1>4, <1>5, <1>6
  DEF SessionInv, TaskInv, RecordInv, Noted, Cancelling, Setup, Ending, Idle, Reading,
      Terminals
<1>13. RecordInv'
  <2>1. job # "none" /\ w.at \notin Setup \cup {"none"}
  BY <1>1, <1>4, <1>5 DEF SessionInv, TaskInv, Setup
  <2>2. CASE obs' = obs /\ other' # "recording"
  BY <1>1, <1>2, <1>4, <2>1, <2>2 DEF RecordInv
  <2>3. CASE other' = "recording" /\ obs.status = "none" /\ Noted("cancelled")
    <3>1. ~obs.writing /\ obs.records = <<>> /\ Len(<<>>) = 0 /\ DOMAIN <<>> = {}
      BY <1>1, <2>1, <2>3 DEF RecordInv
    <3> QED
      BY <1>1, <1>2, <2>1, <2>3, <3>1 DEF RecordInv, Noted, Setup
  <2> QED
  BY <1>6, <2>2, <2>3
<1>14. DecisionInv'
  BY <1>1, <1>2, <1>3, <1>4, <1>5, <1>6
  DEF DecisionInv, RawType, SessionInv, Noted, Dispositions, NoDecision, Cancelling, Setup,
      Ending, Idle, Reading, Terminals
<1>15. DoneInv'
  BY <1>1, <1>2, <1>3, <1>4, <1>5, <1>6
  DEF DoneInv, TaskInv, SessionInv, Noted, Down, Cancelling, Setup, Ending, Idle, Reading,
      Terminals
<1>16. AnswerInv'
  BY <1>1, <1>2, <1>3 DEF AnswerInv
<1> QED
  BY <1>7, <1>8, <1>9, <1>10, <1>11, <1>12, <1>13, <1>14, <1>15, <1>16 DEF IndInv

(* The worker calls session.cancel().                                      *)
LEMMA WorkerCancelKeeps ==
    ASSUME IndInv, WorkerCancel
    PROVE  IndInv'
<1>1. Types /\ RawType /\ ObsType /\ TaskInv /\ StreamInv /\ SessionInv /\ RecordInv
      /\ DecisionInv /\ DoneInv /\ AnswerInv
  BY DEF IndInv
<1>2. UNCHANGED <<kind, client, h, outer, d, other, lease, job, n, lost>>
  BY DEF WorkerCancel, Running, CallCancel, tasks, session
<1>3. Sse' = Sse /\ Responses' = Responses /\ Race' = Race
      /\ (Race = "plain" => ~Sse) /\ (Race = "setup" => Sse)
  BY <1>2 DEF Sse, Responses, Race, Anthropic
<1>4. w.at = "cancel" /\ ~w.sig
  BY <1>1 DEF WorkerCancel, Running, CallCancel, Types, WorkerType, HandlerType
<1>5. /\ stateful' \in BOOLEAN /\ (stateful => stateful')
      /\ ctl' \in [reason : Reasons, asked : BOOLEAN, over : BOOLEAN] /\ raw' \in RawRecord
      /\ raw'.pending = raw.pending /\ raw'.terminal = raw.terminal
      /\ raw'.ev = raw.ev /\ raw'.decision = raw.decision
         /\ (raw.cancelled => raw'.cancelled)
      /\ \/ /\ WorkerEnds /\ raw' = raw /\ ctl' = ctl /\ obs' = obs
            /\ (w.term /\ stateful' = stateful) \/ stateful \/ obs.status # "none"
         \/ /\ w' = [w EXCEPT !.at = "recording"] /\ reg' = reg /\ ~w.term
            /\ ctl' = ctl /\ obs.status = "none" /\ Noted("cancelled")
            /\ raw.terminal \/ raw.cancelled \/ ctl.over \/ ctl.asked
         \/ /\ w' = [w EXCEPT !.at = "cancelling"] /\ reg' = reg
            /\ obs.status = "none" /\ obs' = obs /\ raw'.cancelled
            /\ ctl'.asked /\ ctl'.over = ctl.over /\ ~ctl.over /\ ~ctl.asked
  <2>1. CASE w.term
    <3>1. WorkerEnds /\ stateful' = stateful /\ raw' = raw /\ ctl' = ctl /\ obs' = obs
      BY <2>1 DEF WorkerCancel, session
    <3> QED
      BY <1>1, <2>1, <3>1 DEF Types, RawType
  <2>2. CASE ~w.term
    <3>1. /\ CallCancel(CancelReach)
          /\ IF CancelReach = "skip" THEN WorkerEnds
             ELSE w' = [w EXCEPT !.at = After(CancelReach)] /\ reg' = reg
      BY <2>2 DEF WorkerCancel, Go
    <3>2. CancelReach = "skip" \/ CancelReach = "record" \/ CancelReach = "await"
      BY DEF CancelReach
    <3>3. CASE CancelReach = "skip"
      BY <1>1, <3>1, <3>3, CallCancelIs DEF Types, RawType
    <3>4. CASE CancelReach = "record"
      BY <1>1, <2>2, <3>1, <3>4, CallCancelIs DEF After, Types
    <3>5. CASE CancelReach = "await"
      BY <1>1, <3>1, <3>5, CallCancelIs DEF After
    <3> QED
      BY <3>2, <3>3, <3>4, <3>5
  <2> QED
  BY <2>1, <2>2
<1>6. /\ w' \in WorkerType
      /\ \/ /\ reg' \in {"none", "gone"} /\ raw' = raw /\ ctl' = ctl /\ obs' = obs
            /\ (w.term /\ stateful' = stateful) \/ stateful \/ obs.status # "none"
            /\ \/ w.shield /\ w'.at = "done" /\ ~w'.sig /\ ~w'.shield
                  /\ w'.term = w.term /\ w'.got = w.got /\ w'.result = w.result
               \/ ~w.shield /\ Ended({"error", "cancelled"})
         \/ /\ w'.at = "recording" /\ reg' = reg /\ ~w.term
            /\ ctl' = ctl /\ obs.status = "none" /\ Noted("cancelled")
            /\ raw.terminal \/ raw.cancelled \/ ctl.over \/ ctl.asked
            /\ w'.result = w.result /\ w'.sig = w.sig /\ w'.shield = w.shield
               /\ w'.term = w.term /\ w'.got = w.got /\ w'.err = w.err
         \/ /\ w'.at = "cancelling" /\ reg' = reg
            /\ obs.status = "none" /\ obs' = obs /\ raw'.cancelled
            /\ ctl'.asked /\ ctl'.over = ctl.over /\ ~ctl.over /\ ~ctl.asked
            /\ w'.result = w.result /\ w'.sig = w.sig /\ w'.shield = w.shield
               /\ w'.term = w.term /\ w'.got = w.got /\ w'.err = w.err
  <2>1. w \in WorkerType
  BY <1>1 DEF Types
  <2>2. CASE /\ WorkerEnds /\ raw' = raw /\ ctl' = ctl /\ obs' = obs
             /\ (w.term /\ stateful' = stateful) \/ stateful \/ obs.status # "none"
  BY <1>1, <2>2, WorkerEndsIs DEF Ended
  <2>3. CASE /\ w' = [w EXCEPT !.at = "recording"] /\ reg' = reg /\ ~w.term
             /\ ctl' = ctl /\ obs.status = "none" /\ Noted("cancelled")
             /\ raw.terminal \/ raw.cancelled \/ ctl.over \/ ctl.asked
    <3>1. w' \in WorkerType /\ w'.at = "recording" /\ w'.result = w.result
    /\ w'.sig = w.sig /\ w'.shield = w.shield /\ w'.term = w.term /\ w'.got = w.got
       /\ w'.err = w.err
      BY <2>1, <2>3 DEF WorkerType, WorkerAt, Ending
    <3> QED
      BY <2>3, <3>1
  <2>4. CASE /\ w' = [w EXCEPT !.at = "cancelling"] /\ reg' = reg
             /\ obs.status = "none" /\ obs' = obs /\ raw'.cancelled
             /\ ctl'.asked /\ ctl'.over = ctl.over /\ ~ctl.over /\ ~ctl.asked
    <3>1. w' \in WorkerType /\ w'.at = "cancelling" /\ w'.result = w.result
    /\ w'.sig = w.sig /\ w'.shield = w.shield /\ w'.term = w.term /\ w'.got = w.got
       /\ w'.err = w.err
      BY <2>1, <2>4 DEF WorkerType, WorkerAt, Ending
    <3> QED
      BY <2>4, <3>1
  <2> QED
  BY <1>5, <2>2, <2>3, <2>4
<1>7. w' \in WorkerType
  BY <1>1, <1>2, <1>3, <1>4, <1>5, <1>6 DEF Noted, Ended
<1>8. Types'
  BY <1>1, <1>2, <1>3, <1>4, <1>5, <1>6, <1>7
  DEF Types, Ending, Idle, WorkerCancel, Running, CallCancel
<1>9. RawType'
  BY <1>1, <1>2, <1>3, <1>4, <1>5, <1>6
  DEF RawType, Noted, Ended, Setup, Ending, Idle, Reading, Terminals
<1>10. ObsType'
  BY <1>1, <1>2, <1>3, <1>4, <1>5, <1>6
  DEF ObsType, Noted, Ended, Setup, Ending, Idle, Reading, Terminals
<1>11. TaskInv'
  BY <1>1, <1>2, <1>3, <1>4, <1>5, <1>6
  DEF TaskInv, Noted, Ended, Setup, Ending, Idle, Reading, Terminals
<1>12. StreamInv'
  BY <1>1, <1>2, <1>3, <1>4, <1>5, <1>6
  DEF StreamInv, TaskInv, Noted, Ended, Setup, Ending, Idle, Reading, Terminals
<1>13. SessionInv'
  BY <1>1, <1>2, <1>3, <1>4, <1>5, <1>6
  DEF SessionInv, TaskInv, RecordInv, DecisionInv, Noted, Ended, Cancelling, Dispositions,
      NoDecision, Setup, Ending, Idle, Reading, Terminals
<1>14. RecordInv'
  BY <1>1, <1>2, <1>3, <1>4, <1>5, <1>6
  DEF RecordInv, SessionInv, ObsType, Noted, Ended, Cancelling, Setup, Ending, Idle,
      Reading, Terminals
<1>15. DecisionInv'
  BY <1>1, <1>2, <1>3, <1>4, <1>5, <1>6
  DEF DecisionInv, RawType, SessionInv, Noted, Ended, Dispositions, NoDecision, Cancelling,
      Setup, Ending, Idle, Reading, Terminals
<1>16. DoneInv'
  BY <1>1, <1>2, <1>3, <1>4, <1>5, <1>6
  DEF DoneInv, TaskInv, SessionInv, DecisionInv, StreamInv, Noted, Ended, Down, Cancelling,
      Dispositions, NoDecision, Setup, Ending, Idle, Reading, Terminals
<1>17. AnswerInv'
  BY <1>1, <1>2, <1>3, <1>4, <1>5, <1>6
  DEF AnswerInv, TaskInv, Noted, Ended, Setup, Ending, Idle, Reading, Terminals
<1> QED
  BY <1>8, <1>9, <1>10, <1>11, <1>12, <1>13, <1>14, <1>15, <1>16, <1>17 DEF IndInv

(* The reader takes an event, the last one through the observer.           *)
LEMMA TakeKeeps ==
    ASSUME IndInv, Take
    PROVE  IndInv'
<1>1. Types /\ RawType /\ ObsType /\ TaskInv /\ StreamInv /\ SessionInv /\ RecordInv
      /\ DecisionInv /\ DoneInv /\ AnswerInv
  BY DEF IndInv
<1>2. UNCHANGED <<kind, client, h, outer, d, other, ctl, lease, job, n, stateful, reg,
                  lost>>
  BY DEF Take, Running, tasks, session
<1>3. Sse' = Sse /\ Responses' = Responses /\ Race' = Race
      /\ (Race = "plain" => ~Sse) /\ (Race = "setup" => Sse)
  BY <1>2 DEF Sse, Responses, Race, Anthropic
<1>4. w.at = "read" /\ ~w.sig /\ raw.pending # <<>>
  BY <1>1 DEF Take, Running, Types, WorkerType, HandlerType
<1>5. Head(raw.pending) \in RawKinds /\ Head(raw.pending) = raw.pending[1]
      /\ 1 \in DOMAIN raw.pending
  BY <1>1, <1>4 DEF RawType, RawRecord
<1>6. /\ raw' \in RawRecord /\ raw'.pending = Tail(raw.pending)
      /\ raw'.terminal = raw.terminal /\ raw'.cancelled = raw.cancelled
      /\ raw'.ev = raw.ev /\ raw'.decision = raw.decision
  BY <1>1, <1>4, HeadTailProperties DEF Take, RawType, RawRecord
<1>7. /\ Len(raw.pending) \in Nat \ {0} /\ Len(raw'.pending) = Len(raw.pending) - 1
      /\ DOMAIN raw.pending = 1..Len(raw.pending)
         /\ DOMAIN raw'.pending = 1..Len(raw'.pending)
      /\ \A i \in DOMAIN raw'.pending :
            i + 1 \in DOMAIN raw.pending /\ raw'.pending[i] = raw.pending[i + 1]
  BY <1>1, <1>4, <1>6, HeadTailProperties DEF RawType, RawRecord
<1>8. LET e == Head(raw.pending)
      IN  \/ /\ obs.status = "none" /\ e \in Terminals
             /\ obs' \in ObsRecord /\ obs'.writing /\ obs'.records = obs.records
             /\ obs'.status = e /\ obs'.active = obs.active - 1
             /\ w' = [w EXCEPT !.at = "capture", !.got = e]
          \/ /\ e \in Terminals => obs.status # "none"
             /\ obs' = obs /\ w' = Deliver(e)
  <2> DEFINE e == Head(raw.pending)
             o == IF e \in Terminals THEN Finalize(obs, e) ELSE obs
  <2>1. IF o.status # "none" /\ ~obs.writing
        THEN obs' = BeginCapture(o) /\ w' = [w EXCEPT !.at = "capture", !.got = e]
        ELSE obs' = o /\ w' = Deliver(e)
  BY DEF Take
  <2>2. obs \in ObsRecord /\ (obs.writing <=> obs.status # "none")
  BY <1>1, <1>4 DEF ObsType, RecordInv, SessionInv, Reading
  <2> HIDE DEF e
  <2>3. CASE e \in Terminals /\ obs.status = "none"
    <3>1. o \in ObsRecord /\ o.status = e /\ o.active = obs.active - 1
    /\ o.records = obs.records
      BY <2>2, <2>3, FinalizeIs
    <3>2. e # "none"
      BY <2>3 DEF Terminals
    <3>3. obs' = BeginCapture(o) /\ w' = [w EXCEPT !.at = "capture", !.got = e]
      BY <2>1, <2>2, <2>3, <3>1, <3>2
    <3> QED
      BY <2>3, <3>1, <3>3, BeginCaptureIs DEF e
  <2>4. CASE e \notin Terminals \/ obs.status # "none"
    <3>1. o = obs
      BY <2>2, <2>4, FinalizeIs
    <3> QED
      BY <2>1, <2>2, <2>4, <3>1 DEF e
  <2> QED
  BY <2>3, <2>4
<1>9. /\ w' \in WorkerType /\ obs' \in ObsRecord /\ w'.got = raw.pending[1]
      /\ w'.result = w.result /\ w'.sig = w.sig /\ w'.shield = w.shield
      /\ \/ /\ obs.status = "none" /\ raw.pending[1] \in Terminals
            /\ obs'.writing /\ obs'.records = obs.records
            /\ obs'.status = raw.pending[1] /\ obs'.active = obs.active - 1
            /\ w'.at = "capture" /\ w'.term = w.term
         \/ /\ raw.pending[1] \in Terminals => obs.status # "none"
            /\ obs' = obs /\ w'.at \in {"read", "send"} /\ (w'.at = "send" => Sse)
            /\ w'.term => w.term \/ raw.pending[1] \in Terminals
  <2> DEFINE e == raw.pending[1]
  <2>1. w \in WorkerType /\ e \in RawKinds /\ obs \in ObsRecord
  BY <1>1, <1>5 DEF Types, ObsType
  <2> HIDE DEF e
  <2>2. CASE w' = [w EXCEPT !.at = "capture", !.got = e]
    <3>1. w' \in WorkerType /\ w'.got = e /\ w'.at = "capture" /\ w'.term = w.term
          /\ w'.result = w.result /\ w'.sig = w.sig /\ w'.shield = w.shield
      BY <2>1, <2>2 DEF WorkerType, WorkerAt, Reading
    <3>2. w' # Deliver(e) \/ w'.at \in {"read", "send"}
      BY <2>1, DeliverIs
    <3> QED
      BY <1>5, <1>8, <2>1, <3>1, <3>2 DEF e
  <2>3. CASE w' = Deliver(e) /\ obs' = obs /\ (e \in Terminals => obs.status # "none")
  BY <2>1, <2>3, DeliverIs DEF e
  <2> QED
  BY <1>5, <1>8, <2>2, <2>3 DEF e
<1>10. Types'
  BY <1>1, <1>2, <1>3, <1>4, <1>5, <1>6, <1>7, <1>8, <1>9 DEF Types, Ending, Idle, Take,
      Running
<1>11. RawType'
  BY <1>1, <1>2, <1>3, <1>4, <1>5, <1>6, <1>7, <1>8, <1>9
  DEF RawType, Setup, Ending, Idle, Reading, Terminals
<1>12. ObsType'
  BY <1>1, <1>2, <1>3, <1>4, <1>5, <1>6, <1>7, <1>8, <1>9
  DEF ObsType, Setup, Ending, Idle, Reading, Terminals
<1>13. TaskInv'
  BY <1>1, <1>2, <1>3, <1>4, <1>5, <1>6, <1>7, <1>8, <1>9
  DEF TaskInv, Setup, Ending, Idle, Reading, Terminals
<1>14. StreamInv'
  BY <1>1, <1>2, <1>3, <1>4, <1>5, <1>6, <1>7, <1>8, <1>9
  DEF StreamInv, TaskInv, Setup, Ending, Idle, Reading, Terminals
<1>15. SessionInv'
  BY <1>1, <1>2, <1>3, <1>4, <1>5, <1>6, <1>7, <1>8, <1>9
  DEF SessionInv, TaskInv, DecisionInv, Cancelling, Dispositions, NoDecision, Setup, Ending,
      Idle, Reading, Terminals
<1>16. RecordInv'
  BY <1>1, <1>2, <1>3, <1>4, <1>5, <1>6, <1>7, <1>8, <1>9
  DEF RecordInv, SessionInv, ObsType, StreamInv, Cancelling, Setup, Ending, Idle, Reading,
      Terminals
<1>17. DecisionInv'
  BY <1>1, <1>2, <1>3, <1>4, <1>5, <1>6, <1>7, <1>8, <1>9
  DEF DecisionInv, RawType, SessionInv, RecordInv, Dispositions, NoDecision, Cancelling,
      Setup, Ending, Idle, Reading, Terminals
<1>18. DoneInv'
  BY <1>1, <1>2, <1>3, <1>4, <1>5, <1>6, <1>7, <1>8, <1>9
  DEF DoneInv, TaskInv, SessionInv, Down, Cancelling, Setup, Ending, Idle, Reading,
      Terminals
<1>19. AnswerInv'
  BY <1>1, <1>2, <1>3, <1>4, <1>5, <1>6, <1>7, <1>8, <1>9
  DEF AnswerInv, TaskInv, Setup, Ending, Idle, Reading, Terminals
<1> QED
  BY <1>10, <1>11, <1>12, <1>13, <1>14, <1>15, <1>16, <1>17, <1>18, <1>19 DEF IndInv

-----------------------------------------------------------------------------
(* An exchange begins with nothing.                                        *)
LEMMA InitKeeps ==
    ASSUME Init
    PROVE  IndInv
<1>1. Len(<<>>) = 0 /\ DOMAIN <<>> = {} /\ <<>> \in Seq(RawKinds) /\ <<>> \in Seq(Statuses)
  OBVIOUS
<1>2. NoEvidence \in EvidenceType
      /\ NoDecision \in [disp : Dispositions \cup {"none"}, owner : Owners, err : Errors]
  BY DEF NoEvidence, NoDecision, EvidenceType, Owners, Errors
<1>3. RawType
  BY <1>1, <1>2 DEF Init, NewRaw, RawType, RawRecord
<1>4. ObsType
  BY <1>1 DEF Init, ObsType, ObsRecord, Statuses
<1>5. h \in HandlerType /\ w \in WorkerType
  BY DEF Init, HandlerType, HandlerAt, WorkerType, WorkerAt, Results, Idle
<1>6. ctl \in [reason : Reasons, asked : BOOLEAN, over : BOOLEAN] /\ n \in 0..MaxDeltas
  BY ExchangeAssumption DEF Init, Reasons
<1>7. Types
  BY <1>5, <1>6 DEF Init, Types, Idle
<1>8. TaskInv /\ StreamInv /\ SessionInv
  BY DEF Init, TaskInv, StreamInv, SessionInv, Cancelling, NewRaw, Setup, Ending, Idle, Reading
<1>9. RecordInv
  BY <1>1 DEF Init, RecordInv, Setup
<1>10. DecisionInv
  BY <1>1 DEF Init, DecisionInv, NewRaw, Terminals
<1>11. DoneInv /\ AnswerInv
  BY DEF Init, DoneInv, AnswerInv
<1> QED
  BY <1>3, <1>4, <1>7, <1>8, <1>9, <1>10, <1>11 DEF IndInv

(* A step of no task.                                                      *)
LEMMA StutterKeeps ==
    ASSUME IndInv, UNCHANGED vars
    PROVE  IndInv'
<1>1. UNCHANGED <<kind, client, h, outer, d, w, other, ctl, lease, job, n, raw, stateful, obs,
                  reg, lost>>
  BY DEF vars
<1>2. Sse' = Sse /\ Responses' = Responses /\ Race' = Race
  BY <1>1 DEF Sse, Responses, Race, Anthropic
<1>3. Types' /\ RawType' /\ ObsType'
  BY <1>1 DEF IndInv, Types, RawType, ObsType
<1>4. TaskInv' /\ StreamInv' /\ SessionInv'
  BY <1>1, <1>2 DEF IndInv, TaskInv, StreamInv, SessionInv, Cancelling
<1>5. RecordInv' /\ DecisionInv' /\ DoneInv' /\ AnswerInv'
  BY <1>1, <1>2 DEF IndInv, RecordInv, DecisionInv, DoneInv, AnswerInv, Down, Cancelling
<1> QED
  BY <1>3, <1>4, <1>5 DEF IndInv

(* What the worker does between two awaits.                                *)
LEMMA SynchronousKeeps ==
    ASSUME IndInv, Synchronous
    PROVE  IndInv'
BY TakeKeeps, ExhaustedKeeps, WorkerCancelKeeps DEF Synchronous

(* The handler's races.                                                    *)
LEMMA HandlerKeeps ==
    ASSUME IndInv, ~Undisturbed, HandlerStep
    PROVE  IndInv'
BY YieldOverKeeps, WaitOverKeeps, DropOverKeeps, CleanOverKeeps, ReapOverKeeps, RecleanOverKeeps,
   AbortedOverKeeps DEF HandlerStep

(* The worker, from its start to the end of the stream.                    *)
LEMMA WorkerKeeps ==
    ASSUME IndInv, ~Undisturbed, WorkerStep
    PROVE  IndInv'
<1>1. CASE Start \/ Pin \/ Acquire \/ Render \/ Submit \/ Register \/ Rejected
  BY <1>1, StartKeeps, PinKeeps, AcquireKeeps, RenderKeeps, SubmitKeeps, RegisterKeeps,
     RejectedKeeps
<1>2. CASE Captured \/ Sent \/ BodyStarts \/ WorkerStopped \/ WorkerRecorded
  BY <1>2, CapturedKeeps, SentKeeps, BodyStartsKeeps, WorkerStoppedKeeps, WorkerRecordedKeeps
<1>3. CASE CancelledInSetup \/ CancelledInHand \/ CancelledInRead \/ CancelledInCancel
  BY <1>3, CancelledInSetupKeeps, CancelledInHandKeeps, CancelledInReadKeeps,
     CancelledInCancelKeeps
<1>4. CASE \E e \in RuntimeEnds \cup {"started", "delta"} : RuntimeNext(e)
  BY <1>4, RuntimeNextKeeps
<1> QED
  BY <1>1, <1>2, <1>3, <1>4 DEF WorkerStep

(* Every step of every task, and of what cancels it.                       *)
LEMMA NextKeeps ==
    ASSUME IndInv, [Next]_vars
    PROVE  IndInv'
<1>1. CASE Synchronous
  BY <1>1, SynchronousKeeps
<1>2. CASE ~Undisturbed /\ Elsewhere
  <2>1. CASE Parse \/ HandlerStep \/ WorkerStep
    BY <1>2, <2>1, ParseKeeps, HandlerKeeps, WorkerKeeps
  <2>2. CASE OtherStep \/ OtherCancel \/ OtherRaised \/ WorkerRaised
    BY <1>2, <2>2, OtherStoppedKeeps, OtherRecordedKeeps, OtherCancelKeeps, OtherRaisedKeeps,
       WorkerRaisedKeeps DEF OtherStep
  <2>3. CASE ClientLeaves \/ DisconnectSeen \/ OuterCancel
    BY <1>2, <2>3, ClientLeavesKeeps, DisconnectSeenKeeps, OuterCancelKeeps
  <2>4. CASE BodyForgotten \/ BodyCancelled
    BY <1>2, <2>4, BodyForgottenKeeps, BodyCancelledKeeps
  <2>5. CASE \E r \in {"timeout", "server_shutdown"} : CtlAborts(r)
    BY <1>2, <2>5, CtlAbortsKeeps
  <2> QED
    BY <1>2, <2>1, <2>2, <2>3, <2>4, <2>5 DEF Elsewhere
<1>3. CASE UNCHANGED vars
  BY <1>3, StutterKeeps
<1> QED
  BY <1>1, <1>2, <1>3 DEF Next

(* What the tasks of an exchange may assume of each other holds throughout *)
(* it, whatever is cancelled when and however runtime.cancel() and the     *)
(* capture write end (api.py, disconnect.py, observer.py, raw.py).         *)
THEOREM Invariance == Spec => []IndInv
<1>1. Init => IndInv
  BY InitKeeps
<1>2. IndInv /\ [Next]_vars => IndInv'
  BY NextKeeps
<1> QED
  BY <1>1, <1>2, PTL DEF Spec

(* Every variable keeps to its values: a task is always at one of its      *)
(* awaits, a lease is held, free or was never given.                       *)
THEOREM TypesCorrect == Spec => []TypeOK
<1>1. IndInv => TypeOK
  BY DEF IndInv, Types, TypeOK, HandlerType, WorkerType, HandlerAt, WorkerAt, Results, Reading
<1> QED
  BY <1>1, Invariance, PTL

(* When the handler, the worker and a cancel call from another connection  *)
(* are over, nothing is left of the exchange: no lease, no running job, no *)
(* active request in the gauge, no registration; whatever order the client *)
(* leaving, the application cancelling, the deadline and the runtime came  *)
(* in (api.py:138-392, disconnect.py:46-72, observer.py:431-441).          *)
THEOREM NothingLeftCorrect == Spec => []NothingLeftBehind
<1>1. IndInv => NothingLeftBehind
  <2> SUFFICES ASSUME IndInv, Settled, lost = {}
               PROVE  /\ lease \in {"none", "free"} /\ job # "running"
                      /\ obs.active = 0
                      /\ reg \in {"none", "gone"}
    BY DEF NothingLeftBehind
  <2>1. Types /\ TaskInv /\ SessionInv /\ RecordInv /\ DoneInv
    BY DEF IndInv
  <2>2. h.at = "over" /\ ~Cancelling /\ w.at \in {"none", "done"}
    BY DEF Settled, Cancelling, Idle
  <2>3. CASE w.at = "none"
    BY <2>1, <2>2, <2>3 DEF SessionInv, RecordInv
  <2>4. CASE w.at = "done" /\ job = "none"
    BY <2>1, <2>2, <2>4 DEF Types, SessionInv, RecordInv, DoneInv, Down
  <2>5. CASE w.at = "done" /\ Down
    BY <2>1, <2>2, <2>5 DEF SessionInv, RecordInv, Down
  <2> QED
    BY <2>1, <2>2, <2>3, <2>4, <2>5 DEF DoneInv
<1> QED
  BY <1>1, Invariance, PTL

(* The gauge of active requests and the one capture record of a request    *)
(* agree with its status, and the status with what happened to the         *)
(* session, whoever of the reader, its own cancel and the cancel of        *)
(* another connection finished it (observer.py:410-484, 499-525).          *)
THEOREM ObservedCorrect == Spec => []ObservedOnce
<1>1. IndInv => ObservedOnce
  <2> SUFFICES ASSUME IndInv PROVE ObservedOnce
    OBVIOUS
  <2>1. RecordInv /\ DecisionInv
    BY DEF IndInv
  <2>2. w.term => ~(w.at \in Ending \cup {"done"} /\ ~w.term)
    OBVIOUS
  <2> QED
    BY <2>1, <2>2 DEF RecordInv, DecisionInv, ObservedOnce
<1> QED
  BY <1>1, Invariance, PTL

(* A client that leaves in the turn the work is done: a finished answer is *)
(* still returned, a session that was only set up is never handed to a     *)
(* stream (disconnect.py:35-40, api.py:138-174).                           *)
THEOREM TieCorrect == Spec => []TieIsDecided
<1>1. IndInv => TieIsDecided
  BY DEF IndInv, StreamInv, AnswerInv, TieIsDecided
<1> QED
  BY <1>1, Invariance, PTL
=============================================================================
