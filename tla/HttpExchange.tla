---------------------------- MODULE HttpExchange ----------------------------
(***************************************************************************)
(* One HTTP exchange of a generation endpoint, from the parsed body to the *)
(* end of the answer (protocol/openai/api.py, protocol/anthropic/api.py,   *)
(* protocol/disconnect.py), over the observed session (observability/      *)
(* observer.py) of a raw completion (serving/raw.py).                      *)
(*                                                                         *)
(* Four tasks: the handler, the task the handler races against the         *)
(* client's disconnect, the task waiting for that disconnect, and, for     *)
(* /v1/responses, a cancel call from another connection.  The second one,  *)
(* "the worker", is followed through all its lives: it sets the session    *)
(* up, reads it for a JSON answer, or hands it over to the task that       *)
(* iterates the body of a stream, and it is the one that cleans up.  The   *)
(* web framework is external: a body it was given is iterated, cancelled   *)
(* when the client leaves, closed by a finalizer when it was suspended at  *)
(* a yield, and forgotten when it never started.                           *)
(*                                                                         *)
(* A step runs to the next await; a CancelledError is delivered at the     *)
(* await the task is suspended at, in place of what it waits for.          *)
(***************************************************************************)
EXTENDS RawSession, Integers

CONSTANTS
    Kinds,      \* the endpoints to explore
    MaxDeltas,  \* bound: non-terminal events of the runtime
    CaptureOn,  \* a capture sink is configured
    CancelMayFail  \* runtime.cancel() may raise

AllKinds == {"completions_json", "completions_sse", "responses_json", "responses_sse",
             "messages_json", "messages_sse"}

ASSUME ExchangeAssumption ==
    /\ Kinds \subseteq AllKinds /\ Kinds # {}
    /\ MaxDeltas \in Nat \ {0}
    /\ CaptureOn \in BOOLEAN /\ CancelMayFail \in BOOLEAN

VARIABLES
    kind,     \* the endpoint
    client,   \* "here" or "gone"
    h,        \* the handler: [at, out, handed, cleaned]
    outer,    \* the application cancelled the handler: "no", "yes"
    d,        \* the task waiting for http.disconnect
    w,        \* the worker: [at, result, sig, shield, term, got, err]
    other,    \* the cancel call of another connection
    ctl,      \* the controlled session: [reason, asked, over]
    lease,    \* the reservation of the request
    job,      \* the runtime session
    n,        \* non-terminal events it has yielded
    raw,      \* the RawSession
    stateful, \* cancel() of StatefulServingSession was called
    obs,      \* the ObservedServingSession and the metrics it moves
    reg,      \* registration and pins of a response
    lost      \* the ways out taken that the code does not provide for

vars == <<kind, client, h, outer, d, w, other, ctl, lease, job, n, raw, stateful, obs, reg, lost>>
tasks == <<h, outer, d>>
session == <<ctl, lease, job, n, raw, stateful>>

Sse == kind \in {"completions_sse", "responses_sse", "messages_sse"}
Responses == kind \in {"responses_json", "responses_sse"}
Anthropic == kind \in {"messages_json", "messages_sse"}

(* Which of the three races the endpoint runs.                             *)
Race == IF Anthropic THEN "shared" ELSE IF Sse THEN "setup" ELSE "plain"

Setup == {"start", "pin", "acquire", "render", "submit", "register", "rejected"}
Ending == {"cancel", "cancelling", "recording"}
Idle == {"none", "done"}

TypeOK ==
    /\ kind \in Kinds /\ client \in {"here", "gone"} /\ outer \in {"no", "yes"}
    /\ h.at \in {"parse", "yield", "wait", "drop", "clean", "reap", "aborted", "reclean", "over"}
    /\ h.out \in {"none", "value", "error", "cancelled"}
    /\ d \in {"none", "waiting", "done", "cancelled"}
    /\ w.at \in Setup \cup Ending \cup Idle
                  \cup {"unstarted", "read", "capture", "send", "finalize"}
    /\ w.result \in {"none", "value", "error", "cancelled"}
    /\ other \in Ending \cup Idle
    /\ lease \in {"none", "held", "free"}
    /\ job \in {"none", "running", "cancelled", "ended"}
    /\ n \in 0..MaxDeltas
    /\ reg \in {"none", "pinned", "active", "gone"}
    /\ lost \subseteq {"expired", "unstarted", "reap", "interrupted", "raised"}

Init ==
    /\ kind \in Kinds
    /\ client = "here" /\ outer = "no" /\ d = "none" /\ other = "none"
    /\ h = [at |-> "parse", out |-> "none", handed |-> FALSE, cleaned |-> FALSE]
    /\ w = [at |-> "none", result |-> "none", sig |-> FALSE, shield |-> FALSE,
            term |-> FALSE, got |-> "none", err |-> FALSE]
    /\ ctl = [reason |-> "none", asked |-> FALSE, over |-> FALSE]
    /\ lease = "none" /\ job = "none" /\ n = 0
    /\ raw = NewRaw /\ stateful = FALSE
    /\ obs = [rejected |-> 0, active |-> 0, status |-> "none", writing |-> FALSE, records |-> <<>>]
    /\ reg = "none" /\ lost = {}

-----------------------------------------------------------------------------
(* ObservedServingSession: the metrics and the one capture record.         *)

(* _finalize: the first call decides the status and lowers the gauge       *)
Finalize(o, status) ==
    IF o.status # "none" THEN o ELSE [o EXCEPT !.status = status, !.active = @ - 1]

(* _write_capture up to its await                                          *)
BeginCapture(o) == [o EXCEPT !.writing = TRUE]

(* The write is over; a sink that raised is only counted.                  *)
EndCapture(o, written) ==
    IF written THEN [o EXCEPT !.records = Append(@, o.status)] ELSE o

-----------------------------------------------------------------------------
(* The end of the worker's code, and what it leaves.                       *)

(* The result of a coroutine that fails while the session is taken down;   *)
(* a stream's generator simply ends.                                       *)
Ends(result) == [w EXCEPT !.at = "done", !.result = result, !.sig = FALSE, !.shield = FALSE,
                          !.got = "none"]

(* Registration and pins are given back by everything that ends a request  *)
(* but the finally block of a stream whose session.cancel() did not        *)
(* return.                                                                 *)
Abandon == reg' = IF reg \in {"pinned", "active"} THEN "gone" ELSE reg

-----------------------------------------------------------------------------
(* The handler: parsing, and the three races.                              *)

(* The body is read, parsed, and the model checked; the worker is created. *)
Parse ==
    /\ h.at = "parse"
    /\ \/ h' = [h EXCEPT !.at = "over", !.out = "error"] /\ UNCHANGED <<d, w>>
       \/ /\ h' = [h EXCEPT !.at = IF Race = "plain" THEN "yield" ELSE "wait"]
          /\ w' = [w EXCEPT !.at = "start"]
          /\ d' = IF Race = "plain" THEN d ELSE "waiting"
    /\ UNCHANGED <<kind, client, outer, other, session, obs, reg, lost>>

ClientLeaves ==
    /\ client = "here" /\ client' = "gone"
    /\ UNCHANGED <<kind, tasks, w, other, session, obs, reg, lost>>

(* _wait_for_disconnect returns.                                           *)
DisconnectSeen ==
    /\ d = "waiting" /\ client = "gone" /\ d' = "done"
    /\ UNCHANGED <<kind, client, h, outer, w, other, session, obs, reg, lost>>

(* The race enters its finally block: both tasks are cancelled if they     *)
(* still run, and gathered.                                                *)
Reap(out, handed, cleaned) ==
    /\ h' = [at |-> "reap", out |-> out, handed |-> handed, cleaned |-> cleaned]
    /\ d' = IF d = "waiting" THEN "cancelled" ELSE d

SignalWorker == w' = IF w.at = "done" THEN w ELSE [w EXCEPT !.sig = TRUE]

Unmoved == UNCHANGED <<kind, client, outer, other, session, obs, reg, lost>>

(* _race_nonstream_disconnect gives the worker one turn first.             *)
YieldOver ==
    /\ h.at = "yield"
    /\ IF w.at = "done" THEN Reap(w.result, TRUE, FALSE)
       ELSE h' = [h EXCEPT !.at = "wait"] /\ d' = "waiting"
    /\ UNCHANGED w /\ Unmoved

(* Faulty variant: a session that was just created wins the tie.           *)
BugWaitOver ==
    /\ h.at = "wait" /\ (w.at = "done" \/ d = "done")
    /\ IF w.at = "done" THEN UNCHANGED w /\ Reap(w.result, w.result = "value", FALSE)
       ELSE /\ SignalWorker /\ UNCHANGED d
            /\ h' = [h EXCEPT !.at = "drop"]
    /\ Unmoved

(* The worker or the disconnect is done, or both in the same turn.         *)
(* A finished answer wins; a session that was only set up does not: the    *)
(* shared race cancels it, the set-up race leaves it to its finally block. *)
WaitOver ==
    /\ h.at = "wait" /\ (w.at = "done" \/ d = "done")
    /\ CASE Race = "setup" /\ d = "done" -> SignalWorker /\ Reap("cancelled", FALSE, FALSE)
         [] Race # "setup" /\ w.at # "done" ->
                SignalWorker /\ UNCHANGED d /\ h' = [h EXCEPT !.at = "drop"]
         [] Race = "shared" /\ d = "done" /\ Sse /\ w.result = "value" ->
                /\ w' = [w EXCEPT !.at = "cancel", !.shield = TRUE] /\ UNCHANGED d
                /\ h' = [h EXCEPT !.at = "clean"]
         [] OTHER -> UNCHANGED w /\ Reap(w.result, w.result = "value", FALSE)
    /\ Unmoved

(* The worker was cancelled and is awaited.                                *)
DropOver ==
    /\ h.at = "drop" /\ w.at = "done"
    /\ Reap("cancelled", FALSE, FALSE) /\ UNCHANGED w
    /\ Unmoved

CleanOver ==
    /\ h.at = "clean" /\ w.at = "done"
    /\ Reap(IF w.err THEN "error" ELSE "cancelled", FALSE, ~w.err) /\ UNCHANGED w
    /\ Unmoved

(* Faulty variant: the finally block forgets a session nobody was given.   *)
BugReapOver ==
    /\ h.at = "reap" /\ w.at = "done" /\ d # "waiting"
    /\ IF Sse /\ h.handed
       THEN /\ h' = [h EXCEPT !.at = "over"]
            /\ w' = [w EXCEPT !.at = "unstarted"]
       ELSE /\ h' = [h EXCEPT !.at = "over"]
            /\ UNCHANGED w
    /\ UNCHANGED <<kind, client, outer, d, other, session, obs, reg, lost>>

(* Both tasks are done.  A session that was created and not handed off is  *)
(* cancelled; one that was goes to the body of the stream.                 *)
ReapOver ==
    /\ h.at = "reap" /\ w.at = "done" /\ d # "waiting"
    /\ LET orphan == Race # "plain" /\ ~h.handed /\ ~h.cleaned /\ w.result = "value" /\ Sse
       IN  CASE orphan ->
                  /\ h' = [h EXCEPT !.at = "reclean"]
                  /\ w' = [w EXCEPT !.at = "cancel", !.shield = TRUE]
             [] Sse /\ h.handed ->
                  /\ h' = [h EXCEPT !.at = "over"]
                  /\ w' = [w EXCEPT !.at = "unstarted"]
             [] OTHER -> h' = [h EXCEPT !.at = "over"] /\ UNCHANGED w
    /\ UNCHANGED <<kind, client, outer, d, other, session, obs, reg, lost>>

RecleanOver ==
    /\ h.at = "reclean" /\ w.at = "done"
    /\ h' = [h EXCEPT !.at = "over"]
    /\ UNCHANGED <<kind, client, outer, d, w, other, session, obs, reg, lost>>

(* The application cancels the handler.  The shielded clean-ups swallow    *)
(* it; in the last gather it skips what follows, the return value          *)
(* included.                                                               *)
OuterCancel ==
    /\ outer = "no" /\ outer' = "yes"
    /\ \/ /\ h.at \in {"yield", "wait"}
          /\ SignalWorker /\ Reap("cancelled", FALSE, FALSE) /\ UNCHANGED lost
       \/ h.at = "drop" /\ SignalWorker /\ UNCHANGED <<h, d, lost>>
       \/ h.at \in {"clean", "reclean"} /\ UNCHANGED <<h, d, w, lost>>
       \/ /\ h.at = "reap"
          /\ SignalWorker /\ UNCHANGED d
          /\ h' = [h EXCEPT !.at = "aborted", !.out = "cancelled"]
          /\ lost' = IF Sse /\ w.at = "done" /\ w.result = "value" /\ ~h.cleaned
                     THEN lost \cup {"reap"} ELSE lost
    /\ UNCHANGED <<kind, client, other, session, obs, reg>>

AbortedOver ==
    /\ h.at = "aborted" /\ w.at = "done" /\ d # "waiting"
    /\ h' = [h EXCEPT !.at = "over"]
    /\ UNCHANGED <<kind, client, outer, d, w, other, session, obs, reg, lost>>

-----------------------------------------------------------------------------
(* The worker: setting the session up.                                     *)

Running(at) == w.at = at /\ ~w.sig
Go(at) == w' = [w EXCEPT !.at = at]

(* The coroutine starts; a response first pins its ancestors.              *)
Start ==
    /\ Running("start")
    /\ Go(IF Responses THEN "pin" ELSE "acquire")
    /\ UNCHANGED <<kind, client, tasks, other, session, obs, reg, lost>>

Pin ==
    /\ Running("pin")
    /\ \/ Go("acquire") /\ reg' = "pinned"
       \/ w' = Ends("error") /\ UNCHANGED reg
    /\ UNCHANGED <<kind, client, tasks, other, session, obs, lost>>

(* ServingRejected: counted, captured, and mapped to a protocol error.     *)
Reject ==
    /\ obs' = [obs EXCEPT !.rejected = @ + 1, !.status = "rejected"]
    /\ Go("rejected")

(* The controller gives a lease or refuses.  A deadline that has passed    *)
(* when submit() looks at it, before its try block, rejects the request    *)
(* and keeps the lease.                                                    *)
Acquire ==
    /\ Running("acquire")
    /\ \/ lease' = "held" /\ Go("render") /\ UNCHANGED <<obs, lost>>
       \/ Reject /\ UNCHANGED <<lease, lost>>
       \/ Reject /\ lease' = "held" /\ lost' = lost \cup {"expired"}
    /\ UNCHANGED <<kind, client, tasks, other, ctl, job, n, raw, stateful, reg>>

(* The prompt is tokenized in time, or not: rejected, by value, by         *)
(* deadline or internally, and the lease is released.                      *)
Render ==
    /\ Running("render")
    /\ \/ Go("submit") /\ UNCHANGED <<lease, obs>>
       \/ Reject /\ lease' = "free"
    /\ UNCHANGED <<kind, client, tasks, other, ctl, job, n, raw, stateful, reg, lost>>

(* submit_final: from here on the controlled session owns the lease.       *)
Submit ==
    /\ Running("submit")
    /\ \/ /\ job' = "running"
          /\ obs' = [obs EXCEPT !.active = @ + 1]
          /\ w' = IF Responses THEN [w EXCEPT !.at = "register"]
                  ELSE IF Sse THEN Ends("value") ELSE [w EXCEPT !.at = "read"]
          /\ UNCHANGED lease
       \/ Reject /\ lease' = "free" /\ UNCHANGED job
    /\ UNCHANGED <<kind, client, tasks, other, ctl, n, raw, stateful, reg, lost>>

(* register_active; it may refuse, and then the session is taken down.     *)
Register ==
    /\ Running("register")
    /\ \/ /\ reg' = "active"
          /\ w' = IF Sse THEN Ends("value") ELSE [w EXCEPT !.at = "read"]
       \/ w' = [w EXCEPT !.at = "cancel", !.err = TRUE] /\ UNCHANGED reg
    /\ UNCHANGED <<kind, client, tasks, other, session, obs, lost>>

(* _capture_unaccepted returned.                                           *)
Rejected ==
    /\ Running("rejected")
    /\ \E written \in {CaptureOn, FALSE} : obs' = EndCapture(obs, written)
    /\ w' = Ends("error")
    /\ Abandon
    /\ UNCHANGED <<kind, client, tasks, other, session, lost>>

-----------------------------------------------------------------------------
(* The worker: reading the session.                                        *)

(* The controlled session hands out a terminal: it is over and its lease   *)
(* is free.                                                                *)
CtlEnd(e) ==
    /\ ctl' = [ctl EXCEPT !.over = TRUE,
                          !.reason = IF @ # "none" THEN @
                                     ELSE CASE e = "finished" -> "completed"
                                            [] e = "runtime_failed" -> "runtime_failed"
                                            [] e = "runtime_cancelled" -> "runtime_cancelled"
                                            [] OTHER -> "none"]
    /\ lease' = "free"
    /\ job' = IF job = "running" THEN "ended" ELSE job

(* The runtime may yield e now: nothing but the end of it once it was      *)
(* cancelled.                                                              *)
MayYield(e) ==
    IF ctl.over THEN e = "stop"
    ELSE IF job = "cancelled" THEN e \in {"runtime_cancelled", "stop", "finished"}
    ELSE \/ e = "started" /\ raw.pending = <<>> /\ n = 0
         \/ e = "delta" /\ n > 0
         \/ e \in RuntimeEnds \ {"runtime_cancelled"}

(* The next runtime event reaches RawSession.                              *)
RuntimeNext(e) ==
    /\ Running("read") /\ raw.pending = <<>> /\ ~raw.terminal
    /\ MayYield(e)
    /\ IF e \in RuntimeEnds THEN CtlEnd(e) /\ UNCHANGED n
       ELSE n < MaxDeltas /\ n' = n + 1 /\ UNCHANGED <<ctl, lease, job>>
    /\ raw' = ProcessRaw(raw, ctl'.reason, e)
    /\ UNCHANGED <<kind, client, tasks, w, other, stateful, obs, reg, lost>>

Status(e) == IF e \in Terminals THEN e ELSE "none"

(* The endpoint consumes an event: a stream yields it.  A response knows   *)
(* its terminal before the yield, the other streams after it.              *)
Deliver(e) ==
    [w EXCEPT !.at = IF Sse THEN "send" ELSE "read", !.got = e,
              !.term = @ \/ (e \in Terminals /\ (~Sse \/ Responses)),
              !.err = @ \/ (e \in {"failed", "cancelled"} /\ ~Sse /\ ~Responses)]

(* The deadline, or the controller for a shutdown, ends the session.       *)
CtlAborts(reason) ==
    /\ job = "running" /\ ~ctl.over /\ ~ctl.asked
    /\ ctl' = [ctl EXCEPT !.asked = TRUE, !.reason = reason]
    /\ job' = "cancelled" /\ lease' = "free"
    /\ UNCHANGED <<kind, client, tasks, w, other, n, raw, stateful, obs, reg, lost>>

(* ObservedServingSession.__anext__: a terminal event moves the metrics    *)
(* and is captured before it is handed on.                                 *)
Take ==
    /\ Running("read") /\ raw.pending # <<>>
    /\ LET e == Head(raw.pending)
           o == IF e \in Terminals THEN Finalize(obs, e) ELSE obs
       IN  /\ raw' = [raw EXCEPT !.pending = Tail(@)]
           /\ IF o.status # "none" /\ ~obs.writing
              THEN obs' = BeginCapture(o) /\ w' = [w EXCEPT !.at = "capture", !.got = e]
              ELSE obs' = o /\ w' = Deliver(e)
    /\ UNCHANGED <<kind, client, tasks, other, ctl, lease, job, n, stateful, reg, lost>>

Captured ==
    /\ Running("capture")
    /\ \E written \in {CaptureOn, FALSE} : obs' = EndCapture(obs, written)
    /\ w' = Deliver(w.got)
    /\ UNCHANGED <<kind, client, tasks, other, session, reg, lost>>

(* A chunk of the stream was sent.                                         *)
Sent ==
    /\ Running("send")
    /\ w' = [w EXCEPT !.at = "read", !.term = @ \/ w.got \in Terminals, !.got = "none"]
    /\ UNCHANGED <<kind, client, tasks, other, session, obs, reg, lost>>

(* The session is exhausted: the answer is complete, and a response has    *)
(* been stored or refused, and is abandoned.                               *)
Exhausted ==
    /\ Running("read") /\ raw.pending = <<>> /\ raw.terminal
    /\ w' = Ends(IF w.err THEN "error" ELSE "value")
    /\ Abandon
    /\ UNCHANGED <<kind, client, tasks, other, session, obs, lost>>

(* The framework cancels the body: for the client, or for the application. *)
BodyAborted == (client = "gone" /\ UNCHANGED outer) \/ (outer = "no" /\ outer' = "yes")

(* The framework iterates the body, or is told to stop before it did.      *)
BodyStarts ==
    /\ h.at = "over" /\ w.at = "unstarted"
    /\ Go("read")
    /\ UNCHANGED <<kind, client, tasks, other, session, obs, reg, lost>>

BodyForgotten ==
    /\ h.at = "over" /\ w.at = "unstarted" /\ BodyAborted
    /\ w' = Ends("cancelled") /\ lost' = lost \cup {"unstarted"}
    /\ UNCHANGED <<kind, client, h, d, other, session, obs, reg>>

(* The client of a stream leaves: its task is cancelled inside the         *)
(* generator, or the generator stays suspended at a yield and is closed.   *)
BodyCancelled ==
    /\ h.at = "over" /\ Sse /\ ~w.sig /\ ~w.shield /\ BodyAborted
    /\ \/ w.at \in {"read", "capture", "cancelling", "recording"}
          /\ w' = [w EXCEPT !.sig = TRUE]
       \/ w.at = "send" /\ w' = [w EXCEPT !.at = "cancel", !.shield = TRUE]
    /\ UNCHANGED <<kind, client, h, d, other, session, obs, reg, lost>>

(* A CancelledError reaches the worker where it is suspended.              *)
Unwind == w' = Ends("cancelled") /\ Abandon

CancelledInSetup ==
    /\ w.sig /\ w.at \in Setup \ {"register"}
    /\ Unwind
    /\ lease' = IF lease = "held" THEN "free" ELSE lease
    /\ UNCHANGED <<kind, client, tasks, other, ctl, job, n, raw, stateful, obs, lost>>

(* Inside register_active a session exists and is taken down; inside the   *)
(* write of its record the terminal event is lost, its finally block finds *)
(* nothing left to cancel.                                                 *)
CancelledInHand ==
    /\ w.sig /\ w.at \in {"register", "capture"}
    /\ w' = [w EXCEPT !.at = "cancel", !.sig = FALSE]
    /\ IF w.at = "register" THEN UNCHANGED obs
       ELSE \E written \in {CaptureOn, FALSE} : obs' = EndCapture(obs, written)
    /\ UNCHANGED <<kind, client, tasks, other, session, reg, lost>>

(* Inside anext() the controlled session stops the runtime and releases    *)
(* before the exception reaches the endpoint's finally block.              *)
CancelledInRead ==
    /\ w.sig /\ w.at = "read"
    /\ ctl' = [ctl EXCEPT !.over = TRUE, !.asked = TRUE,
                          !.reason = IF @ = "none" THEN "client_cancelled" ELSE @]
    /\ job' = IF job = "running" /\ ~ctl.asked THEN "cancelled" ELSE job
    /\ lease' = "free"
    /\ w' = [w EXCEPT !.at = "cancel", !.sig = FALSE]
    /\ UNCHANGED <<kind, client, tasks, other, n, raw, stateful, obs, reg, lost>>

(* Inside cancel(): what cancel() had left to do is not done, and the      *)
(* generator of a response does not reach abandon().                       *)
CancelledInCancel ==
    /\ w.sig /\ w.at \in {"cancelling", "recording"}
    /\ w' = Ends("cancelled")
    /\ IF w.at = "recording"
       THEN \E written \in {CaptureOn, FALSE} : obs' = EndCapture(obs, written)
       ELSE UNCHANGED obs
    /\ IF Sse /\ h.at = "over" THEN UNCHANGED reg ELSE Abandon
    /\ lost' = lost \cup {"interrupted"}
    /\ UNCHANGED <<kind, client, tasks, other, session>>

-----------------------------------------------------------------------------
(* Taking the session down: session.cancel() of the worker, and of the     *)
(* cancel call of another connection.                                      *)

(* ControlledSession.cancel() up to the await of runtime.cancel().         *)
AskRuntime == ctl' = [ctl EXCEPT !.asked = TRUE,
                                 !.reason = IF @ = "none" THEN "client_cancelled" ELSE @]

(* session.cancel() through StatefulServingSession, ObservedServingSession *)
(* and RawSession: how far it gets before it awaits.  next is where the    *)
(* caller goes.                                                            *)
CancelReach ==
    IF (Responses /\ stateful) \/ obs.status # "none" THEN "skip"
    ELSE IF raw.terminal \/ raw.cancelled \/ ctl.over \/ ctl.asked THEN "record" ELSE "await"

CallCancel(reach) ==
    /\ stateful' = (stateful \/ Responses)
    /\ raw' = IF reach = "skip" \/ raw.terminal THEN raw ELSE [raw EXCEPT !.cancelled = TRUE]
    /\ IF reach = "await" THEN AskRuntime ELSE UNCHANGED ctl
    /\ obs' = IF reach = "record" THEN BeginCapture(Finalize(obs, "cancelled")) ELSE obs
    /\ UNCHANGED <<lease, job, n>>

After(reach) == CASE reach = "await" -> "cancelling" [] reach = "record" -> "recording"
                  [] OTHER -> "done"

(* Where cancel() ends for the worker: the request is over.                *)
WorkerEnds ==
    /\ w' = IF w.shield THEN [w EXCEPT !.at = "done", !.shield = FALSE, !.sig = FALSE]
            ELSE Ends(IF w.err THEN "error" ELSE "cancelled")
    /\ Abandon

WorkerCancel ==
    /\ Running("cancel")
    /\ IF w.term THEN WorkerEnds /\ UNCHANGED <<session, obs>>
       ELSE /\ CallCancel(CancelReach)
            /\ IF CancelReach = "skip" THEN WorkerEnds
               ELSE Go(After(CancelReach)) /\ UNCHANGED reg
    /\ UNCHANGED <<kind, client, tasks, other, lost>>

(* The id of a response is known to others once its stream began.          *)
OtherCancel ==
    /\ Responses /\ Sse /\ reg = "active" /\ n > 0 /\ other = "none"
    /\ CallCancel(CancelReach)
    /\ other' = After(CancelReach)
    /\ UNCHANGED <<kind, client, tasks, w, reg, lost>>

(* runtime.cancel() returned: the job is stopped, the lease is free.       *)
Stopped ==
    /\ job' = IF job = "running" THEN "cancelled" ELSE job
    /\ lease' = "free"
    /\ UNCHANGED <<ctl, n, raw, stateful>>

(* Faulty variant: the last of two finishers writes a record of its own.   *)
BugRecorded(o, status) ==
    [o EXCEPT !.status = status, !.active = @ - 1, !.writing = TRUE]

(* What ObservedServingSession.cancel does then.                           *)
Recorded(o, status) == BeginCapture(Finalize(o, status))

WorkerStopped ==
    /\ Running("cancelling")
    /\ Stopped
    /\ obs' = Recorded(obs, "cancelled")
    /\ IF obs.writing THEN WorkerEnds ELSE Go("recording") /\ UNCHANGED reg
    /\ UNCHANGED <<kind, client, tasks, other, lost>>

(* Faulty variant: a finisher that was overtaken waits for its own turn.   *)
BugOtherStopped ==
    /\ other = "cancelling" /\ ~obs.writing
    /\ Stopped
    /\ obs' = Recorded(obs, "cancelled")
    /\ other' = "recording"
    /\ UNCHANGED <<kind, client, tasks, w, reg, lost>>

OtherStopped ==
    /\ other = "cancelling"
    /\ Stopped
    /\ obs' = Recorded(obs, "cancelled")
    /\ other' = IF obs.writing THEN "done" ELSE "recording"
    /\ UNCHANGED <<kind, client, tasks, w, reg, lost>>

(* runtime.cancel() raised: the exchange failed, the lease stays with a    *)
(* session whose events may still be read.                                 *)
WorkerRaised ==
    /\ CancelMayFail /\ Running("cancelling")
    /\ obs' = Recorded(obs, "failed")
    /\ lost' = lost \cup {"raised"}
    /\ w' = IF obs.writing THEN [Ends("error") EXCEPT !.err = TRUE,
                                                       !.result = IF w.shield THEN @ ELSE "error"]
            ELSE [w EXCEPT !.at = "recording", !.err = TRUE]
    /\ UNCHANGED <<kind, client, tasks, other, session, reg>>

OtherRaised ==
    /\ CancelMayFail /\ other = "cancelling"
    /\ obs' = Recorded(obs, "failed")
    /\ lost' = lost \cup {"raised"}
    /\ other' = IF obs.writing THEN "done" ELSE "recording"
    /\ UNCHANGED <<kind, client, tasks, w, session, reg>>

WorkerRecorded ==
    /\ Running("recording")
    /\ \E written \in {CaptureOn, FALSE} : obs' = EndCapture(obs, written)
    /\ WorkerEnds
    /\ UNCHANGED <<kind, client, tasks, other, session, lost>>

OtherRecorded ==
    /\ other = "recording"
    /\ \E written \in {CaptureOn, FALSE} : obs' = EndCapture(obs, written)
    /\ other' = "done"
    /\ UNCHANGED <<kind, client, tasks, w, session, reg, lost>>

-----------------------------------------------------------------------------
(* Between two awaits nothing else runs: the events a session has queued,  *)
(* and the start of a cancel().                                            *)
Undisturbed ==
    \/ w.at = "read" /\ (raw.pending # <<>> \/ raw.terminal)
    \/ w.at = "cancel"

Synchronous == Take \/ Exhausted \/ WorkerCancel

HandlerStep ==
    YieldOver \/ WaitOver \/ DropOver \/ CleanOver \/ ReapOver \/ RecleanOver \/ AbortedOver

WorkerStep ==
    \/ Start \/ Pin \/ Acquire \/ Render \/ Submit \/ Register \/ Rejected
    \/ Captured \/ Sent \/ BodyStarts
    \/ WorkerStopped \/ WorkerRecorded
    \/ CancelledInSetup \/ CancelledInHand \/ CancelledInRead \/ CancelledInCancel
    \/ \E e \in RuntimeEnds \cup {"started", "delta"} : RuntimeNext(e)

OtherStep == OtherStopped \/ OtherRecorded

Elsewhere ==
    \/ Parse \/ HandlerStep \/ WorkerStep \/ OtherStep
    \/ ClientLeaves \/ DisconnectSeen \/ OuterCancel
    \/ OtherCancel \/ OtherRaised \/ WorkerRaised
    \/ BodyForgotten \/ BodyCancelled
    \/ \E r \in {"timeout", "server_shutdown"} : CtlAborts(r)

Next == Synchronous \/ (~Undisturbed /\ Elsewhere)

Spec == Init /\ [][Next]_vars

(* The event loop runs every task that can run, runtime.cancel() and the   *)
(* capture write return, the runtime ends.                                 *)
FairSpec ==
    /\ Spec
    /\ WF_vars(Synchronous) /\ WF_vars(~Undisturbed /\ HandlerStep)
    /\ WF_vars(~Undisturbed /\ WorkerStep) /\ WF_vars(~Undisturbed /\ OtherStep)
    /\ WF_vars(Parse) /\ WF_vars(DisconnectSeen)

-----------------------------------------------------------------------------
(* Properties.                                                             *)

Settled == h.at = "over" /\ w.at \in Idle /\ other \in Idle

(* When an exchange is over, however its tasks were cancelled, nothing of  *)
(* it is left: no lease, no running job, no request the gauge still counts *)
(* as active, no registration or pin.  lost names the ways out for which   *)
(* the code does not provide: a deadline that passed before the lease was  *)
(* guarded, a body the framework never started, a cancellation of the      *)
(* handler in the last gather of the race, a cancellation inside           *)
(* session.cancel(), and a runtime.cancel() that raised (api.py:138-392,   *)
(* disconnect.py:46-72, observer.py:431-441, raw.py:156-158).              *)
NothingLeftBehind ==
    Settled /\ lost = {} =>
        /\ lease \in {"none", "free"} /\ job # "running"
        /\ obs.active = 0
        /\ reg \in {"none", "gone"}

(* A request that was started is finished once, in the gauge and in the    *)
(* capture, whoever comes first of the reader with a terminal event, the   *)
(* cancel of its own task and the cancel call of another connection; the   *)
(* record names the status the metrics were given, and that status is what *)
(* happened to the session (observer.py:410-484, 499-525).                 *)
ObservedOnce ==
    /\ obs.active = IF job # "none" /\ obs.status = "none" THEN 1 ELSE 0
    /\ Len(obs.records) <= 1
    /\ \A i \in DOMAIN obs.records : obs.records[i] = obs.status
    /\ obs.status = "completed" => raw.decision.disp = "success"
    /\ obs.status = "failed" => raw.decision.disp = "failure" \/ "raised" \in lost
    /\ obs.status = "cancelled" /\ w.term =>
            raw.cancelled \/ other # "none" \/ raw.decision.disp = "cancellation"

(* A client that leaves in the turn the work is done: a finished answer is *)
(* still returned, a session that was only set up is never handed to a     *)
(* stream (disconnect.py:35-40, api.py:138-174).                           *)
TieIsDecided ==
    /\ h.at = "over" /\ outer = "no" /\ ~Sse /\ w.result = "value" => h.out = "value"
    /\ Sse /\ h.handed => d # "done"

(* Every exchange ends: no wait of the handler, the worker or the cancel   *)
(* call is for ever, whatever was cancelled when (api.py, disconnect.py).  *)
ExchangeEnds == <>Settled
=============================================================================
