-------------------------- MODULE AttemptRecovery --------------------------
(***************************************************************************)
(* One request with bounded attempt recovery: ServingEngine.submit, the    *)
(* ServingSession of each attempt with its Tool gate, the outer            *)
(* RecoveringServingSession that may discard one unpublished attempt, its  *)
(* consumer and a concurrent cancel() (serving/engine.py,                  *)
(* serving/recovery.py, serving/tool_batch.py).                            *)
(*                                                                         *)
(* The lease is the one of RequestControl: its release() cancels the       *)
(* attempt that runs under it.  Every parser emits the start, the          *)
(* arguments and the completion of a call together, when the call is       *)
(* complete.  "text" stands for the text and reasoning events.             *)
(***************************************************************************)
EXTENDS ToolBatchGate

CONSTANTS
    Requests,       \* the requests submitted: a subset of RequestType
    MaxEvents,      \* bound: semantic events of one attempt
    MaxObjects,     \* bound: attempts that could be submitted
    NoCall

RequestType ==
    [visibility : {"streaming", "buffered", "unknown"},  \* ServingVisibilityMode
     atomic : BOOLEAN,           \* atomic_parallel_tools
     replay : BOOLEAN,           \* fresh_attempt_replay, attachments included
     wait : BOOLEAN,             \* recovery_readiness
     deterministic : BOOLEAN]    \* a seed is given or the temperature is 0

ASSUME RecoveryAssumption ==
    /\ Requests \subseteq RequestType
    /\ MaxEvents \in Nat /\ MaxObjects \in Nat \ {0}
    /\ NoCall \notin Calls

VARIABLES
    request,    \* the settings of the request
    pc,         \* where submit(), then the generator _run, is suspended
    cur,        \* the attempt object _current_attempt refers to
    att,        \* the ServingSessions and their runtime jobs
    ordinal,    \* _attempt_ordinal
    started,    \* attempts submitted to the runtime
    staged,     \* events held back by the outer session
    published,  \* _published
    begun,      \* _external_started
    failure,    \* the failure under consideration
    cancelled,  \* _cancelled
    terminal,   \* _terminal
    released,   \* _released
    lease,      \* [active, replaySafe] of the RequestLease
    canceller,  \* the task inside RecoveringServingSession.cancel
    consumer,   \* the protocol handler that iterates the session
    seen        \* the events the consumer was given

outer == <<request, pc, cur, ordinal, started, staged, published, begun, failure, terminal>>
vars == <<outer, att, cancelled, released, lease, canceller, consumer, seen>>

(* max_extra_attempts; with 0 submit() hands the bare ServingSession out    *)
(* and the lease is released by RequestControl's submit_final path.        *)
MaxExtra == 1

Attempts == 1..MaxObjects
Failures == {"runtime_recovering", "model_output", "other"}
Terminals == {"completed", "failed", "cancelled"}
Kinds == {"started", "text", "tool_started", "tool_delta", "tool_completed", "usage"}
             \cup Terminals

(* An event of attempt k; at counts what the parser had emitted before it. *)
Event(kind, call, k) == [kind |-> kind, call |-> call, att |-> k, at |-> att[k].emitted]
Plain(kind, k) == Event(kind, NoCall, k)

IsTerminal(e) == e.kind \in Terminals
(* _is_public_semantic_event                                               *)
IsPublic(e) == e.kind \in {"text", "tool_completed"}
(* _is_staged_tool_event                                                   *)
IsStagedTool(e) == e.kind \in {"tool_started", "tool_delta"}

NewAttempt == [job |-> "running", gate |-> NewGate(request.atomic), pending |-> <<>>, began |-> FALSE,
               terminal |-> FALSE, emitted |-> 0, failure |-> "none"]
NoAttempt == [NewAttempt EXCEPT !.job = "none"]

(* The types of all variables.                                             *)
TypeOK ==
    /\ request \in Requests
    /\ pc \in {"submit", "submitWait", "submitRetry", "rejected", "run", "waiting",
               "factory", "starting", "discard", "yielded", "unwound"}
    /\ cur \in Attempts \cup {0}
    /\ \A k \in Attempts :
          /\ att[k].job \in {"none", "running", "ended", "cancelled"}
          /\ att[k].terminal \in BOOLEAN
          /\ att[k].failure \in Failures \cup {"none"}
          /\ att[k].gate.life \in {"OPEN", "COMMITTED", "ABORTED"}
    /\ ordinal \in 1..1 + MaxExtra
    /\ started \in 0..MaxObjects
    /\ \A i \in DOMAIN seen : seen[i].kind \in Kinds
    /\ failure \in Failures \cup {"none"}
    /\ {published, begun, cancelled, terminal, released} \subseteq BOOLEAN
    /\ canceller \in Attempts \cup {0}
    /\ consumer \in {"absent", "reading", "leaving", "left"}

Init ==
    /\ request \in Requests
    /\ pc = "submit"
    /\ cur = 0
    /\ att = [k \in Attempts |-> NoAttempt]
    /\ ordinal = 1
    /\ started = 0
    /\ staged = <<>> /\ seen = <<>>
    /\ failure = "none"
    /\ published = FALSE /\ begun = FALSE
    /\ cancelled = FALSE /\ terminal = FALSE /\ released = FALSE
    /\ lease = [active |-> TRUE, replaySafe |-> TRUE]
    /\ canceller = 0
    /\ consumer = "absent"

-----------------------------------------------------------------------------
(* Recovery policy.                                                        *)

RecoveryUnavailable == request.visibility = "unknown" \/ ~request.replay

(* Faulty variant: a published attempt is replayed.                        *)
BugClassifyPublished(f, n, pub, safe) ==
    IF RecoveryUnavailable \/ n > MaxExtra \/ ~safe THEN "none"
    ELSE IF f = "runtime_recovering" THEN IF request.wait THEN "wait" ELSE "none"
    ELSE IF f = "model_output" /\ ~request.deterministic THEN "regenerate"
    ELSE "none"
(* classify_attempt_recovery: failure f of attempt n.                      *)
Classify(f, n, pub, safe) ==
    IF RecoveryUnavailable \/ n > MaxExtra \/ pub \/ ~safe THEN "none"
    ELSE IF f = "runtime_recovering" THEN IF request.wait THEN "wait" ELSE "none"
    ELSE IF f = "model_output" /\ ~request.deterministic THEN "regenerate"
    ELSE "none"

-----------------------------------------------------------------------------
(* The lease and its attempts.                                             *)

(* Faulty variant: the slot is given back, the attempt is left alone.      *)
BugLeaseReleased(A) ==
    /\ lease' = [lease EXCEPT !.active = FALSE]
    /\ att' = A

(* lease.release(): the slot is given back after the running attempt was   *)
(* cancelled; A is the table of attempts before it.                        *)
LeaseReleased(A) ==
    /\ lease' = [lease EXCEPT !.active = FALSE]
    /\ att' = [k \in Attempts |->
                  IF A[k].job = "running" THEN [A[k] EXCEPT !.job = "cancelled"] ELSE A[k]]

(* _release_once                                                           *)
ReleaseOnce(A) ==
    /\ released' = TRUE
    /\ IF released THEN att' = A /\ UNCHANGED lease ELSE LeaseReleased(A)

(* Under an active lease _start_attempt submits a new runtime job.         *)
StartsAttempt ==
    /\ lease.active
    /\ started < MaxObjects
    /\ started' = started + 1
    /\ att' = [att EXCEPT ![started + 1] = NewAttempt]

(* The controller, or the runtime, cancels the job that runs (shutdown,    *)
(* model switch).                                                          *)
ControllerCancels(k) ==
    /\ att[k].job = "running"
    /\ att' = [att EXCEPT ![k].job = "cancelled"]
    /\ UNCHANGED <<outer, cancelled, released, lease, canceller, consumer, seen>>

(* inject_text through the controller makes the request unsafe to replay.  *)
InjectText ==
    /\ lease.active
    /\ lease.replaySafe
    /\ \E k \in Attempts : att[k].job = "running"
    /\ lease' = [lease EXCEPT !.replaySafe = FALSE]
    /\ UNCHANGED <<outer, att, cancelled, released, canceller, consumer, seen>>

-----------------------------------------------------------------------------
(* ServingEngine.submit.                                                   *)

(* The first attempt starts and the session is handed to the consumer.     *)
SubmitStarts ==
    /\ pc \in {"submit", "submitRetry"}
    /\ StartsAttempt
    /\ cur' = started'
    /\ pc' = "run"
    /\ consumer' = "reading"
    /\ ordinal' = IF pc = "submit" THEN 1 ELSE 2
    /\ UNCHANGED <<request, staged, published, begun, failure, terminal, cancelled, released,
                   lease, canceller, seen>>

(* submit() raises: its finally clause releases the lease.                 *)
Rejects ==
    /\ pc' = "rejected"
    /\ released' = TRUE
    /\ LeaseReleased(att)

(* The runtime refused the submission; ran: it had been handed over.       *)
SubmitRefused(ran, f) ==
    /\ pc \in {"submit", "submitRetry"}
    /\ started' = IF ran /\ started < MaxObjects THEN started + 1 ELSE started
    /\ IF pc = "submit" /\ ran /\ Classify(f, 1, FALSE, TRUE) = "wait"
       THEN pc' = "submitWait" /\ UNCHANGED <<att, released, lease>>
       ELSE Rejects
    /\ UNCHANGED <<request, cur, ordinal, staged, published, begun, failure, terminal, cancelled,
                   canceller, consumer, seen>>

(* The wait for the runtime in submit() is over.                           *)
SubmitWaited(readiness) ==
    /\ pc = "submitWait"
    /\ IF readiness = "ready" THEN pc' = "submitRetry" /\ UNCHANGED <<att, released, lease>>
       ELSE Rejects
    /\ UNCHANGED <<request, cur, ordinal, started, staged, published, begun, failure, terminal,
                   cancelled, canceller, consumer, seen>>

(* The task inside submit() is cancelled.                                  *)
SubmitInterrupted ==
    /\ pc = "submitWait"
    /\ Rejects
    /\ UNCHANGED <<request, cur, ordinal, started, staged, published, begun, failure, terminal,
                   cancelled, canceller, consumer, seen>>

-----------------------------------------------------------------------------
(* ServingSession: runtime events of the current attempt.                  *)

(* The session awaits its runtime: nothing is pending and it is iterated.  *)
Awaiting ==
    /\ pc = "run"
    /\ consumer = "reading"
    /\ att[cur].pending = <<>>
    /\ ~att[cur].terminal

(* The attempt's terminal event, with the failure it reports.              *)
EndsWith(a, out, kind, f) ==
    [a EXCEPT !.gate = Abort(@), !.terminal = TRUE, !.failure = f,
              !.pending = out \o <<Plain(kind, cur)>>]

(* Events of the parser went through the gate.  A refusal is a failure of  *)
(* the model, which cancels the runtime job, unless cancel() aborted the   *)
(* gate: then the lifecycle owns the outcome.                              *)
Semantic(r, f) ==
    IF r.fail = "none"
    THEN att' = [att EXCEPT ![cur].gate = r.gate, ![cur].pending = r.out,
                            ![cur].emitted = @ + 1]
    ELSE IF canceller = cur
    THEN att' = [att EXCEPT ![cur] = EndsWith(@, r.out, "cancelled", "none")]
    ELSE att' = [att EXCEPT ![cur] = [EndsWith(@, r.out, "failed", f) EXCEPT
                                          !.job = "cancelled"]]

RuntimeStarted ==
    /\ Awaiting
    /\ att[cur].job = "running"
    /\ ~att[cur].began
    /\ att' = [att EXCEPT ![cur].began = TRUE, ![cur].pending = <<Plain("started", cur)>>]
    /\ UNCHANGED <<outer, cancelled, released, lease, canceller, consumer, seen>>

CanEmit ==
    /\ Awaiting
    /\ att[cur].job = "running"
    /\ att[cur].began
    /\ att[cur].emitted < MaxEvents

EmitText ==
    /\ CanEmit
    /\ Semantic(OnPassthrough(att[cur].gate, Plain("text", cur)), "other")
    /\ UNCHANGED <<outer, cancelled, released, lease, canceller, consumer, seen>>

(* The gate's answers to two consecutive events.                           *)
Then(r, next) == IF r.fail # "none" THEN r ELSE [next EXCEPT !.out = r.out \o @]

(* A whole call: start, arguments, completion.                             *)
CallThroughGate(g, c, verdict) ==
    LET r1 == OnStarted(g, Event("tool_started", c, cur))
        r2 == Then(r1, OnArgumentsDelta(r1.gate, Event("tool_delta", c, cur)))
    IN Then(r2, OnCompleted(r2.gate, Event("tool_completed", c, cur), verdict))

(* An invalid call is the model's failure or, under a generation guarantee *)
(* that it contradicts, one of the constraint.                             *)
EmitCall(c, verdict, f) ==
    /\ CanEmit
    /\ f = "model_output" => verdict = "tool_call_invalid"
    /\ Semantic(CallThroughGate(att[cur].gate, c, verdict), f)
    /\ UNCHANGED <<outer, cancelled, released, lease, canceller, consumer, seen>>

(* RuntimeFinished without an issue: the batch is committed and the        *)
(* attempt succeeds.                                                       *)
RuntimeFinishes ==
    /\ Awaiting
    /\ att[cur].job = "running"
    /\ att[cur].began
    /\ canceller # cur
    /\ LET r == CommitEvents(att[cur].gate)
       IN att' = [att EXCEPT ![cur].job = "ended", ![cur].terminal = TRUE,
                             ![cur].gate = r.gate,
                             ![cur].pending = r.out \o <<Plain("usage", cur),
                                                         Plain("completed", cur)>>]
    /\ UNCHANGED <<outer, cancelled, released, lease, canceller, consumer, seen>>

(* What the parser still held is shown, or joins the buffered batch, when  *)
(* the runtime ends (_finish_parser_events).                               *)
Flushed(text) ==
    IF text THEN OnPassthrough(att[cur].gate, Plain("text", cur)).out ELSE <<>>

(* The runtime fails, or finishes with output that breaks the contract     *)
(* (an unfinished call, ambiguous markup, an invalid batch).               *)
RuntimeFails(f, text) ==
    /\ Awaiting
    /\ att[cur].job = "running"
    /\ text => att[cur].began
    /\ canceller # cur
    /\ att' = [att EXCEPT ![cur] = [EndsWith(@, Flushed(text), "failed", f) EXCEPT
                                        !.job = "ended"]]
    /\ UNCHANGED <<outer, cancelled, released, lease, canceller, consumer, seen>>

(* A runtime job that was cancelled, or that ends while its cancellation   *)
(* is under way: the lifecycle owns the outcome.                           *)
RuntimeCancelled(text) ==
    /\ Awaiting
    /\ att[cur].job = "cancelled" \/ canceller = cur
    /\ text => att[cur].began
    /\ LET job == IF att[cur].job = "running" THEN "ended" ELSE att[cur].job
       IN att' = [att EXCEPT ![cur] = [EndsWith(@, Flushed(text), "cancelled", "none") EXCEPT
                                           !.job = job]]
    /\ UNCHANGED <<outer, cancelled, released, lease, canceller, consumer, seen>>

-----------------------------------------------------------------------------
(* RecoveringServingSession: _run over the events of the current attempt.  *)

(* The terminal event k of the request is yielded.                         *)
YieldsTerminal(out) ==
    /\ pc' = "yielded"
    /\ seen' = seen \o out
    /\ staged' = <<>>

(* The events of q that are not of a Tool call that is still staged.       *)
WithoutStagedTools(q) ==
    LET kept[n \in 0..Len(q)] ==
            IF n = 0 THEN <<>>
            ELSE IF IsStagedTool(q[n]) THEN kept[n - 1] ELSE Append(kept[n - 1], q[n])
    IN kept[Len(q)]

(* _drain_staged_for_publication                                           *)
Drain(q, validated) == IF validated THEN q ELSE WithoutStagedTools(q)

(* What is shown of the staged events when the request ends without their  *)
(* attempt succeeding.                                                     *)
DrainAtEnd == IF request.visibility = "streaming" THEN Drain(staged, FALSE) ELSE <<>>

Stopped == cancelled \/ ~lease.active

(* _start_retry_or_failure, up to its first await, for a failed attempt.   *)
RetryOrFail(e, f) ==
    LET kind == Classify(f, ordinal, published, lease.replaySafe)
    IN /\ failure' = f
       /\ \/ kind = "none" /\ YieldsTerminal(DrainAtEnd \o <<e>>)
          \/ kind = "wait" /\ pc' = "waiting" /\ UNCHANGED <<staged, seen>>
          \/ /\ kind = "regenerate" /\ Stopped
             /\ YieldsTerminal(DrainAtEnd \o <<Plain("cancelled", cur)>>)
          \/ /\ kind = "regenerate" /\ ~Stopped
             /\ pc' = "factory" /\ UNCHANGED <<staged, seen>>
       /\ UNCHANGED <<published, begun>>

(* An event of the attempt when recovery is not available: passed on.      *)
PassOn(e) ==
    /\ IF IsTerminal(e) THEN YieldsTerminal(<<e>>)
       ELSE seen' = Append(seen, e) /\ UNCHANGED <<pc, staged>>
    /\ UNCHANGED <<published, begun, failure>>

(* BUFFERED: the whole attempt is collected before anything is yielded.    *)
Buffer(e) ==
    IF e.kind = "failed" THEN RetryOrFail(e, att[cur].failure)
    ELSE /\ \/ e.kind = "cancelled" /\ YieldsTerminal(<<e>>)
            \/ e.kind = "completed" /\ YieldsTerminal(Append(staged, e))
            \/ /\ ~IsTerminal(e)
               /\ staged' = Append(staged, e)
               /\ UNCHANGED <<pc, seen>>
         /\ UNCHANGED <<published, begun, failure>>

(* GenerationStarted is shown once for the request, not once per attempt.  *)
WithStart(e) == IF begun THEN seen ELSE Append(seen, e)

(* STREAMING: tool events and diagnostics are staged until the first       *)
(* public event.                                                           *)
Stream(e) ==
    \/ e.kind = "failed" /\ RetryOrFail(e, att[cur].failure)
    \/ /\ e.kind \in {"completed", "cancelled"}
       /\ YieldsTerminal(DrainAtEnd \o <<e>>)
       /\ UNCHANGED <<published, begun, failure>>
    \/ /\ e.kind = "started"
       /\ begun' = TRUE
       /\ seen' = WithStart(e)
       /\ UNCHANGED <<pc, staged, published, failure>>
    \/ /\ IsPublic(e)
       /\ seen' = seen \o Drain(staged, e.kind = "tool_completed") \o <<e>>
       /\ staged' = <<>>
       /\ published' = TRUE
       /\ UNCHANGED <<pc, begun, failure>>
    \/ /\ IsStagedTool(e) \/ e.kind = "usage"
       /\ IF published THEN seen' = Append(seen, e) /\ UNCHANGED staged
          ELSE staged' = Append(staged, e) /\ UNCHANGED seen
       /\ UNCHANGED <<pc, published, begun, failure>>

(* The next pending event of the attempt.                                  *)
Consume ==
    /\ pc = "run"
    /\ consumer = "reading"
    /\ att[cur].pending # <<>>
    /\ att' = [att EXCEPT ![cur].pending = Tail(@)]
    /\ LET e == Head(att[cur].pending)
       IN IF RecoveryUnavailable THEN PassOn(e)
          ELSE IF request.visibility = "buffered" THEN Buffer(e) ELSE Stream(e)
    /\ UNCHANGED <<request, cur, ordinal, started, terminal, cancelled, released, lease, canceller,
                   consumer>>

(* The wait for the runtime's readiness is over.                           *)
Waited(readiness) ==
    /\ pc = "waiting"
    /\ consumer = "reading"
    /\ IF Stopped \/ readiness = "closed"
       THEN YieldsTerminal(DrainAtEnd \o <<Plain("cancelled", cur)>>)
       ELSE IF readiness \in {"deadline", "failed"}
       THEN YieldsTerminal(DrainAtEnd \o <<Plain("failed", cur)>>)
       ELSE pc' = "factory" /\ UNCHANGED <<staged, seen>>
    /\ UNCHANGED <<request, cur, ordinal, started, published, begun, failure, terminal, att,
                   cancelled, released, lease, canceller, consumer>>

(* The attempt factory submits the next attempt to the runtime ...         *)
FactorySubmits ==
    /\ pc = "factory"
    /\ consumer = "reading"
    /\ StartsAttempt
    /\ pc' = "starting"
    /\ UNCHANGED <<request, cur, ordinal, staged, published, begun, failure, terminal, cancelled,
                   released, lease, canceller, consumer, seen>>

(* ... or is refused (ran: by the runtime itself).                         *)
FactoryRefused(ran) ==
    /\ pc = "factory"
    /\ consumer = "reading"
    /\ lease.active \/ ~ran
    /\ IF Stopped
       THEN /\ YieldsTerminal(DrainAtEnd \o <<Plain("cancelled", cur)>>)
            /\ UNCHANGED <<ordinal, started>>
       ELSE /\ YieldsTerminal(DrainAtEnd \o <<Plain("failed", cur)>>)
            /\ ran => started < MaxObjects
            /\ ordinal' = IF ran THEN ordinal + 1 ELSE ordinal
            /\ started' = IF ran THEN started + 1 ELSE started
    /\ UNCHANGED <<request, cur, published, begun, failure, terminal, att, cancelled, released,
                   lease, canceller, consumer>>

(* Faulty variant: what the discarded attempt staged is kept.              *)
BugFactoryReturnsKeeps ==
    /\ pc = "starting"
    /\ consumer = "reading"
    /\ cur' = started
    /\ ordinal' = ordinal + 1
    /\ pc' = IF Stopped THEN "discard" ELSE "run"
    /\ UNCHANGED <<request, started, staged, published, begun, failure, terminal, att, cancelled,
                   released, lease, canceller, consumer, seen>>

(* The new attempt becomes the current one; if the request was cancelled   *)
(* meanwhile it is cancelled at once.                                      *)
FactoryReturns ==
    /\ pc = "starting"
    /\ consumer = "reading"
    /\ cur' = started
    /\ ordinal' = ordinal + 1
    /\ IF Stopped THEN pc' = "discard" /\ UNCHANGED staged
       ELSE pc' = "run" /\ staged' = <<>>
    /\ UNCHANGED <<request, started, published, begun, failure, terminal, att, cancelled, released,
                   lease, canceller, consumer, seen>>

Discarded ==
    /\ pc = "discard"
    /\ consumer = "reading"
    /\ att' = [att EXCEPT ![cur].job = IF @ = "running" THEN "cancelled" ELSE @,
                          ![cur].gate = Abort(@)]
    /\ YieldsTerminal(DrainAtEnd \o <<Plain("cancelled", cur)>>)
    /\ UNCHANGED <<request, cur, ordinal, started, published, begun, failure, terminal, cancelled,
                   released, lease, canceller, consumer>>

-----------------------------------------------------------------------------
(* The consumer and cancel().                                              *)

(* The consumer asks for more after the terminal event: the generator      *)
(* returns and releases the lease.                                         *)
Exhausts ==
    /\ pc = "yielded"
    /\ consumer = "reading"
    /\ terminal' = TRUE
    /\ ReleaseOnce(att)
    /\ pc' = "unwound"
    /\ consumer' = "left"
    /\ UNCHANGED <<request, cur, ordinal, started, staged, published, begun, failure, cancelled,
                   canceller, seen>>

(* The consumer's task is cancelled inside __anext__: the generator        *)
(* unwinds and releases the lease.                                         *)
DisconnectInside ==
    /\ pc \in {"run", "waiting", "factory", "starting", "discard"}
    /\ consumer = "reading"
    /\ ReleaseOnce(att)
    /\ pc' = "unwound"
    /\ consumer' = "leaving"
    /\ UNCHANGED <<request, cur, ordinal, started, staged, published, begun, failure, terminal,
                   cancelled, canceller, seen>>

(* It is cancelled while it passes an event on: the generator stays        *)
(* suspended.                                                              *)
DisconnectOutside ==
    /\ pc \in {"run", "yielded"}
    /\ consumer = "reading"
    /\ consumer' = "leaving"
    /\ UNCHANGED <<outer, att, cancelled, released, lease, canceller, seen>>

(* RecoveringServingSession.cancel, up to its await of the attempt.        *)
CancelCall ==
    /\ ~terminal
    /\ ~cancelled
    /\ cancelled' = TRUE
    /\ IF att[cur].terminal
       THEN ReleaseOnce(att) /\ UNCHANGED canceller
       ELSE /\ canceller' = cur
            /\ att' = [att EXCEPT ![cur].gate = Abort(@)]
            /\ UNCHANGED <<released, lease>>
    /\ UNCHANGED <<outer, seen>>

(* Another task cancels the request.                                       *)
Cancels ==
    /\ consumer # "absent"
    /\ CancelCall
    /\ UNCHANGED consumer

(* The finally clause of a consumer that saw no terminal event.            *)
ConsumerLeaves ==
    /\ consumer = "leaving"
    /\ consumer' = "left"
    /\ IF terminal \/ cancelled
       THEN UNCHANGED <<outer, att, cancelled, released, lease, canceller, seen>>
       ELSE CancelCall

(* The attempt's cancel() is over: the lease is released.                  *)
CancelEnds ==
    /\ canceller # 0
    /\ ReleaseOnce([att EXCEPT ![canceller].job = IF @ = "running" THEN "cancelled" ELSE @])
    /\ canceller' = 0
    /\ UNCHANGED <<outer, cancelled, consumer, seen>>

-----------------------------------------------------------------------------
Submitting ==
    \/ SubmitStarts
    \/ \E ran \in BOOLEAN, f \in Failures : SubmitRefused(ran, f)
    \/ \E r \in {"ready", "failed", "closed", "deadline"} : SubmitWaited(r)

RuntimeStep ==
    \/ RuntimeStarted
    \/ RuntimeFinishes
    \/ \E f \in Failures, text \in BOOLEAN : RuntimeFails(f, text)
    \/ \E text \in BOOLEAN : RuntimeCancelled(text)

Emit ==
    \/ EmitText
    \/ \E c \in Calls, v \in Verdicts, f \in {"model_output", "other"} : EmitCall(c, v, f)

Recovering ==
    \/ Consume
    \/ \E r \in {"ready", "failed", "closed", "deadline"} : Waited(r)
    \/ FactorySubmits
    \/ \E ran \in BOOLEAN : FactoryRefused(ran)
    \/ FactoryReturns
    \/ Discarded
    \/ Exhausts

Next ==
    \/ Submitting
    \/ SubmitInterrupted
    \/ RuntimeStep
    \/ Emit
    \/ InjectText
    \/ \E k \in Attempts : ControllerCancels(k)
    \/ Recovering
    \/ DisconnectInside
    \/ DisconnectOutside
    \/ Cancels
    \/ ConsumerLeaves
    \/ CancelEnds

Progress ==
    \/ Submitting
    \/ RuntimeStep
    \/ Recovering
    \/ ConsumerLeaves
    \/ CancelEnds

(* The runtime ends every job, the event loop runs a task that can run,    *)
(* and a consumer either reads on or leaves through its finally clause.    *)
(* Nothing obliges a client to disconnect or to cancel.                    *)
Fairness == WF_vars(Progress)

Spec == Init /\ [][Next]_vars
FairSpec == Spec /\ Fairness

-----------------------------------------------------------------------------
(* Correctness.                                                            *)

SeenKind(kinds) == {i \in DOMAIN seen : seen[i].kind \in kinds}

Output == {"text", "tool_started", "tool_delta", "tool_completed"}

(* One start, and nothing of a call before its start; a success is the     *)
(* success of the attempt whose output was shown.                          *)
WellFormed ==
    /\ Cardinality(SeenKind({"started"})) <= 1
    /\ \A i \in SeenKind(Output), j \in SeenKind({"completed"}) : seen[i].att = seen[j].att
    /\ \A i \in SeenKind({"tool_delta", "tool_completed"}) :
          \E j \in SeenKind({"tool_started"}) : j < i /\ seen[j].call = seen[i].call

(* Staging, buffering and draining never reorder what the parser emitted.  *)
InOrder ==
    \A i, j \in SeenKind(Output) :
        (i < j /\ seen[i].att = seen[j].att) => seen[i].at <= seen[j].at

(* The consumer is given what the protocol serializers expect, in the      *)
(* order in which the parser emitted it, whatever was staged, buffered,    *)
(* discarded and retried on the way.  Tool calls are committed together: a *)
(* call is shown as completed only once the whole batch of its attempt was *)
(* committed, and then the request neither fails nor is cancelled.  An     *)
(* earlier event of a call is shown before that only when calls are not    *)
(* committed atomically and the attempt can no longer be taken back:       *)
(* recovery is unavailable, or text was shown before.                      *)
BatchIsAtomic ==
    /\ WellFormed /\ InOrder
    /\ \A i \in SeenKind({"tool_completed"}) : att[seen[i].att].gate.life = "COMMITTED"
    /\ SeenKind({"tool_completed"}) # {} => SeenKind({"failed", "cancelled"}) = {}
    /\ \A i \in SeenKind({"tool_started", "tool_delta"}) :
          \/ att[seen[i].att].gate.life = "COMMITTED"
          \/ /\ ~request.atomic
             /\ RecoveryUnavailable \/ (\E j \in SeenKind({"text"}) : j < i)

(* An attempt is submitted only while nothing the consumer was given has   *)
(* to be taken back, and at most one extra attempt reaches the runtime,    *)
(* submit()'s own retry included.                                          *)
RetryIsInvisible ==
    [][started' # started => SeenKind(Output) = {} /\ started' <= 1 + MaxExtra]_vars

(* When the request is over no runtime job of it is left running, and it   *)
(* is over in the end, with the lease released, however it ends.           *)
NothingIsHeld ==
    /\ [](released => ~lease.active /\ \A k \in Attempts : att[k].job # "running")
    /\ <>(released /\ ~lease.active)

(* However many attempts are made, the consumer reads the terminal stream  *)
(* of a single one: the outer session implements what each inner one does, *)
(* with the attempt as the source of its output.                           *)
Reader == IF SeenKind(Terminals) # {} THEN "ended"
          ELSE IF consumer \in {"leaving", "left"} \/ pc = "rejected" THEN "left"
          ELSE "reading"

Single == INSTANCE TerminalStream WITH
    Outputs <- Output,
    stream <- [i \in DOMAIN seen |-> [kind |-> seen[i].kind, source |-> seen[i].att]],
    reader <- Reader

ImplementsStream == Single!Spec
=============================================================================
