--------------------------- MODULE ServingSession ---------------------------
(***************************************************************************)
(* The semantic stream of one attempt (serving/engine.py, ServingSession)  *)
(* over its ControlledSession (control/request.py): the task that reads    *)
(* it, a concurrent cancel(), the deadline, and the controller's own       *)
(* cancellations.                                                          *)
(*                                                                         *)
(* The parser is external: for every delta it may produce text ("text"     *)
(* stands for text and reasoning), a whole Tool call, an early ambiguity,  *)
(* or raise.  What its output is worth is a verdict.  Between two awaits   *)
(* the session runs undisturbed, so each handler is one step: an operator  *)
(* from session to session, whose flag stop says that it ends in an await  *)
(* of controlled.cancel().                                                 *)
(***************************************************************************)
EXTENDS ToolBatchGate, TerminalEvidence

CONSTANTS
    Policies,       \* what requests may ask for, see PolicyType
    HasDeadline,    \* the request has a serving deadline
    MaxDeltas,      \* bound: non-terminal events of the runtime
    CancelMayFail,  \* runtime.cancel() may raise
    NoCall

PolicyType == [constrained : BOOLEAN, strict : BOOLEAN, structured : BOOLEAN,
               required : BOOLEAN, atomic : BOOLEAN]

ASSUME ServingAssumption ==
    /\ Policies \subseteq PolicyType
    /\ HasDeadline \in BOOLEAN /\ CancelMayFail \in BOOLEAN
    /\ MaxDeltas \in Nat \ {0} /\ NoCall \notin Calls

VARIABLES
    policy,     \* the request's policy
    s,          \* the ServingSession
    ctl,        \* the ControlledSession: [reason, over, asked]
    job,        \* the runtime session
    n,          \* non-terminal events the runtime yielded
    reader,     \* where the task iterating the session is
    got,        \* the event it has in hand while the deadline task is reaped
    canceller,  \* the task inside ServingSession.cancel
    seen        \* the events the reader's caller was given

vars == <<policy, s, ctl, job, n, reader, got, canceller, seen>>

Terminals == {"completed", "failed", "cancelled"}
CommitClasses == {"none", "content", "partial_tool", "tool_completed"}

Event(kind, call, verdict) == [kind |-> kind, call |-> call, verdict |-> verdict]
Plain(kind) == Event(kind, NoCall, "valid")
Text == Plain("text")

(* What the parser makes of a piece of the model's output: text, then a    *)
(* whole Tool call, or either alone, or nothing.                           *)
Output(text, call, verdict) == [text |-> text, call |-> call, verdict |-> verdict]
NoOutput == Output(FALSE, NoCall, "valid")
TextOnly == Output(TRUE, NoCall, "valid")

NewSession ==
    [gate |-> NewGate(policy.atomic), pending |-> <<>>, commit |-> "none", ev |-> NoEvidence,
     decision |-> NoDecision, terminal |-> FALSE, finished |-> FALSE,
     deferred |-> NoOutput, proven |-> FALSE, fed |-> FALSE, stop |-> FALSE]

(* What has been queued for the caller, in order.                          *)
Queued == seen \o s.pending

(* The types of all variables.                                             *)
TypeOK ==
    /\ policy \in Policies
    /\ s.commit \in CommitClasses
    /\ s.decision.owner \in Owners
    /\ {s.terminal, s.finished, s.proven, s.fed} \subseteq BOOLEAN /\ ~s.stop
    /\ s.gate.life \in {"OPEN", "COMMITTED", "ABORTED"}
    /\ ctl.reason \in Lifecycle \cup {"none", "completed", "runtime_failed",
                                      "runtime_cancelled", "application_cancelled"}
    /\ {ctl.over, ctl.asked} \subseteq BOOLEAN
    /\ job \in {"running", "cancelled", "ended"}
    /\ n \in 0..MaxDeltas
    /\ reader \in {"out", "timed", "plain", "window", "expired", "stop", "done", "gone"}
    /\ canceller \in {"idle", "waiting", "done"}

Init ==
    /\ policy \in Policies
    /\ s = NewSession
    /\ ctl = [reason |-> "none", over |-> FALSE, asked |-> FALSE]
    /\ job = "running"
    /\ n = 0
    /\ reader = "out"
    /\ got = Plain("none")
    /\ canceller = "idle"
    /\ seen = <<>>

-----------------------------------------------------------------------------
(* Publication and the one terminal event.                                 *)

(* _observe_semantic_commit: the commit class only climbs.                 *)
Observe(commit, kinds) ==
    IF "tool_completed" \in kinds \/ commit = "tool_completed" THEN "tool_completed"
    ELSE IF kinds \cap {"tool_started", "tool_delta"} # {} \/ commit = "partial_tool"
    THEN "partial_tool"
    ELSE IF "text" \in kinds THEN "content" ELSE commit

QueueEvents(t, es) ==
    [t EXCEPT !.commit = Observe(@, {es[i].kind : i \in DOMAIN es}),
              !.pending = @ \o es]

(* commit_aware_error                                                      *)
Committed(t, err) == IF err = "retry" /\ t.commit # "none" THEN "final" ELSE err

Finality(d) == Event(IF d.disp = "failure" THEN "failed" ELSE "cancelled", NoCall, d.err)

(* _emit_recorded_failure_or_cancellation                                  *)
Emit(t) ==
    LET d == Resolve(t.ev, Committed(t, "retry"))
    IN  [t EXCEPT !.gate = Abort(@), !.pending = Append(@, Finality(d)),
                  !.decision = d, !.terminal = TRUE]

(* A failure the session found itself: record, emit, and stop the runtime  *)
(* if that failure became the decision.                                    *)
LocalFailure(t, ev, owners) ==
    IF t.terminal THEN t
    ELSE LET u == Emit([t EXCEPT !.ev = ev])
         IN  [u EXCEPT !.stop = u.decision.owner \in owners]

ModelFailure(t, r, constraint) ==
    LET ev == RecordSemanticFailure(RecordControlledReason(t.ev, r))
    IN  LocalFailure(t, IF constraint THEN RecordConstraintFailure(ev) ELSE ev,
                     {"constraint", "semantic"})
ParserFailure(t, r) ==
    LocalFailure(t, RecordParserFailure(RecordControlledReason(t.ev, r)), {"parser"})
TriggerFailure(t, r) ==
    LocalFailure(t, RecordConstraintFailure(RecordControlledReason(t.ev, r)), {"constraint"})
BudgetFailure(t, r) ==
    LocalFailure(t, RecordUnknownFailure(RecordControlledReason(t.ev, r)), {"unknown"})

(* The guarantee that was asked for never became active; the runtime has   *)
(* already ended, so there is nothing to stop.                             *)
GuaranteeFailure(t, r) ==
    LocalFailure(t, RecordConstraintFailure(RecordSemanticFailure(
                        RecordControlledReason(t.ev, r))), {})

(* An exception that escapes a handler; the runtime is not told.           *)
UnknownFailure(t, r) ==
    LocalFailure(t, RecordUnknownFailure(RecordControlledReason(t.ev, r)), {})

-----------------------------------------------------------------------------
(* Semantic events and the end of the parser.                              *)

GateOperation(g, e) ==
    CASE e.kind = "tool_started" -> OnStarted(g, e)
      [] e.kind = "tool_delta" -> OnArgumentsDelta(g, e)
      [] e.kind = "tool_completed" -> OnCompleted(g, e, e.verdict)
      [] OTHER -> OnPassthrough(g, e)

ProcessSemantic(t, r, e) ==
    IF t.terminal THEN t
    ELSE LET d == GateOperation(t.gate, e)
         IN  IF d.fail # "none"
             THEN ModelFailure(t, r, t.proven /\ d.fail = "tool_call_invalid")
             ELSE QueueEvents([t EXCEPT !.gate = d.gate], d.out)

(* The events of one output, one after the other.                          *)
ProcessCall(t, r, c, verdict) ==
    LET started == ProcessSemantic(t, r, Event("tool_started", c, "valid"))
        given == ProcessSemantic(started, r, Event("tool_delta", c, "valid"))
    IN  ProcessSemantic(given, r, Event("tool_completed", c, verdict))

ProcessOutput(t, r, o) ==
    LET u == IF o.text THEN ProcessSemantic(t, r, Text) ELSE t
    IN  IF o.call = NoCall THEN u ELSE ProcessCall(u, r, o.call, o.verdict)

(* _finish_parser_events: f is what parser.finish() does, how it raises or *)
(* the events and the issue it returns.  Literal text waits for the        *)
(* verdict on the issue.                                                   *)
FinishParser(t, r, f) ==
    LET u == [t EXCEPT !.finished = TRUE]
    IN  IF t.finished THEN t
        ELSE CASE f.how = "constraint" -> TriggerFailure(u, r)
               [] f.how = "parser" -> ParserFailure(u, r)
               [] f.how = "ok" /\ f.literal -> [u EXCEPT !.deferred = f.out]
               [] OTHER -> ProcessOutput(u, r, f.out)

ToolSeen(t) ==
    \/ t.commit \in {"partial_tool", "tool_completed"}
    \/ t.gate.completed # <<>> \/ t.gate.buffered # <<>>

(* _outside_tool_literal_staging_allowed                                   *)
StagingAllowed(t, scope) ==
    scope = "outside" /\ ~ToolSeen(t) /\ ~policy.structured /\ ~policy.required

(* The two literal fallbacks, outside a Tool and inside an unconstrained   *)
(* one.                                                                    *)
FallbackAllowed(t, f, stop) ==
    /\ f.literal
    /\ t.ev.owner # "lifecycle"
    /\ \/ StagingAllowed(t, f.scope) /\ stop \in {"eos", "filter"}
       \/ /\ f.scope = "tool" /\ f.issue = "unresolved" /\ stop = "eos"
          /\ ~policy.required /\ ~policy.structured /\ ~policy.constrained /\ ~ToolSeen(t)

(* Faulty variant: a held batch is published whatever the decision is.     *)
BugCompleteSuccess(t) ==
    LET b == CommitEvents(t.gate)
        d == Resolve(t.ev, "final")
        u == QueueEvents([t EXCEPT !.gate = b.gate], b.out)
    IN  IF d.disp # "success" THEN Emit(u)
        ELSE [u EXCEPT !.pending = @ \o <<Plain("usage"), Plain("completed")>>,
                       !.decision = d, !.terminal = TRUE]

(* _complete_runtime_success: the held batch, usage and the completion     *)
(* are queued together, if nothing recorded forbids success.               *)
CompleteSuccess(t) ==
    LET b == CommitEvents(t.gate)
        d == Resolve(t.ev, "final")
        u == QueueEvents([t EXCEPT !.gate = b.gate], b.out)
    IN  IF d.disp # "success" THEN Emit(t)
        ELSE [u EXCEPT !.pending = @ \o <<Plain("usage"), Plain("completed")>>,
                       !.decision = d, !.terminal = TRUE]

HandleIssue(t, r, f, stop, active) ==
    IF FallbackAllowed(t, f, stop)
    THEN LET u == ProcessOutput([t EXCEPT !.deferred = NoOutput], r, t.deferred)
         IN  IF u.terminal THEN u ELSE CompleteSuccess(u)
    ELSE ModelFailure([t EXCEPT !.deferred = NoOutput], r,
             /\ active
             /\ f.issue = "incomplete" \/ f.scope = "tool"
             /\ f.issue = "hold" \/ stop \in {"eos", "filter"})

-----------------------------------------------------------------------------
(* Handlers of runtime events.  r is the controlled session's reason.      *)

(* The checks of a finished generation, in their order; shape says whether *)
(* the structured output kept its promise.                                 *)
Judge(t, r, stop, active, shape) ==
    LET calls == t.gate.completed # <<>>
    IN  IF t.ev.owner = "lifecycle" THEN Emit(t)
        ELSE IF calls /\ stop = "length" /\ active THEN ModelFailure(t, r, FALSE)
        ELSE IF policy.required /\ ~calls THEN ModelFailure(t, r, FALSE)
        ELSE IF calls /\ policy.strict /\ ~active THEN GuaranteeFailure(t, r)
        ELSE IF ~calls /\ policy.structured /\ shape = "unguaranteed"
        THEN GuaranteeFailure(t, r)
        ELSE IF ~calls /\ policy.structured /\ shape = "invalid"
        THEN ModelFailure(t, r, active)
        ELSE CompleteSuccess(t)

HandleFinished(t, r, stop, active, f, shape) ==
    LET u == FinishParser([t EXCEPT
                  !.ev = RecordRuntimeFinished(RecordControlledReason(@, r), stop),
                  !.proven = active], r, f)
    IN  IF u.terminal THEN u
        ELSE IF f.issue # "none" THEN HandleIssue(u, r, f, stop, active)
        ELSE Judge(u, r, stop, active, shape)

EmitUnlessTerminal(t) == IF t.terminal THEN t ELSE Emit(t)

(* The error is made commit-aware before the parser flushes what it held.  *)
HandleFailed(t, r, err, f) ==
    EmitUnlessTerminal(FinishParser([t EXCEPT
        !.ev = RecordRuntimeFailure(RecordControlledReason(@, r), Committed(t, err))], r, f))

HandleCancelled(t, r, f) ==
    LET ev == RecordControlledReason(t.ev, r)
    IN  EmitUnlessTerminal(FinishParser([t EXCEPT
            !.ev = IF ev.owner = "lifecycle" THEN ev ELSE RecordRuntimeCancelled(ev)], r, f))

(* Faulty variant: the ended iterator is read again for ever.              *)
BugHandleEnd(t, r, f) ==
    FinishParser([t EXCEPT
        !.ev = RecordRuntimeFailure(RecordControlledReason(@, r), "final")], r, f)

(* The iterator ended without a terminal event.  What the parser flushed   *)
(* is delivered first; the next read meets the ended iterator again.       *)
HandleEnd(t, r, f) ==
    LET u == FinishParser([t EXCEPT
                 !.ev = RecordRuntimeFailure(RecordControlledReason(@, r), "final")], r, f)
    IN  IF u.pending # <<>> THEN u ELSE EmitUnlessTerminal(u)

(* A text delta.  An early issue is final unless literal text may be       *)
(* staged; d is what the budget and the parser make of the delta.          *)
HandleDelta(t, r, d) ==
    CASE d.how = "parsed" -> ProcessOutput([t EXCEPT !.fed = TRUE], r, d.out)
      [] d.how = "early" ->
            LET u == ProcessOutput([t EXCEPT !.fed = TRUE], r, d.out)
            IN  IF u.terminal \/ StagingAllowed(u, d.scope) THEN u
                ELSE ModelFailure(u, r, FALSE)
      [] d.how = "constraint" -> TriggerFailure(t, r)
      [] d.how = "parser" -> ParserFailure(t, r)
      [] d.how = "budget" -> BudgetFailure(t, r)
      [] d.how = "raised" -> UnknownFailure(t, r)

-----------------------------------------------------------------------------
(* The parser's choices.                                                   *)

Outputs ==
    {NoOutput, TextOnly}
        \cup {o \in [text : BOOLEAN, call : Calls, verdict : Verdicts] :
                 o.text => o.verdict = "valid"}

Deltas ==
    [how : {"parsed"}, out : Outputs, scope : {"none"}]
        \cup [how : {"early"}, out : {NoOutput, TextOnly}, scope : {"outside", "tool"}]
        \cup [how : {"constraint", "parser", "budget", "raised"}, out : {NoOutput},
              scope : {"none"}]

(* A finish raises, or returns events with or without an issue; literal    *)
(* text is only offered for an ambiguity outside a Tool or an unresolved   *)
(* one inside.                                                             *)
FinishOutcomes ==
    [how : {"constraint", "parser"}, out : {NoOutput}, issue : {"none"}, scope : {"none"},
     literal : {FALSE}]
        \cup [how : {"ok"}, out : {NoOutput, TextOnly} \cup {Output(FALSE, c, "valid") : c \in Calls},
              issue : {"none"}, scope : {"none"}, literal : {FALSE}]
        \cup [how : {"ok"}, out : {NoOutput}, issue : {"incomplete"}, scope : {"tool"},
              literal : {FALSE}]
        \cup [how : {"ok"}, out : {NoOutput, TextOnly}, issue : {"unresolved"},
              scope : {"outside", "tool"}, literal : BOOLEAN]
        \cup [how : {"ok"}, out : {TextOnly}, issue : {"hold"}, scope : {"outside"},
              literal : BOOLEAN]
        \cup [how : {"ok"}, out : {NoOutput}, issue : {"hold"}, scope : {"tool"},
              literal : {FALSE}]

(* A parser that was fed nothing has nothing to say.                       *)
Finishes == {f \in FinishOutcomes : s.fed \/ (f.how = "ok" /\ f.out = NoOutput /\ f.issue = "none")}

Shapes == IF policy.structured THEN {"kept", "unguaranteed", "invalid"} ELSE {"kept"}
Activations == IF policy.constrained THEN BOOLEAN ELSE {FALSE}

-----------------------------------------------------------------------------
(* The controlled session.                                                 *)

Stopped(j) == IF j = "running" THEN "cancelled" ELSE j

(* The session after a handler; when it stops the runtime it awaits        *)
(* controlled.cancel(APPLICATION_CANCELLED), a no-op if that has been      *)
(* asked before or the iteration is over.                                  *)
Settle(t, c, j) ==
    /\ s' = [t EXCEPT !.stop = FALSE]
    /\ IF t.stop /\ ~c.over /\ ~c.asked
       THEN /\ ctl' = [c EXCEPT !.reason = First(@, "application_cancelled"), !.asked = TRUE]
            /\ job' = Stopped(j)
            /\ reader' = "stop"
       ELSE /\ ctl' = c
            /\ job' = j
            /\ reader' = "out"

Over(reason) == [ctl EXCEPT !.reason = First(@, reason), !.over = TRUE]

(* ControlledSession.__anext__ hands event e on and the session handles it.*)
Receives(e, j) ==
    \/ /\ e.kind = "started"
       /\ Settle([s EXCEPT !.pending = Append(@, Plain("started"))], ctl, j)
    \/ /\ e.kind = "delta"
       /\ \E d \in Deltas : Settle(HandleDelta(s, ctl.reason, d), ctl, j)
    \/ /\ e.kind = "finished"
       /\ LET c == Over("completed")
          IN  \E f \in Finishes, active \in Activations, shape \in Shapes :
                 Settle(HandleFinished(s, c.reason, e.verdict, active, f, shape), c, j)
    \/ /\ e.kind = "failed"
       /\ LET c == Over("runtime_failed")
          IN  \E f \in Finishes : Settle(HandleFailed(s, c.reason, e.verdict, f), c, j)
    \/ /\ e.kind = "cancelled"
       /\ LET c == Over("runtime_cancelled")
          IN  \E f \in Finishes : Settle(HandleCancelled(s, c.reason, f), c, j)
    \/ /\ e.kind = "ended"
       /\ \E f \in Finishes :
             Settle(HandleEnd(s, ctl.reason, f), [ctl EXCEPT !.over = TRUE], j)
    \/ /\ e.kind = "raised"
       /\ Settle(UnknownFailure(s, ctl.reason), [ctl EXCEPT !.over = TRUE], j)

(* What the runtime session may yield next.  A cancelled one may still     *)
(* hand over events it had buffered.                                       *)
RuntimeEvents ==
    (IF n = 0 THEN {Plain("started")} ELSE {})
        \cup (IF n < MaxDeltas THEN {Plain("delta")} ELSE {})
        \cup {Event("finished", NoCall, stop) : stop \in StopReasons}
        \cup {Event("failed", NoCall, err) : err \in {"retry", "final"}}
        \cup {Plain("cancelled"), Plain("ended"), Plain("raised")}

(* The runtime answers the waiting reader.  With a deadline the reader     *)
(* first reaps the deadline task: the event is in its hand meanwhile.      *)
RuntimeYields ==
    /\ job # "ended"
    /\ reader \in {"timed", "plain"}
    /\ \E e \in RuntimeEvents :
          LET more == e.kind \in {"started", "delta"}
              j == IF more THEN job ELSE "ended"
          IN  /\ n' = IF more THEN n + 1 ELSE n
              /\ IF reader = "timed"
                 THEN /\ got' = e /\ reader' = "window" /\ job' = j
                      /\ UNCHANGED <<s, ctl>>
                 ELSE Receives(e, j) /\ UNCHANGED got
    /\ UNCHANGED <<policy, canceller, seen>>

WindowCloses ==
    /\ reader = "window"
    /\ Receives(got, job)
    /\ got' = Plain("none")
    /\ UNCHANGED <<policy, n, canceller, seen>>

(* The deadline passes: the runtime is cancelled, then its pending answer  *)
(* is awaited, whatever it is.                                             *)
DeadlinePasses ==
    /\ reader = "timed"
    /\ ctl' = [ctl EXCEPT !.reason = First(@, "timeout"), !.asked = TRUE]
    /\ job' = Stopped(job)
    /\ reader' = IF ctl.asked THEN "plain" ELSE "expired"
    /\ UNCHANGED <<policy, s, n, got, canceller, seen>>

ExpiryCancelled ==
    /\ reader = "expired"
    /\ \/ reader' = "plain" /\ UNCHANGED <<s, ctl, job>>
       \/ CancelMayFail /\ Receives(Plain("raised"), job)
    /\ UNCHANGED <<policy, n, got, canceller, seen>>

(* controlled.cancel() of a local failure returns, or raises and is logged.*)
StopEnds ==
    /\ reader = "stop"
    /\ reader' = "out"
    /\ UNCHANGED <<policy, s, ctl, job, n, got, canceller, seen>>

-----------------------------------------------------------------------------
(* The tasks that use the session.                                         *)

(* __anext__: a queued event, the end, or the next runtime event.          *)
Read ==
    /\ reader = "out"
    /\ \/ /\ s.pending # <<>>
          /\ seen' = Append(seen, Head(s.pending))
          /\ s' = [s EXCEPT !.pending = Tail(@)]
          /\ UNCHANGED <<ctl, job, reader>>
       \/ /\ s.pending = <<>> /\ s.terminal
          /\ reader' = "done"
          /\ UNCHANGED <<s, ctl, job, seen>>
       \/ /\ s.pending = <<>> /\ ~s.terminal /\ ctl.over
          /\ Receives(Plain("ended"), job)
          /\ UNCHANGED seen
       \/ /\ s.pending = <<>> /\ ~s.terminal /\ ~ctl.over
          /\ reader' = IF HasDeadline /\ ~ctl.asked THEN "timed" ELSE "plain"
          /\ UNCHANGED <<s, ctl, job, seen>>
    /\ UNCHANGED <<policy, n, got, canceller>>

(* The reading task is cancelled where it waits, and does not come back.   *)
ReaderCancelled ==
    /\ reader \in {"timed", "plain", "window", "expired", "stop"}
    /\ reader' = "gone"
    /\ got' = Plain("none")
    /\ IF reader = "stop" THEN UNCHANGED <<ctl, job>>
       ELSE /\ ctl' = [Over("client_cancelled") EXCEPT !.asked = TRUE]
            /\ job' = Stopped(job)
    /\ UNCHANGED <<policy, s, n, canceller, seen>>

(* controlled.cancel(reason), by whoever calls it.                         *)
Asks(reason) ==
    IF ctl.over \/ ctl.asked THEN UNCHANGED <<ctl, job>>
    ELSE /\ ctl' = [ctl EXCEPT !.reason = First(@, reason), !.asked = TRUE]
         /\ job' = Stopped(job)

(* ServingSession.cancel from another task; the Tool batch is aborted      *)
(* before the runtime is asked to stop.                                    *)
Cancel ==
    /\ canceller = "idle"
    /\ IF s.terminal
       THEN canceller' = "done" /\ UNCHANGED <<s, ctl, job>>
       ELSE /\ s' = [s EXCEPT !.gate = Abort(@)]
            /\ canceller' = IF ctl.over \/ ctl.asked THEN "done" ELSE "waiting"
            /\ Asks("client_cancelled")
    /\ UNCHANGED <<policy, n, reader, got, seen>>

CancelReturns ==
    /\ canceller = "waiting"
    /\ canceller' = "done"
    /\ UNCHANGED <<policy, s, ctl, job, n, reader, got, seen>>

(* The controller closes.                                                  *)
ControllerCancels ==
    /\ ~ctl.over /\ ~ctl.asked
    /\ \E reason \in {"server_shutdown", "model_switch"} : Asks(reason)
    /\ UNCHANGED <<policy, s, n, reader, got, canceller, seen>>

Next ==
    \/ Read \/ RuntimeYields \/ WindowCloses \/ DeadlinePasses \/ ExpiryCancelled
    \/ StopEnds \/ ReaderCancelled \/ Cancel \/ CancelReturns \/ ControllerCancels

Spec == Init /\ [][Next]_vars

(* The caller keeps reading, the runtime answers, and awaited              *)
(* cancellations return: the reading task is not stopped for ever.         *)
ReaderStep == Read \/ RuntimeYields \/ WindowCloses \/ ExpiryCancelled \/ StopEnds
FairSpec == Spec /\ WF_vars(ReaderStep)

-----------------------------------------------------------------------------
(* Properties.                                                             *)

SemanticKinds == {"text", "tool_started", "tool_delta", "tool_completed"}
OfKind(q, kinds) == {i \in DOMAIN q : q[i].kind \in kinds}

(* The stream ends in exactly one terminal event, nothing follows it, and  *)
(* it tells the one decision of the session.  A generation that a client,  *)
(* the deadline or the server ended is reported as ended by them, for the  *)
(* first reason given, and a generation nobody ended never is: neither a   *)
(* completion, a runtime failure nor a bad output that arrives late hides  *)
(* it.                                                                     *)
OneOwnedTerminal ==
    LET q == Queued
        final == OfKind(q, Terminals)
    IN  /\ s.terminal <=> final # {}
        /\ final \subseteq {Len(q)}
        /\ s.terminal =>
              /\ q[Len(q)].kind = CASE s.decision.disp = "success" -> "completed"
                                    [] s.decision.disp = "failure" -> "failed"
                                    [] OTHER -> "cancelled"
              /\ s.decision.owner = "lifecycle" => ctl.reason = s.ev.origin
              /\ s.decision.owner \notin {"lifecycle", "unknown"}
                    => ctl.reason \notin Lifecycle

(* The completed calls among the events q are the calls of c, in order.    *)
Completes(q, c) ==
    \E at \in [DOMAIN c -> DOMAIN q] :
        /\ \A i, j \in DOMAIN c : i < j => at[i] < at[j]
        /\ {at[i] : i \in DOMAIN c} = OfKind(q, {"tool_completed"})
        /\ \A i \in DOMAIN c : q[at[i]].call = c[i]

(* The outcome is the same for everybody.  Completed Tool calls reach the  *)
(* caller only in front of a successful completion, and then all of them,  *)
(* in the order the model made them; and a session that failed on the      *)
(* model's output does not leave the runtime generating for nobody.        *)
OutcomeIsConsistent ==
    /\ OfKind(Queued, {"tool_completed"}) # {} => s.decision.disp = "success"
    /\ s.decision.disp = "success" => Completes(Queued, s.gate.completed)
    /\ s.terminal /\ s.decision.owner \in {"constraint", "parser", "semantic"}
          => job # "running"

(* What a step may not add to the stream.  Once cancel() aborted the Tool  *)
(* batch, no output of the model, though deltas may still arrive; and no   *)
(* failure that tells the client to retry behind output it was given       *)
(* before that step (commit_aware_error).  Text that the parser still held *)
(* is flushed in the step of a failure itself, after the error was judged: *)
(* such a failure may say retry.                                           *)
NothingUnfit ==
    [][/\ s.gate.life = "ABORTED" =>
              OfKind(Queued', SemanticKinds) = OfKind(Queued, SemanticKinds)
       /\ \A i \in OfKind(Queued', {"failed"}) \ OfKind(Queued, {"failed"}) :
             Queued'[i].verdict = "retry" => OfKind(Queued, SemanticKinds) = {}]_vars

(* The session is a terminal stream for the task that reads it, also when  *)
(* its runtime ends, raises or is cancelled: it is brought to its end, and *)
(* to no end but a terminal event.                                         *)
Reader == IF OfKind(seen, Terminals) # {} THEN "ended"
          ELSE IF reader = "gone" THEN "left" ELSE "reading"

Stream == INSTANCE TerminalStream WITH
    Outputs <- SemanticKinds,
    stream <- [i \in DOMAIN seen |-> [kind |-> seen[i].kind, source |-> 1]],
    reader <- Reader

ImplementsStream == Stream!Spec
=============================================================================
