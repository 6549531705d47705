----------------------------- MODULE RawSession -----------------------------
(***************************************************************************)
(* The session of a raw completion (serving/raw.py, RawServingSession):    *)
(* the events of one controlled runtime session, passed on without a       *)
(* parser, and the one decision about how they end.  A session is a value; *)
(* each handler runs without an await and is an operator on it.  reason    *)
(* is the terminal reason of the controlled session at that moment.        *)
(***************************************************************************)
EXTENDS TerminalEvidence, Sequences

Terminals == {"completed", "failed", "cancelled"}

(* What the runtime may do next: an event, the end of the iterator, or an  *)
(* exception out of it.                                                    *)
RuntimeEnds == {"finished", "runtime_failed", "runtime_cancelled", "stop", "raised"}

NewRaw ==
    [pending |-> <<>>, text |-> FALSE, ev |-> NoEvidence, decision |-> NoDecision,
     terminal |-> FALSE, cancelled |-> FALSE]

(* _emit_terminal_decision                                                 *)
EmitDecision(t, d) ==
    [t EXCEPT !.pending = Append(@, IF d.disp = "failure" THEN "failed" ELSE "cancelled"),
              !.decision = d, !.terminal = TRUE]

(* _finish: everything that ends a success is queued together              *)
FinishRaw(t, reason, stop) ==
    LET ev == RecordRuntimeFinished(RecordControlledReason(t.ev, reason), stop)
        d  == Resolve(ev, "final")
    IN  IF d.disp # "success" THEN EmitDecision([t EXCEPT !.ev = ev], d)
        ELSE [t EXCEPT !.ev = ev, !.text = TRUE, !.decision = d, !.terminal = TRUE,
                       !.pending = @ \o (IF t.text THEN <<>> ELSE <<"text_started">>)
                                     \o <<"text_completed", "usage", "completed">>]

(* _cancel_event: the runtime says it was cancelled; who asked for it      *)
CancelEvent(t, reason) ==
    LET ev == RecordControlledReason(t.ev, reason)
        e2 == IF ev.owner = "lifecycle" THEN ev ELSE RecordRuntimeCancelled(ev)
    IN  EmitDecision([t EXCEPT !.ev = e2], Resolve(e2, "final"))

(* A failure of the runtime, typed or not.                                 *)
FailRaw(t, reason, unknown) ==
    LET ev == RecordControlledReason(t.ev, reason)
        e2 == IF unknown THEN RecordUnknownFailure(ev) ELSE RecordRuntimeFailure(ev, "final")
    IN  IF t.terminal THEN t ELSE EmitDecision([t EXCEPT !.ev = e2], Resolve(e2, "final"))

(* _process_runtime, and what __anext__ makes of the end of the iterator   *)
ProcessRaw(t, reason, e) ==
    CASE e = "started" -> [t EXCEPT !.pending = Append(@, "started")]
      [] e = "delta" ->
            [t EXCEPT !.text = TRUE,
                      !.pending = @ \o (IF t.text THEN <<>> ELSE <<"text_started">>) \o <<"text">>]
      [] e = "finished" -> FinishRaw(t, reason, "eos")
      [] e = "runtime_cancelled" -> CancelEvent(t, reason)
      [] OTHER -> FailRaw(t, reason, e = "raised")
=============================================================================
