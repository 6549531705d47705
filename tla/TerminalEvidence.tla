-------------------------- MODULE TerminalEvidence --------------------------
(***************************************************************************)
(* How one generation ends (serving/terminal.py): the evidence a session   *)
(* collects about its end, and the one decision drawn from it.             *)
(*                                                                         *)
(* An error is reduced to whether the client is told that it may retry:    *)
(* "retry", "final", or "none" when there is no error.                     *)
(***************************************************************************)

Lifecycle == {"client_cancelled", "timeout", "server_shutdown", "model_switch"}
StopReasons == {"eos", "stop_string", "length", "filter", "loop", "other"}
Errors == {"none", "retry", "final"}
Owners == {"none", "lifecycle", "runtime", "constraint", "parser", "semantic",
           "unknown", "normal"}

NoEvidence ==
    [owner |-> "none", origin |-> "none", rfail |-> "none", rcancel |-> FALSE,
     stop |-> "none", cfail |-> "none", pfail |-> "none", sfail |-> "none",
     ufail |-> "none"]

Claim(ev, owner) == IF ev.owner = "none" THEN [ev EXCEPT !.owner = owner] ELSE ev
First(old, new) == IF old = "none" THEN new ELSE old

(* Only the reasons a client, the deadline or the server gave count.       *)
RecordControlledReason(ev, reason) ==
    IF reason \notin Lifecycle THEN ev
    ELSE Claim([ev EXCEPT !.origin = First(@, reason)], "lifecycle")

RecordRuntimeFinished(ev, stop) == [ev EXCEPT !.stop = stop]
RecordRuntimeFailure(ev, err) == Claim([ev EXCEPT !.rfail = First(@, err)], "runtime")
RecordRuntimeCancelled(ev) == Claim([ev EXCEPT !.rcancel = TRUE], "runtime")
RecordParserFailure(ev) == [ev EXCEPT !.pfail = First(@, "final")]
RecordConstraintFailure(ev) == [ev EXCEPT !.cfail = First(@, "final")]
RecordSemanticFailure(ev) == [ev EXCEPT !.sfail = First(@, "final")]
RecordUnknownFailure(ev) == [ev EXCEPT !.ufail = First(@, "final")]

NoDecision == [disp |-> "none", owner |-> "none", err |-> "none"]
Fails(owner, err) == [disp |-> "failure", owner |-> owner, err |-> err]
Cancels(owner) == [disp |-> "cancellation", owner |-> owner, err |-> "none"]
Succeeds == [disp |-> "success", owner |-> "normal", err |-> "none"]

(* Faulty variant: what the parser found is ranked before who ended it.    *)
BugResolve(ev, timeout) ==
    CASE ev.sfail # "none" -> Fails("semantic", ev.sfail)
      [] ev.sfail = "none" /\ ev.owner = "lifecycle" ->
            IF ev.origin = "timeout" THEN Fails("lifecycle", timeout) ELSE Cancels("lifecycle")
      [] OTHER -> IF ev.stop = "none" THEN Fails("unknown", "final") ELSE Succeeds

(* TerminalEvidence.resolve: who ended the generation ranks first, then    *)
(* how the runtime stopped, then what was wrong with the output.  timeout  *)
(* is the error of a passed deadline.                                      *)
Resolve(ev, timeout) ==
    CASE ev.owner = "lifecycle" ->
            IF ev.origin = "timeout" THEN Fails("lifecycle", timeout) ELSE Cancels("lifecycle")
      [] ev.owner = "runtime" ->
            IF ev.rfail # "none" THEN Fails("runtime", ev.rfail) ELSE Cancels("runtime")
      [] ev.owner = "none" ->
            CASE ev.stop = "loop" -> Fails("runtime", "final")
              [] ev.stop = "other" -> Fails("unknown", "final")
              [] OTHER ->
                    IF ev.cfail # "none" THEN Fails("constraint", ev.cfail)
                    ELSE IF ev.pfail # "none" THEN Fails("parser", ev.pfail)
                    ELSE IF ev.sfail # "none" THEN Fails("semantic", ev.sfail)
                    ELSE IF ev.ufail # "none" THEN Fails("unknown", ev.ufail)
                    ELSE IF ev.stop = "none" THEN Fails("unknown", "final")
                    ELSE Succeeds
=============================================================================
