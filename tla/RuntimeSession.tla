--------------------------- MODULE RuntimeSession ---------------------------
(***************************************************************************)
(* One RuntimeSession of runtime/exllamav3.py: the asynchronous adapter    *)
(* between the queue of a backend job and the runtime events its consumer  *)
(* iterates, with cancellation, backend failure and the bounded draining   *)
(* and coalescing of results that are ready.                               *)
(*                                                                         *)
(* Text is a sequence of numbered pieces, one per generated token; a       *)
(* native piece is a control token, and the lowest of them triggers the    *)
(* hard constraint.  The backend job (AsyncJob of ExLlamaV3) is external:  *)
(* its queue holds results, an exception, or the end-of-iteration sentinel.*)
(***************************************************************************)
EXTENDS Naturals, Sequences, FiniteSets, SequencesExt

CONSTANTS
  MaxPieces,   \* bound on the pieces the backend generates
  DrainMax,    \* _READY_STREAM_DRAIN_MAX_RESULTS
  Constrained  \* whether a triggered hard constraint is installed

ASSUME BoundAssumption == MaxPieces \in Nat /\ DrainMax \in Nat \ {0}
ASSUME FlagAssumption == Constrained \in BOOLEAN

VARIABLES
  provenance, \* whether the tokenizer gives piece tables
  backend,    \* the backend job: "queued", "running", "over", or "ended" without a result
  genError,   \* generator.error is set
  produced,   \* every piece generated so far
  queue,      \* the job's result queue
  taken,      \* result of the next_result task, or <<>>
  pending,    \* _pending
  pc,         \* the consumer: "idle", "waiting" in __anext__, "gone"
  cancelPc,   \* cancel(): "idle", "requested", "cancelling", "done"
  cancelEvent,\* _cancel_event
  terminal,   \* _terminal
  activated,  \* _constraint_state.activated
  events      \* the events handed to the consumer

vars == <<provenance, backend, genError, produced, queue, taken, pending, pc, cancelPc, cancelEvent,
          terminal, activated, events>>

----------------------------------------------------------------------------
(* Results of the backend.                                                 *)
Piece(n, native) == [id |-> n, native |-> native]
Pieces == [id : 1..MaxPieces, native : BOOLEAN]

Started == [kind |-> "started"]
Exception == [kind |-> "exception"]
Sentinel == [kind |-> "sentinel"]
Streaming(pieces, verified, eos) ==
  [kind |-> "streaming", pieces |-> pieces, verified |-> verified, eos |-> eos]

IsStreaming(item) == item.kind = "streaming"
IsLast(item) == IsStreaming(item) /\ item.eos
IsStop(item) == item.kind \in {"exception", "sentinel"}

(* Runtime events.  spans are the positions of the native pieces; a delta  *)
(* without verified provenance has none.                                   *)
NoSpans == [known |-> FALSE, at |-> {}]
NativeSpans(pieces) == [known |-> TRUE, at |-> {i \in DOMAIN pieces : pieces[i].native}]
TextDelta(pieces, spans) == [kind |-> "text", pieces |-> pieces, spans |-> spans]
Finished(active) == [kind |-> "finished", activated |-> active]
Cancelled == [kind |-> "cancelled"]
Failed == [kind |-> "failed"]
Terminals == {"finished", "cancelled", "failed"}

----------------------------------------------------------------------------
(* _drain_ready_stream_results(): how many queued items go with the first   *)
(* result.  Draining stops at the limit, at an exception, a sentinel or    *)
(* the last result; the result that stops it is consumed with the others.  *)
DrainStops(q, n) == IsStop(q[n]) \/ IsLast(q[n])

Drained(first) ==
  IF ~IsStreaming(first) \/ IsLast(first) THEN 0
  ELSE LET limit == IF Len(queue) < DrainMax - 1 THEN Len(queue) ELSE DrainMax - 1
           stops == {n \in 1..limit : DrainStops(queue, n)}
       IN  IF stops = {} THEN limit ELSE CHOOSE n \in stops : \A m \in stops : n <= m

ReadyResults(first) ==
  FoldLeft(LAMBDA ready, item : IF IsStreaming(item) THEN Append(ready, item) ELSE ready,
           <<first>>, SubSeq(queue, 1, Drained(first)))

(* An exception met while draining is raised, and the batch is lost.       *)
DrainRaises(first) ==
  Drained(first) > 0 /\ queue[Drained(first)].kind = "exception"

(* _merge_ready_stream_results(): one result with all the text, ending as  *)
(* the last one; the merged text is verified as a whole, and provenance is *)
(* off on this path.                                                       *)
Concat(seqs) == FoldLeft(LAMBDA acc, s : acc \o s, <<>>, seqs)

Merged(results) ==
  IF Len(results) = 1 THEN results[1]
  ELSE Streaming(Concat([i \in DOMAIN results |-> results[i].pieces]), FALSE,
                 results[Len(results)].eos)

(* translate_exllamav3_result(): a delta when there is text, then the end. *)
Translated(result, active) ==
  IF result.kind = "started" THEN <<Started>>
  ELSE (IF result.pieces = <<>> THEN <<>>
        ELSE <<TextDelta(result.pieces,
                         IF provenance /\ result.verified
                           THEN NativeSpans(result.pieces) ELSE NoSpans)>>)
       \o (IF result.eos THEN <<Finished(active)>> ELSE <<>>)

(* Faulty variant: the spans of the second delta are not shifted.          *)
BugMergedDelta(first, second) ==
  TextDelta(first.pieces \o second.pieces,
            [known |-> TRUE, at |-> first.spans.at \cup second.spans.at])

(* _merge_verified_text_deltas(): the spans of the second delta move by    *)
(* the length of the first.                                                *)
MergedDelta(first, second) ==
  TextDelta(first.pieces \o second.pieces,
            [known |-> TRUE,
             at |-> first.spans.at \cup {i + Len(first.pieces) : i \in second.spans.at}])

Verified(event) == event.kind = "text" /\ event.spans.known

(* _coalesce_verified_runtime_text_deltas().                               *)
Coalesced(translated) ==
  FoldLeft(LAMBDA acc, event :
             IF acc # <<>> /\ Verified(event) /\ Verified(acc[Len(acc)])
               THEN Append(Front(acc), MergedDelta(acc[Len(acc)], event))
               ELSE Append(acc, event),
           <<>>, translated)

(* observe_token_ids(): the first native piece activates the constraint.   *)
Triggers(results) ==
  Constrained /\ \E i \in DOMAIN results :
    IsStreaming(results[i]) /\ \E j \in DOMAIN results[i].pieces : results[i].pieces[j].native

(* The events of one batch.                                                *)
BatchEvents(results, active) ==
  IF provenance
    THEN Coalesced(Concat([i \in DOMAIN results |-> Translated(results[i], active)]))
    ELSE Translated(Merged(results), active)

----------------------------------------------------------------------------
TypeOK ==
  /\ provenance \in BOOLEAN
  /\ backend \in {"queued", "running", "over", "ended"}
  /\ genError \in BOOLEAN /\ cancelEvent \in BOOLEAN
  /\ terminal \in BOOLEAN /\ activated \in BOOLEAN
  /\ produced \in Seq(Pieces) /\ Len(produced) <= MaxPieces
  /\ pc \in {"idle", "waiting", "gone"}
  /\ cancelPc \in {"idle", "requested", "cancelling", "done"}
  /\ Len(taken) <= 1
  /\ pc # "waiting" => taken = <<>>

Init ==
  /\ provenance \in BOOLEAN
  /\ backend = "queued" /\ genError = FALSE
  /\ produced = <<>> /\ queue = <<>> /\ taken = <<>> /\ pending = <<>>
  /\ pc = "idle" /\ cancelPc = "idle" /\ cancelEvent = FALSE
  /\ terminal = FALSE /\ activated = FALSE /\ events = <<>>

----------------------------------------------------------------------------
(* The backend job.                                                        *)
consumer == <<provenance, taken, pending, pc, cancelPc, cancelEvent, terminal, activated, events>>

JobStarts ==
  /\ backend = "queued"
  /\ backend' = "running"
  /\ queue' = Append(queue, Started)
  /\ UNCHANGED <<genError, produced, consumer>>

(* The next piece.  The pieces of a token that does not decode alone are   *)
(* not verified.                                                           *)
JobGenerates(native, verified, eos) ==
  /\ backend = "running" /\ Len(produced) < MaxPieces
  /\ LET p == Piece(Len(produced) + 1, native)
     IN  /\ produced' = Append(produced, p)
         /\ queue' = Append(queue, Streaming(<<p>>, verified, eos))
  /\ backend' = IF eos THEN "over" ELSE backend
  /\ UNCHANGED <<genError, consumer>>

(* A result whose text is held back by the backend.                        *)
JobHoldsText ==
  /\ backend = "running" /\ Len(queue) < MaxPieces
  /\ queue' = Append(queue, Streaming(<<>>, TRUE, FALSE))
  /\ UNCHANGED <<backend, genError, produced, consumer>>

(* A stop without text of its own.                                         *)
JobStops ==
  /\ backend = "running"
  /\ backend' = "over"
  /\ queue' = Append(queue, Streaming(<<>>, TRUE, TRUE))
  /\ UNCHANGED <<genError, produced, consumer>>

(* The generator dies: its error is set, and every job that it still has   *)
(* receives it.  The session sees the error even when its own job is over. *)
GeneratorFails ==
  /\ ~genError /\ genError' = TRUE
  /\ IF backend \in {"queued", "running"}
       THEN backend' = "over" /\ queue' = Append(queue, Exception)
       ELSE UNCHANGED <<backend, queue>>
  /\ UNCHANGED <<produced, consumer>>

(* The iteration will end without a last result.                           *)
JobEndsEarly ==
  /\ backend = "running"
  /\ backend' = "ended"
  /\ UNCHANGED <<genError, produced, queue, consumer>>

----------------------------------------------------------------------------
(* cancel().                                                               *)
CancelBegins ==
  /\ cancelPc = "idle" /\ ~terminal
  /\ cancelPc' = "requested"
  /\ UNCHANGED <<provenance, backend, genError, produced, queue, taken, pending, pc, cancelEvent,
                 terminal, activated, events>>

(* job.cancel() ends the job and queues the sentinel.                      *)
JobCancelled ==
  /\ cancelPc = "requested"
  /\ cancelPc' = "cancelling"
  /\ backend' = "over"
  /\ queue' = Append(queue, Sentinel)
  /\ UNCHANGED <<provenance, genError, produced, taken, pending, pc, cancelEvent, terminal,
                 activated, events>>

(* job.cancel() returns, or raises at any point: the event is set.         *)
CancelEnds ==
  /\ cancelPc \in {"requested", "cancelling"}
  /\ cancelPc' = "done" /\ cancelEvent' = TRUE
  /\ UNCHANGED <<provenance, backend, genError, produced, queue, taken, pending, pc, terminal,
                 activated, events>>

----------------------------------------------------------------------------
(* __anext__().                                                            *)
Deliver(event) ==
  /\ events' = Append(events, event)
  /\ terminal' = (terminal \/ event.kind \in Terminals)

shared == <<provenance, backend, genError, produced, cancelPc, cancelEvent>>

(* Faulty variant: a dead generator does not drop the batch.               *)
BugNextPending ==
  /\ pc = "idle" /\ pending # <<>>
  /\ IF ~cancelEvent /\ genError
       THEN UNCHANGED pending /\ Deliver(Failed)
       ELSE pending' = Tail(pending) /\ Deliver(Head(pending))
  /\ UNCHANGED <<shared, queue, taken, pc, activated>>

(* Events of an earlier batch: a dead generator drops them, unless the     *)
(* session was cancelled.                                                  *)
NextPending ==
  /\ pc = "idle" /\ pending # <<>>
  /\ IF ~cancelEvent /\ genError
       THEN pending' = <<>> /\ Deliver(Failed)
       ELSE pending' = Tail(pending) /\ Deliver(Head(pending))
  /\ UNCHANGED <<shared, queue, taken, pc, activated>>

(* Nothing pending: cancelled or failed at once, or wait.                  *)
NextWaits ==
  /\ pc = "idle" /\ pending = <<>> /\ ~terminal
  /\ IF cancelEvent THEN Deliver(Cancelled) /\ UNCHANGED pc
     ELSE IF genError THEN Deliver(Failed) /\ UNCHANGED pc
     ELSE pc' = "waiting" /\ UNCHANGED <<events, terminal>>
  /\ UNCHANGED <<shared, queue, taken, pending, activated>>

(* The next_result task takes a result from the queue, or meets the end of *)
(* the iteration.                                                          *)
ResultTaken ==
  /\ pc = "waiting" /\ taken = <<>>
  /\ IF queue # <<>>
       THEN taken' = <<Head(queue)>> /\ queue' = Tail(queue)
       ELSE backend = "ended" /\ taken' = <<Sentinel>> /\ UNCHANGED queue
  /\ UNCHANGED <<shared, pending, pc, terminal, activated, events>>

(* A result and what is ready behind it: a dead generator fails the session *)
(* and drops them; a batch without events is followed by another wait.     *)
ProcessBatch(first) ==
  /\ queue' = SubSeq(queue, Drained(first) + 1, Len(queue))
  /\ IF DrainRaises(first) \/ genError
       THEN pc' = "idle" /\ Deliver(Failed) /\ UNCHANGED <<pending, activated>>
       ELSE \E results \in {ReadyResults(first)} :
            LET active == activated \/ Triggers(results)
                batch == BatchEvents(results, active)
            IN  /\ activated' = active
                /\ IF batch = <<>>
                     THEN UNCHANGED <<pc, pending, events, terminal>>
                     ELSE pc' = "idle" /\ pending' = Tail(batch) /\ Deliver(Head(batch))

(* The wait returns.  Cancellation wins over a result, and an exception or *)
(* an early end is a failure.                                              *)
WaitReturns ==
  /\ pc = "waiting" /\ (taken # <<>> \/ cancelEvent)
  /\ taken' = <<>>
  /\ IF cancelEvent
       THEN pc' = "idle" /\ Deliver(Cancelled) /\ UNCHANGED <<queue, pending, activated>>
     ELSE IF IsStop(taken[1])
       THEN pc' = "idle" /\ Deliver(Failed) /\ UNCHANGED <<queue, pending, activated>>
     ELSE ProcessBatch(taken[1])
  /\ UNCHANGED shared

(* The consuming task is cancelled while it waits: the session is cancelled *)
(* and iterated no more.                                                   *)
ConsumerCancelled ==
  /\ pc = "waiting"
  /\ pc' = "gone" /\ taken' = <<>>
  /\ cancelPc' = IF cancelPc = "idle" THEN "requested" ELSE cancelPc
  /\ UNCHANGED <<provenance, backend, genError, produced, queue, pending, cancelEvent, terminal,
                 activated, events>>

----------------------------------------------------------------------------
Backend ==
  \/ JobStarts
  \/ \E native, verified, eos \in BOOLEAN : JobGenerates(native, verified, eos)
  \/ JobStops

Consumer == NextPending \/ NextWaits \/ ResultTaken \/ WaitReturns

(* Nothing is left to do: the consumer has its terminal event or is gone.  *)
Idle ==
  /\ (terminal /\ pending = <<>>) \/ pc = "gone"
  /\ UNCHANGED vars

Next ==
  \/ Backend \/ JobHoldsText \/ GeneratorFails \/ JobEndsEarly
  \/ CancelBegins \/ JobCancelled \/ CancelEnds
  \/ Consumer \/ ConsumerCancelled
  \/ Idle

Spec == Init /\ [][Next]_vars

(* The backend keeps generating, job.cancel() ends and the consumer keeps  *)
(* iterating.                                                              *)
FairSpec ==
  /\ Spec /\ WF_vars(Backend) /\ WF_vars(CancelEnds) /\ WF_vars(Consumer)

----------------------------------------------------------------------------
Text(es) == Concat([i \in DOMAIN es |-> IF es[i].kind = "text" THEN es[i].pieces ELSE <<>>])

(* Whatever was drained, merged, held back or dropped, the consumer has a  *)
(* prefix of the generated text: nothing lost in the middle, repeated or   *)
(* reordered, and never more than the drain limit in one delta.  A session *)
(* that reports a finished generation has delivered all of it, and reports *)
(* the constraint as activated exactly when its trigger was among the      *)
(* delivered tokens.  Coalescing keeps every native span on the control    *)
(* token it stands for.                                                    *)
DeliveryIsExact ==
  /\ IsPrefix(Text(events), produced)
  /\ \A i \in DOMAIN events :
       Verified(events[i]) => events[i].spans = NativeSpans(events[i].pieces)
  /\ \A i \in DOMAIN events :
       /\ events[i].kind = "text" => Len(events[i].pieces) <= DrainMax
       /\ events[i].kind = "finished" =>
            /\ Text(events) = produced
            /\ events[i].activated =
                 (Constrained /\ \E j \in DOMAIN produced : produced[j].native)

(* The session is a terminal stream for its consumer: one terminal event   *)
(* and nothing after it, whichever of the end of the generation, the       *)
(* cancellation and the backend failure came first; and it ends, after the *)
(* last result, a failure, an early end or a cancellation, even one whose  *)
(* sentinel was drained.                                                   *)
Reader == IF terminal THEN "ended" ELSE IF pc = "gone" THEN "left" ELSE "reading"

Stream == INSTANCE TerminalStream WITH
  Outputs <- {"text"},
  stream <- [i \in DOMAIN events |-> [kind |-> events[i].kind, source |-> 1]],
  reader <- Reader

ImplementsStream == Stream!Spec
=============================================================================
