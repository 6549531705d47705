--------------------------- MODULE TerminalStream ---------------------------
(***************************************************************************)
(* What every layer of the server promises to whoever iterates a response, *)
(* and relies on from the layer below: a stream that only grows, whose     *)
(* output comes from one source, and that is ended by exactly one terminal *)
(* event, behind which nothing comes, unless its reader leaves first.      *)
(*                                                                         *)
(* The sessions of the runtime, of one attempt and of the recovering       *)
(* request implement it; each of them instantiates this module.            *)
(***************************************************************************)
EXTENDS Naturals, Sequences

CONSTANTS
    Outputs,    \* the kinds of event that carry output of the model
    Terminals   \* the kinds of event that end a stream

VARIABLES
    stream,     \* the events given to the reader: records with kind and source
    reader      \* "reading", "ended" by a terminal event, or "left"

vars == <<stream, reader>>

Init ==
    /\ stream = <<>>
    /\ reader = "reading"

OfKind(events, kinds) == {i \in DOMAIN events : events[i].kind \in kinds}

(* No two events of output have different sources.                         *)
OneSource(events) ==
    \A i, j \in OfKind(events, Outputs) : events[i].source = events[j].source

(* The reader is given more, in one go, all of it from the one source.     *)
Given ==
    /\ reader = "reading"
    /\ \A i \in DOMAIN stream : i \in DOMAIN stream' /\ stream'[i] = stream[i]
    /\ stream' # stream
    /\ OneSource(stream')

(* More of the response.                                                   *)
Continue ==
    /\ Given
    /\ OfKind(stream', Terminals) = {}
    /\ UNCHANGED reader

(* The rest of the response and its terminal event.                        *)
End ==
    /\ Given
    /\ OfKind(stream', Terminals) = {Len(stream')}
    /\ reader' = "ended"

(* The reader gives up; it is given no more.                               *)
Leave ==
    /\ reader = "reading"
    /\ reader' = "left"
    /\ UNCHANGED stream

Next == Continue \/ End \/ Leave

Safety == Init /\ [][Next]_vars

(* The reader is not kept waiting for ever.                                *)
Spec == Safety /\ <>(reader # "reading")
=============================================================================
