----------------------------- MODULE MuseParser -----------------------------
(***************************************************************************)
(* The incremental parser of Muse Glimmer (model/muse_glimmer.py,          *)
(* MuseGlimmerIncrementalParser).  A message has a header, " to=" and a    *)
(* recipient, and a content: that of "self" is reasoning, that of "user"   *)
(* text, that of any other recipient a block of tool calls.  Only control  *)
(* tokens that the runtime vouches for count; the same text without word   *)
(* of its tokens is refused, the same text spelled by ordinary tokens is   *)
(* content.  The mode is the header or the channel of the recipient.       *)
(*                                                                         *)
(* "{" and "}" stand for the tags of a block of calls, "invoke" for a      *)
(* well-formed call in it.                                                 *)
(***************************************************************************)
EXTENDS DialectOutput
LOCAL INSTANCE SequencesExt
LOCAL INSTANCE FiniteSetsExt

Natives == "<|message|>" :> <<"<", "|message|>">> @@ "<|start|>" :> <<"<", "|start|>">>
           @@ "<|eom|>" :> <<"<", "|eom|>">> @@ "<|eot|>" :> <<"<", "|eot|>">>

New == NewParser("muse_glimmer", "header") @@ [verified |-> <<>>, body |-> <<>>]

(* _append: v tells whether the chunk comes with its native tokens.        *)
Append_(p, q, v) ==
    LET text == IF v THEN q ELSE Spell(q, Natives)
    IN  [p EXCEPT !.buf = @ \o text, !.verified = @ \o [i \in DOMAIN text |-> v]]

Consume(p, k) == [Drop(p, k) EXCEPT !.verified = From(@, k + 1)]

(* Where control n stands, native or spelled.                              *)
ControlAt(p, n) == Find(p.buf, {<<n>>, Natives[n]})

(* _control_status.                                                        *)
Status(p, i) ==
    CASE p.buf[i] # "<" -> "native"
      [] p.verified[i] /\ p.verified[i + 1] -> "ordinary"
      [] OTHER -> "unknown"

(* _ambiguous_partial_suffix: every control begins with the same glyph.    *)
Ambiguous(p) == p.buf # <<>> /\ Last(p.buf) = "<" /\ ~Last(p.verified)

-----------------------------------------------------------------------------
(* Content.                                                                *)

Emit(p, q) ==
    IF p.mode = "tool" THEN [p EXCEPT !.body = @ \o q] ELSE EmitContent(p, Spell(q, Natives))

(* _parse_atem_calls: the invokes of a block, or nothing when it is        *)
(* malformed.                                                              *)
Invokes(body) ==
    LET b == Strip(body)
        inner == SelectSeq(SubSeq(b, 2, Len(b) - 1), LAMBDA g : g \notin Spaces)
    IN  IF Len(b) > 2 /\ Head(b) = "{" /\ Last(b) = "}" /\ ToSet(inner) = {"invoke"}
        THEN inner ELSE <<>>

RECURSIVE EmitCalls(_, _)
EmitCalls(p, calls) ==
    IF calls = <<>> THEN p ELSE EmitCalls(EmitCall(p, <<Head(calls)>>), Tail(calls))

(* _close_channel, _finish_tool_channel: all calls of a block, or none.    *)
CloseMessage(p) ==
    LET closed == CloseChannel(p)
    IN  CASE p.mode # "tool" -> [closed EXCEPT !.mode = "header"]
          [] p.mode = "tool" /\ Invokes(p.body) # <<>> ->
                 [EmitCalls(closed, Invokes(p.body)) EXCEPT !.mode = "header", !.body = <<>>]
          [] OTHER -> [Incomplete(closed) EXCEPT !.mode = "header", !.body = <<>>]

Width(p, i) == IF p.buf[i] = "<" THEN 2 ELSE 1

(* A start control at place i: the word after it decides.                  *)
StartAt(p, i) == p.buf[i] = "<|start|>" \/ IsAt(p.buf, i, Natives["<|start|>"])
Follower(p, i) ==
    CASE Len(p.buf) = i -> "waiting" [] Len(p.buf) > i /\ p.buf[i + 1] = "assistant" -> "native"
      [] OTHER -> "invalid"

(* _process_content.                                                       *)
ProcessContent(p) ==
    LET ends == {ControlAt(p, n) : n \in {"<|eom|>", "<|eot|>", "<|start|>"}} \ {0}
        at == Min(ends)
        before == Consume(Emit(p, Upto(p.buf, at - 1)), at - 1)
        safe == Len(p.buf) - (IF Ambiguous(p) THEN 1 ELSE 0)
    IN  IF ends = {} THEN Consume(Emit(p, Upto(p.buf, safe)), safe)
        ELSE CASE Status(p, at) = "unknown" -> Raise(p)
               [] Status(p, at) = "ordinary" ->
                      Consume(Emit(p, Upto(p.buf, at + 1)), at + 1)
               [] Status(p, at) = "native" /\ ~StartAt(p, at) ->
                      CloseMessage(Consume(before, Width(p, at)))
               [] Status(p, at) = "native" /\ StartAt(p, at) ->
                      CASE Follower(p, at) = "waiting" -> before
                        [] Follower(p, at) = "native" ->
                               CloseMessage(Consume(before, Width(p, at) + 1))
                        [] OTHER -> Raise(p)

-----------------------------------------------------------------------------
(* The header.                                                             *)

ToUser(p) == [p EXCEPT !.mode = "text"]

(* " to=", a recipient and the message control that ends it; a spelled one *)
(* is part of the recipient's name.                                        *)
Addressed(p) ==
    LET at == {i \in DOMAIN p.buf : \/ p.buf[i] = "<|message|>"
                                    \/ IsAt(p.buf, i, Natives["<|message|>"])}
        decided == {i \in at : Status(p, i) # "ordinary"}
        name == Strip(SubSeq(p.buf, 2, Min(decided) - 1))
        rest == Consume(p, Min(decided))
    IN  CASE decided = {} -> p
          [] decided # {} /\ Status(p, Min(decided)) = "unknown" -> Raise(p)
          [] OTHER -> CASE name = <<>> -> ToUser(Incomplete(rest))
                        [] name = <<"self">> -> [rest EXCEPT !.mode = "reasoning"]
                        [] name = <<"user">> -> ToUser(rest)
                        [] OTHER -> [rest EXCEPT !.mode = "tool"]

(* _process_header.                                                        *)
ProcessHeader(p) ==
    LET message == ControlAt(p, "<|message|>") = 1
        controlled == StartAt(p, 1) \/ message
        plain == IF Ambiguous(p) /\ Len(p.buf) = 1 THEN p ELSE ToUser(p)
    IN  CASE p.buf = <<>> -> p
          [] p.buf # <<>> /\ controlled /\ Status(p, 1) = "unknown" -> Raise(p)
          [] p.buf # <<>> /\ StartAt(p, 1) /\ Status(p, 1) = "native" ->
                 CASE Follower(p, 1) = "waiting" -> p
                   [] Follower(p, 1) = "native" -> Consume(p, 2)
                   [] OTHER -> Raise(p)
          [] p.buf # <<>> /\ message /\ Status(p, 1) = "native" -> ToUser(Consume(p, 1))
          [] p.buf # <<>> /\ ~controlled /\ Head(p.buf) = " to=" -> Addressed(p)
          [] OTHER -> plain

Step(p) == CASE p.issue # "none" -> p
             [] p.issue = "none" /\ p.mode = "header" -> ProcessHeader(p)
             [] OTHER -> ProcessContent(p)

(* What waits for a word on its provenance is refused; what never got a    *)
(* header is for the user.                                                 *)
Finish(p) ==
    LET waiting == p.buf # <<>> /\ p.mode = "header" /\ StartAt(p, 1)
        named == IF p.mode # "header" THEN p
                 ELSE IF Strip(p.buf) = <<>> THEN Consume(p, Len(p.buf)) ELSE ToUser(p)
        emitted == Consume(Emit(named, named.buf), Len(named.buf))
    IN  CASE p.issue # "none" -> p
          [] p.issue = "none" /\ (waiting \/ Ambiguous(p)) -> Raise(p)
          [] OTHER -> Finished(IF emitted.mode = "header" THEN emitted
                               ELSE [CloseMessage(emitted) EXCEPT !.verified = <<>>])
=============================================================================
