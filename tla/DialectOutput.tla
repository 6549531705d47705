---------------------------- MODULE DialectOutput ----------------------------
(***************************************************************************)
(* What the incremental parsers of the model dialects share: the text a    *)
(* model writes, markers in it, and the two channels, reasoning and text,  *)
(* into which a parser sorts it (model/glm5.py, model/deepseek_v4.py,      *)
(* model/gemma4.py, model/qwen.py, model/muse_glimmer.py,                  *)
(* model/generic_hf.py).                                                   *)
(*                                                                         *)
(* A text is a sequence of glyphs: "a" and "b" are words, "n" a newline,   *)
(* "tick" a backtick, "dq" a quote; a marker is a run of glyphs that       *)
(* begins with "<", so that one may be cut or spelled in pieces, and a     *)
(* lone "<" may be the beginning of any of them.  A control token that the *)
(* runtime vouches for is one glyph with the name of its text.  The other  *)
(* glyphs are named in the dialects.                                       *)
(***************************************************************************)
EXTENDS Naturals, Sequences, FiniteSets, TLC
LOCAL INSTANCE SequencesExt
LOCAL INSTANCE FiniteSetsExt

-----------------------------------------------------------------------------
(* Markers in a text.                                                      *)

IsAt(q, i, m) ==
    i + Len(m) - 1 <= Len(q) /\ SubSeq(q, i, i + Len(m) - 1) = m

Places(q, markers) == {i \in DOMAIN q : \E m \in markers : IsAt(q, i, m)}

(* str.find over several markers: 0 if there is none.                      *)
Find(q, markers) ==
    LET at == Places(q, markers) IN IF at = {} THEN 0 ELSE Min(at)

MarkerAt(q, i, markers) == CHOOSE m \in markers : IsAt(q, i, m)

(* Faulty variant: only the opening glyph itself is held back.             *)
BugPartialSuffix(q, markers) ==
    IF q # <<>> /\ \E m \in markers : Len(m) > 1 /\ Last(q) = Head(m) THEN 1 ELSE 0

(* How much of the end of a text may still become a marker.                *)
PartialSuffix(q, markers) ==
    Max({0} \cup {k \in 1..Len(q) :
        \E m \in markers : k < Len(m) /\ SubSeq(q, Len(q) - k + 1, Len(q)) = SubSeq(m, 1, k)})

IsPrefixOfOne(q, markers) == \E m \in markers : IsPrefix(q, m)

Spaces == {"n"}

LStrip(q) ==
    LET solid == {i \in DOMAIN q : q[i] \notin Spaces}
    IN  IF solid = {} THEN <<>> ELSE SubSeq(q, Min(solid), Len(q))
RStrip(q) ==
    LET solid == {i \in DOMAIN q : q[i] \notin Spaces}
    IN  IF solid = {} THEN <<>> ELSE SubSeq(q, 1, Max(solid))
Strip(q) == RStrip(LStrip(q))

(* The text of a chunk: control tokens are spelled out.                    *)
Spell(q, natives) ==
    FlattenSeq([i \in DOMAIN q |-> IF q[i] \in DOMAIN natives THEN natives[q[i]] ELSE <<q[i]>>])

From(q, i) == SubSeq(q, i, Len(q))
Upto(q, i) == SubSeq(q, 1, i)

-----------------------------------------------------------------------------
(* The channels of a parser p: out is what it published, buf what it       *)
(* holds.  A tool call is one event: its start, arguments and completion   *)
(* leave in one piece; deltas in a row are one event.                      *)

Channels == {"reasoning", "text"}
Closed == [open |-> FALSE, value |-> <<>>]

(* What the constructors set.                                              *)
NewParser(dialect, mode) ==
    [dialect |-> dialect, mode |-> mode, back |-> mode, buf |-> <<>>,
     chan |-> [c \in Channels |-> Closed], calls |-> 0,
     incomplete |-> FALSE, issue |-> "none", finished |-> FALSE, out |-> <<>>]

(* issue: "provenance" is a parser that raised, "ambiguity" one that ended *)
(* with its own terminal issue.                                            *)
Publish(p, event) == [p EXCEPT !.out = Append(@, event)]

Started(c) == [type |-> "started", channel |-> c, value |-> <<>>]
Delta(c, q) == [type |-> "delta", channel |-> c, value |-> q]
Completed(c, q) == [type |-> "completed", channel |-> c, value |-> q]
Call(k, body) == [type |-> "call", channel |-> "tool", index |-> k, value |-> body]

PublishDelta(p, c, q) ==
    IF p.out # <<>> /\ Last(p.out).type = "delta" /\ Last(p.out).channel = c
    THEN [p EXCEPT !.out[Len(p.out)].value = @ \o q]
    ELSE Publish(p, Delta(c, q))

(* _emit_content.                                                          *)
EmitContent(p, q) ==
    LET c == IF p.mode = "reasoning" THEN "reasoning" ELSE "text"
        opened == IF p.chan[c].open THEN p ELSE Publish(p, Started(c))
    IN  IF q = <<>> THEN p
        ELSE [PublishDelta(opened, c, q)
                 EXCEPT !.chan[c] = [open |-> TRUE, value |-> @.value \o q]]

(* _close_channel.                                                         *)
CloseChannel(p) ==
    IF p.mode \in Channels /\ p.chan[p.mode].open
    THEN [Publish(p, Completed(p.mode, p.chan[p.mode].value)) EXCEPT !.chan[p.mode] = Closed]
    ELSE p

(* Faulty variant: a channel that is left stays open.                      *)
BugSwitchTo(p, mode) == [p EXCEPT !.mode = mode]

SwitchTo(p, mode) == [CloseChannel(p) EXCEPT !.mode = mode]

EmitCall(p, body) == [Publish(p, Call(p.calls, body)) EXCEPT !.calls = @ + 1]
Incomplete(p) == [p EXCEPT !.incomplete = TRUE]
Drop(p, k) == [p EXCEPT !.buf = From(@, k + 1)]
Raise(p) == [p EXCEPT !.issue = "provenance"]
Finished(p) == [p EXCEPT !.finished = TRUE, !.buf = <<>>]
=============================================================================
