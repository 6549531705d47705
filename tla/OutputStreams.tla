---------------------------- MODULE OutputStreams ----------------------------
(***************************************************************************)
(* What a client receives: the events of one generation, as a dialect's    *)
(* parser emits them, and the projections of the three protocols           *)
(* (protocol/anthropic/serialization.py, protocol/openai/                  *)
(* responses_output.py and chat_output.py), each with its stream and its   *)
(* whole-response form.  A request uses one of them; here all consume the  *)
(* same events, so that the stream can be compared with the response.      *)
(*                                                                         *)
(* A client is modelled by what it can rebuild from the stream.  A text is *)
(* the sequence of its pieces; usage, names, ids and formatting are left   *)
(* out.                                                                    *)
(***************************************************************************)
EXTENDS Integers, Sequences, FiniteSets, SequencesExt

CONSTANTS
    MaxPieces,     \* bound: pieces of content
    MaxCalls,      \* bound: Tool calls
    MaxOpen        \* calls a parser keeps open at once

ASSUME StreamAssumption ==
    /\ MaxPieces \in Nat /\ MaxCalls \in Nat \ {0} /\ MaxOpen \in Nat \ {0}

VARIABLES
    omit,    \* omit_thinking of the Anthropic request
    chan,    \* the channel the parser has open: "none", "reasoning", "text"
    value,   \* _reasoning_value or _text_value
    made,    \* pieces emitted
    begun,   \* calls started; the calls are 1, 2, ...
    open,    \* calls started and not completed
    nested,  \* history: two calls were open at once
    args,    \* the arguments of each call so far
    ended,   \* how the generation ended; "new" and "no" before
    an,      \* AnthropicMessageStreamSerializer
    anc,     \* the client of the Anthropic stream
    aa,      \* AnthropicMessageAccumulator
    rs,      \* ResponsesStreamSerializer
    rsc,     \* the client of the Responses stream
    ch,      \* ChatStreamSerializer
    chc,     \* the client of the chat stream
    ca       \* ChatAccumulator

source == <<omit, chan, value, made, begun, open, nested, args, ended>>
vars == <<source, an, anc, aa, rs, rsc, ch, chc, ca>>

Calls == 1..MaxCalls
None == -1
Successes == {"stop", "length"}

Event(t, c, v) == [type |-> t, call |-> c, val |-> v]
Block(k, c, v) == [kind |-> k, call |-> c, val |-> v]

-----------------------------------------------------------------------------
(* The Anthropic stream.  A step returns the serializer and what it sends. *)

Wire(t, i, b) == [type |-> t, index |-> i, block |-> b]
NoBlock == Block("none", 0, <<>>)
Sends(s, out) == [ser |-> s, out |-> out]

NewAnthropic ==
    [next |-> 0, reasoning |-> None, text |-> None,
     tools |-> [c \in Calls |-> None], pending |-> 0, deferred |-> <<>>,
     terminal |-> FALSE]

(* A block of a channel is started, whatever was there before.             *)
StartBlock(s, slot, kind) ==
    Sends([s EXCEPT ![slot] = s.next, !.next = @ + 1],
          <<Wire("start", s.next, Block(kind, 0, <<>>))>>)

EnsureBlock(s, slot, kind) ==
    IF s[slot] = None THEN StartBlock(s, slot, kind) ELSE Sends(s, <<>>)

(* Faulty variant: nothing waits for a pending call.                       *)
BugCanProject(s, e) == TRUE

(* Only the pending call's own events may be sent while it is pending.     *)
CanProjectWhileToolPending(s, e) ==
    \/ s.pending = 0
    \/ e.type \in {"ToolCallArgumentsDelta", "ToolCallCompleted"} /\ e.call = s.pending

ProjectReasoning(s, e) ==
    LET o == EnsureBlock(s, "reasoning", "thinking")
        at == o.ser.reasoning
    IN CASE e.type = "ReasoningStarted" -> StartBlock(s, "reasoning", "thinking")
         [] e.type = "ReasoningDelta" ->
              Sends(o.ser, o.out \o IF omit THEN <<>>
                                    ELSE <<Wire("delta", at, Block("thinking", 0, e.val))>>)
         [] e.type = "ReasoningCompleted" ->
              Sends(o.ser, o.out \o <<Wire("delta", at, Block("signature", 0, <<>>)),
                                      Wire("stop", at, NoBlock)>>)

ProjectText(s, e) ==
    LET o == EnsureBlock(s, "text", "text")
    IN CASE e.type = "TextStarted" -> StartBlock(s, "text", "text")
         [] e.type = "TextDelta" ->
              Sends(o.ser, Append(o.out, Wire("delta", o.ser.text, Block("text", 0, e.val))))
         [] e.type = "TextCompleted" ->
              Sends(o.ser, Append(o.out, Wire("stop", o.ser.text, NoBlock)))

ProjectTool(s, e) ==
    LET at == s.tools[e.call]
    IN CASE e.type = "ToolCallStarted" ->
              Sends([s EXCEPT !.tools[e.call] = s.next, !.next = @ + 1, !.pending = e.call],
                    <<Wire("start", s.next, Block("tool", e.call, <<>>))>>)
         [] e.type = "ToolCallArgumentsDelta" ->
              Sends(s, IF at = None THEN <<>> ELSE <<Wire("delta", at, Block("tool", 0, e.val))>>)
         [] e.type = "ToolCallCompleted" ->
              IF at = None THEN Sends(s, <<>>)
              ELSE Sends([s EXCEPT !.tools[e.call] = None,
                                   !.pending = IF @ = e.call THEN 0 ELSE @],
                         <<Wire("stop", at, NoBlock)>>)

Project(s, e) ==
    CASE e.type = "GenerationStarted" -> Sends(s, <<Wire("message_start", 0, NoBlock)>>)
      [] e.type \in {"ReasoningStarted", "ReasoningDelta", "ReasoningCompleted"} ->
           ProjectReasoning(s, e)
      [] e.type \in {"TextStarted", "TextDelta", "TextCompleted"} -> ProjectText(s, e)
      [] e.type \in {"ToolCallStarted", "ToolCallArgumentsDelta", "ToolCallCompleted"} ->
           ProjectTool(s, e)
      [] e.type = "GenerationCompleted" ->
           Sends([s EXCEPT !.terminal = TRUE], <<Wire("message_stop", 0, NoBlock)>>)
      [] OTHER -> Sends([s EXCEPT !.terminal = TRUE], <<Wire("error", 0, NoBlock)>>)

(* Deferred events are sent in order, up to the first that has to wait.    *)
DrainDeferredContent(p) ==
    FoldLeft(LAMBDA acc, e :
               IF \/ acc.ser.terminal \/ acc.ser.deferred # <<>>
                  \/ ~CanProjectWhileToolPending(acc.ser, e)
               THEN Sends([acc.ser EXCEPT !.deferred = Append(@, e)], acc.out)
               ELSE LET q == Project(acc.ser, e) IN Sends(q.ser, acc.out \o q.out),
             Sends([p.ser EXCEPT !.deferred = <<>>], p.out), p.ser.deferred)

FeedAnthropic(s, e) ==
    CASE s.terminal -> Sends(s, <<>>)
      [] ~s.terminal /\ e.type \in {"GenerationFailed", "GenerationCancelled"} ->
           Project([s EXCEPT !.deferred = <<>>], e)
      [] ~s.terminal /\ e.type \notin {"GenerationFailed", "GenerationCancelled"} ->
           IF ~CanProjectWhileToolPending(s, e)
           THEN Sends([s EXCEPT !.deferred = Append(@, e)], <<>>)
           ELSE DrainDeferredContent(Project(s, e))

(* A client of the stream.  It keeps one open block; anything it cannot    *)
(* place makes it give up (ok becomes FALSE).                              *)
NewMessage == [blocks |-> <<>>, open |-> None, signed |-> {}, done |-> "no", ok |-> TRUE]

Receive(c, w) ==
    CASE w.type = "message_start" -> [c EXCEPT !.ok = @ /\ c.blocks = <<>> /\ c.done = "no"]
      [] w.type = "start" ->
           [c EXCEPT !.ok = @ /\ c.open = None /\ w.index = Len(c.blocks) /\ c.done = "no",
                     !.blocks = Append(@, w.block), !.open = w.index]
      [] w.type = "delta" /\ w.index # c.open -> [c EXCEPT !.ok = FALSE]
      [] w.type = "delta" /\ w.index = c.open ->
           IF w.block.kind = "signature" THEN [c EXCEPT !.signed = @ \cup {c.open}]
           ELSE [c EXCEPT !.blocks[c.open + 1].val = @ \o w.block.val]
      [] w.type = "stop" -> [c EXCEPT !.ok = @ /\ c.open = w.index, !.open = None]
      [] w.type = "message_stop" ->
           [c EXCEPT !.ok = @ /\ c.open = None /\ c.done = "no", !.done = "stop"]
      [] w.type = "error" -> [c EXCEPT !.ok = @ /\ c.done = "no", !.done = "error"]

-----------------------------------------------------------------------------
(* The Anthropic message as a whole: content blocks, and the open ones.    *)

NewContent ==
    [content |-> <<>>, reasoning |-> None, text |-> None,
     tools |-> [c \in Calls |-> None], reason |-> "no"]

EnsureContent(a, slot, kind) ==
    IF a[slot] = None
    THEN [a EXCEPT ![slot] = Len(a.content), !.content = Append(@, Block(kind, 0, <<>>))]
    ELSE a

ConsumeReasoning(a, e) ==
    LET r == EnsureContent(a, "reasoning", "thinking")
    IN CASE e.type = "ReasoningStarted" -> r
         [] e.type = "ReasoningDelta" ->
              IF omit THEN r ELSE [r EXCEPT !.content[r.reasoning + 1].val = @ \o e.val]
         [] e.type = "ReasoningCompleted" ->
              LET k == [r EXCEPT !.reasoning = None]
              IN IF omit THEN k ELSE [k EXCEPT !.content[r.reasoning + 1].val = e.val]

ConsumeText(a, e) ==
    LET t == EnsureContent(a, "text", "text")
    IN CASE e.type = "TextStarted" -> t
         [] e.type = "TextDelta" -> [t EXCEPT !.content[t.text + 1].val = @ \o e.val]
         [] e.type = "TextCompleted" ->
              [t EXCEPT !.content[t.text + 1].val = e.val, !.text = None]

ConsumeAnthropic(a, e) ==
    CASE e.type \in {"ReasoningStarted", "ReasoningDelta", "ReasoningCompleted"} ->
           ConsumeReasoning(a, e)
      [] e.type \in {"TextStarted", "TextDelta", "TextCompleted"} -> ConsumeText(a, e)
      [] e.type = "ToolCallStarted" ->
           [a EXCEPT !.tools[e.call] = Len(a.content),
                     !.content = Append(@, Block("tool", e.call, <<>>))]
      [] e.type = "ToolCallCompleted" -> [a EXCEPT !.content[a.tools[e.call] + 1].val = e.val]
      [] e.type = "GenerationCompleted" -> [a EXCEPT !.reason = "stop"]
      [] e.type \in {"GenerationFailed", "GenerationCancelled"} -> [a EXCEPT !.reason = "error"]
      [] OTHER -> a

-----------------------------------------------------------------------------
(* The Responses stream: output items, each with its index; the Tool items *)
(* stay in the table after they are done.  The whole response is built     *)
(* from the same items (_ResponseState), so one record serves both forms.  *)

NewResponses ==
    [items |-> <<>>, reasoning |-> None, message |-> None,
     tools |-> [c \in Calls |-> None], terminal |-> FALSE]

Item(k, c) == [kind |-> k, call |-> c, val |-> <<>>, final |-> FALSE]
RWire(t, i, v) == [type |-> t, index |-> i, val |-> v]

(* start_reasoning, start_message: the open item, or a new one.            *)
StartItem(s, slot) ==
    IF s[slot] = None
    THEN [s EXCEPT ![slot] = Len(s.items), !.items = Append(@, Item(slot, 0))]
    ELSE s

StartTool(s, c) ==
    IF s.tools[c] = None
    THEN [s EXCEPT !.tools[c] = Len(s.items), !.items = Append(@, Item("function_call", c))]
    ELSE s

(* Faulty variant: a completed item stays open.                            *)
BugFinishItem(s, slot, v) ==
    LET t == StartItem(s, slot)
        i == t[slot]
    IN [t EXCEPT !.items[i + 1].val = v, !.items[i + 1].final = TRUE]

FinishItem(s, slot, v) ==
    LET t == StartItem(s, slot)
        i == t[slot]
    IN [t EXCEPT !.items[i + 1].val = v, !.items[i + 1].final = TRUE, ![slot] = None]

FinishTool(s, c, v) ==
    LET t == StartTool(s, c)
        i == t.tools[c]
    IN [t EXCEPT !.items[i + 1].val = v, !.items[i + 1].final = TRUE]

(* output(): the completed items, in the order of their indexes.           *)
Completed(items) ==
    FoldLeft(LAMBDA out, it : IF it.final THEN Append(out, it) ELSE out, <<>>, items)

FeedItem(s, slot, phase, v) ==
    LET t == StartItem(s, slot)
        f == FinishItem(s, slot, v)
        i == t[slot]
    IN CASE phase = "started" -> Sends(t, <<RWire("added", i, slot)>>)
         [] phase = "delta" ->
              Sends([t EXCEPT !.items[i + 1].val = @ \o v], <<RWire("delta", i, v)>>)
         [] phase = "completed" -> Sends(f, <<RWire("done", i, v)>>)

FeedTool(s, e) ==
    LET i == s.tools[e.call]
        t == StartTool(s, e.call)
    IN CASE e.type = "ToolCallStarted" ->
              Sends(t, <<RWire("added", t.tools[e.call], "function_call")>>)
         [] e.type = "ToolCallArgumentsDelta" ->
              IF i = None THEN Sends(s, <<>>)
              ELSE Sends([s EXCEPT !.items[i + 1].val = @ \o e.val], <<RWire("delta", i, e.val)>>)
         [] e.type = "ToolCallCompleted" ->
              Sends(FinishTool(s, e.call, e.val), <<RWire("done", t.tools[e.call], e.val)>>)

(* The status of the last event, by how the generation ended.              *)
Status(e) ==
    CASE e.type = "GenerationFailed" -> "failed"
      [] e.type = "GenerationCancelled" -> "cancelled"
      [] e.type = "GenerationCompleted" -> IF e.val = "length" THEN "incomplete" ELSE "completed"

Terminals == {"GenerationCompleted", "GenerationFailed", "GenerationCancelled"}

FeedResponses(s, e) ==
    CASE s.terminal -> Sends(s, <<>>)
      [] ~s.terminal /\ e.type = "GenerationStarted" -> Sends(s, <<RWire("created", 0, Completed(s.items))>>)
      [] ~s.terminal /\ e.type = "ReasoningStarted" -> FeedItem(s, "reasoning", "started", <<>>)
      [] ~s.terminal /\ e.type = "ReasoningDelta" -> FeedItem(s, "reasoning", "delta", e.val)
      [] ~s.terminal /\ e.type = "ReasoningCompleted" -> FeedItem(s, "reasoning", "completed", e.val)
      [] ~s.terminal /\ e.type = "TextStarted" -> FeedItem(s, "message", "started", <<>>)
      [] ~s.terminal /\ e.type = "TextDelta" -> FeedItem(s, "message", "delta", e.val)
      [] ~s.terminal /\ e.type = "TextCompleted" -> FeedItem(s, "message", "completed", e.val)
      [] ~s.terminal /\ e.type \in {"ToolCallStarted", "ToolCallArgumentsDelta",
                                      "ToolCallCompleted"} -> FeedTool(s, e)
      [] ~s.terminal /\ e.type \in Terminals ->
           Sends([s EXCEPT !.terminal = TRUE],
                 <<[type |-> Status(e), index |-> 0, val |-> Completed(s.items)]>>)

(* A client of the Responses stream: it takes an item when it is added,    *)
(* its deltas while it is open and its final value when it is done.        *)
NewItems == [items |-> <<>>, status |-> "in_progress", output |-> <<>>, ok |-> TRUE]

ReceiveItem(c, w) ==
    LET isOpen == w.index < Len(c.items) /\ ~c.items[w.index + 1].final
    IN CASE w.type = "created" -> c
         [] w.type = "added" ->
              [c EXCEPT !.ok = @ /\ w.index = Len(c.items),
                        !.items = Append(@, [kind |-> w.val, val |-> <<>>, final |-> FALSE])]
         [] w.type \in {"delta", "done"} /\ ~isOpen -> [c EXCEPT !.ok = FALSE]
         [] w.type = "delta" /\ isOpen -> [c EXCEPT !.items[w.index + 1].val = @ \o w.val]
         [] w.type = "done" /\ isOpen ->
              [c EXCEPT !.ok = @ /\ c.items[w.index + 1].val = w.val,
                        !.items[w.index + 1].final = TRUE]
         [] OTHER -> [c EXCEPT !.ok = @ /\ c.status = "in_progress",
                               !.status = w.type, !.output = w.val]

-----------------------------------------------------------------------------
(* The chat stream: deltas only; calls by their index.                     *)

NewChat == [terminal |-> FALSE]

FeedChat(s, e) ==
    CASE s.terminal -> Sends(s, <<>>)
      [] ~s.terminal /\ e.type \in {"ReasoningDelta", "TextDelta", "ToolCallArgumentsDelta"} ->
           Sends(s, <<Event(e.type, e.call, e.val)>>)
      [] ~s.terminal /\ e.type = "ToolCallStarted" -> Sends(s, <<Event(e.type, e.call, <<>>)>>)
      [] ~s.terminal /\ e.type = "GenerationStarted" -> Sends(s, <<Event("role", 0, <<>>)>>)
      [] ~s.terminal /\ e.type \in Terminals ->
           Sends([s EXCEPT !.terminal = TRUE],
                 <<Event(IF e.type = "GenerationCompleted" THEN "finish" ELSE "error", 0, <<>>)>>)
      [] OTHER -> Sends(s, <<>>)

NewChatMessage ==
    [reasoning |-> <<>>, text |-> <<>>, calls |-> [c \in Calls |-> None], end |-> "no"]

ReceiveChunk(c, w) ==
    CASE w.type = "ReasoningDelta" -> [c EXCEPT !.reasoning = @ \o w.val]
      [] w.type = "TextDelta" -> [c EXCEPT !.text = @ \o w.val]
      [] w.type = "ToolCallStarted" -> [c EXCEPT !.calls[w.call] = w.val]
      [] w.type = "ToolCallArgumentsDelta" -> [c EXCEPT !.calls[w.call] = @ \o w.val]
      [] w.type = "role" -> c
      [] OTHER -> [c EXCEPT !.end = w.type]

ConsumeChat(a, e) ==
    CASE e.type = "ReasoningDelta" -> [a EXCEPT !.reasoning = @ \o e.val]
      [] e.type = "TextDelta" -> [a EXCEPT !.text = @ \o e.val]
      [] e.type = "ToolCallCompleted" -> [a EXCEPT !.calls[e.call] = e.val]
      [] e.type = "GenerationCompleted" -> [a EXCEPT !.end = "finish"]
      [] e.type \in {"GenerationFailed", "GenerationCancelled"} -> [a EXCEPT !.end = "error"]
      [] OTHER -> a

-----------------------------------------------------------------------------
(* The events of a generation, in the order the parser emits them.  The    *)
(* publication gate lets them through in that order or not at all.         *)

(* An event is fed to each serializer and accumulator, and what is sent is *)
(* read by the client of that stream.                                      *)
Consume(k, e) ==
    LET A == FeedAnthropic(k.an, e)
        R == FeedResponses(k.rs, e)
        C == FeedChat(k.ch, e)
    IN [an |-> A.ser, anc |-> FoldLeft(Receive, k.anc, A.out), aa |-> ConsumeAnthropic(k.aa, e),
        rs |-> R.ser, rsc |-> FoldLeft(ReceiveItem, k.rsc, R.out),
        ch |-> C.ser, chc |-> FoldLeft(ReceiveChunk, k.chc, C.out), ca |-> ConsumeChat(k.ca, e)]

Consumers == [an |-> an, anc |-> anc, aa |-> aa, rs |-> rs, rsc |-> rsc,
              ch |-> ch, chc |-> chc, ca |-> ca]

(* All of them take a run of events, one after the other.                  *)
Deliver(es) ==
    \E k \in {FoldLeft(Consume, Consumers, es)} :
      /\ an' = k.an /\ anc' = k.anc /\ aa' = k.aa
      /\ rs' = k.rs /\ rsc' = k.rsc
      /\ ch' = k.ch /\ chc' = k.chc /\ ca' = k.ca

Init ==
    /\ omit \in BOOLEAN
    /\ chan = "none" /\ value = <<>> /\ made = 0 /\ begun = 0 /\ open = {} /\ ended = "new"
    /\ nested = FALSE
    /\ args = [c \in Calls |-> <<>>]
    /\ an = NewAnthropic /\ anc = NewMessage /\ aa = NewContent
    /\ rs = NewResponses /\ rsc = NewItems
    /\ ch = NewChat /\ chc = NewChatMessage /\ ca = NewChatMessage

Begin ==
    /\ ended = "new" /\ ended' = "no"
    /\ Deliver(<<Event("GenerationStarted", 0, <<>>)>>)
    /\ UNCHANGED <<omit, chan, value, made, begun, open, args, nested>>

(* _close_current_channel: the open channel, if any, is completed.         *)
CloseEvents ==
    CASE chan = "none" -> <<>>
      [] chan = "reasoning" -> <<Event("ReasoningCompleted", 0, value)>>
      [] chan = "text" -> <<Event("TextCompleted", 0, value)>>

(* _emit_content: a piece of the channel; its first one opens it.          *)
EmitContent(k) ==
    /\ ended = "no" /\ made < MaxPieces /\ chan \in {k, "none"}
    /\ made' = made + 1 /\ chan' = k
    /\ value' = Append(value, made + 1)
    /\ LET started == IF k = "text" THEN "TextStarted" ELSE "ReasoningStarted"
           delta == IF k = "text" THEN "TextDelta" ELSE "ReasoningDelta"
       IN Deliver((IF chan = "none" THEN <<Event(started, 0, <<>>)>> ELSE <<>>)
                  \o <<Event(delta, 0, <<made + 1>>)>>)
    /\ UNCHANGED <<omit, begun, open, args, ended, nested>>

(* A marker ends the channel.                                              *)
CloseCurrentChannel ==
    /\ ended = "no" /\ chan # "none"
    /\ Deliver(CloseEvents)
    /\ chan' = "none" /\ value' = <<>>
    /\ UNCHANGED <<omit, made, begun, open, args, ended, nested>>

(* A Tool region starts once the channel is closed.                        *)
StartCall ==
    /\ ended = "no" /\ chan = "none" /\ begun < MaxCalls
    /\ Cardinality(open) < MaxOpen
    /\ begun' = begun + 1 /\ open' = open \cup {begun + 1}
    /\ nested' = (nested \/ open # {})
    /\ Deliver(<<Event("ToolCallStarted", begun + 1, <<>>)>>)
    /\ UNCHANGED <<omit, chan, value, made, args, ended>>

CallArguments(c) ==
    /\ ended = "no" /\ made < MaxPieces
    /\ made' = made + 1 /\ args' = [args EXCEPT ![c] = Append(@, made + 1)]
    /\ Deliver(<<Event("ToolCallArgumentsDelta", c, <<made + 1>>)>>)
    /\ UNCHANGED <<omit, chan, value, begun, open, ended, nested>>

CompleteCall(c) ==
    /\ ended = "no" /\ args[c] # <<>>
    /\ open' = open \ {c}
    /\ Deliver(<<Event("ToolCallCompleted", c, args[c])>>)
    /\ UNCHANGED <<omit, chan, value, made, begun, args, ended, nested>>

(* finish() closes the channel, and the session completes.                 *)
Finish(reason) ==
    /\ ended = "no" /\ open = {}
    /\ ended' = reason /\ chan' = "none" /\ value' = <<>>
    /\ Deliver(Append(CloseEvents, Event("GenerationCompleted", 0, reason)))
    /\ UNCHANGED <<omit, made, begun, open, args, nested>>

(* A failure or a cancellation may come between any two events.            *)
Stop(type) ==
    /\ ended = "no"
    /\ ended' = type
    /\ Deliver(<<Event(type, 0, <<>>)>>)
    /\ UNCHANGED <<omit, chan, value, made, begun, open, args, nested>>

Next ==
    \/ Begin
    \/ EmitContent("reasoning") \/ EmitContent("text")
    \/ CloseCurrentChannel
    \/ StartCall
    \/ \E c \in open : CallArguments(c) \/ CompleteCall(c)
    \/ \E reason \in Successes : Finish(reason)
    \/ \E type \in {"GenerationFailed", "GenerationCancelled"} : Stop(type)

Spec == Init /\ [][Next]_vars

-----------------------------------------------------------------------------
(* The types of the parser's and the serializers' state.                   *)
TypeOK ==
    /\ chan \in {"none", "reasoning", "text"} /\ made \in 0..MaxPieces
    /\ begun \in 0..MaxCalls /\ Cardinality(open) <= MaxOpen
    /\ ended \in {"new", "no", "GenerationFailed", "GenerationCancelled"} \cup Successes
    /\ an.next \in Nat /\ an.pending \in 0..MaxCalls
    /\ an.terminal \in BOOLEAN /\ rs.terminal \in BOOLEAN /\ ch.terminal \in BOOLEAN

(* The content blocks of an Anthropic stream never overlap: a block starts *)
(* only after the one before has stopped, with the next index, every delta *)
(* and every stop is for the open block, and nothing follows the end,      *)
(* whatever order text and Tool events come in (_pending_tool_index and    *)
(* the deferred events of AnthropicMessageStreamSerializer.feed).          *)
BlocksNeverOverlap == anc.ok

(* An Anthropic client that has seen a success holds the same blocks, in   *)
(* the same order, with the same content and every thinking block signed,  *)
(* as the whole response; one whose stream was cut short holds a beginning *)
(* of them.                                                                *)
AnthropicAgrees ==
    /\ ended \in Successes =>
         /\ anc.done = "stop" /\ anc.blocks = aa.content
         /\ anc.signed = {i - 1 : i \in {j \in DOMAIN aa.content : aa.content[j].kind = "thinking"}}
    /\ ended \in Terminals => anc.done = "error" /\ aa.reason = "error"
    /\ Len(anc.blocks) <= Len(aa.content)
    /\ \A i \in DOMAIN anc.blocks :
         /\ anc.blocks[i].kind = aa.content[i].kind /\ anc.blocks[i].call = aa.content[i].call
         /\ anc.blocks[i].kind # "tool" => IsPrefix(anc.blocks[i].val, aa.content[i].val)

(* The last event of a Responses stream carries exactly the items that the *)
(* client saw done, in the order of their indexes, each with the content   *)
(* its deltas had; a success leaves no item open.                          *)
ResponsesAgree ==
    /\ rsc.ok
    /\ rs.terminal =>
         /\ Len(rsc.output) = Len(Completed(rsc.items))
         /\ \A i \in DOMAIN rsc.output :
              LET it == Completed(rsc.items)[i]
              IN rsc.output[i].val = it.val /\ rsc.output[i].kind = it.kind
    /\ ended \in Successes => \A i \in DOMAIN rsc.items : rsc.items[i].final

(* What a chat client assembles from the chunks, arguments included.       *)
ChatAgrees ==
    /\ ended \in Successes => chc = ca
    /\ chc.end = ca.end

(* What a client assembles from a stream is what the same request without  *)
(* streaming returns, in all three protocols and after any number of text, *)
(* reasoning and Tool items.  For Anthropic this holds if the parser never *)
(* has two calls open at once, as no parser of the repository has.         *)
StreamsAgree ==
    /\ ~nested => AnthropicAgrees
    /\ ResponsesAgree
    /\ ChatAgrees
=============================================================================
