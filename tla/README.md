# ExQServe: a TLA+ model of the serving layer

ExQServe serves ExLlamaV3 models behind the OpenAI and Anthropic protocols. Its
own logic is what happens between an HTTP request and the backend: admission,
attempts and their recovery, the publication of tool calls, terminal semantics,
stored responses, the life of the model itself, and the way from what a request
asks for to a constraint, from the raw output of a model to reasoning, text and
calls, and from there to the next prompt. The first half of it is asyncio code in
which a handful of tasks meet at `await`s (rendering uses threads); the second
half is a set of incremental algorithms whose input is cut anywhere. This project
models those parts in TLA+, checks them with TLC on small instances, and proves
the central properties of eleven of them with TLAPS for all instances.

Paths below are relative to `src/src/exqserve/` unless they begin with `tests/`.
`PROJECT.json` maps every definition to the lines it models, lists the runs, the
faulty variants (`Bug...` operators, one for each property) that each property is
known to reject, the hazards of the code and the properties aimed at them.

## 1. The system and its parts

| Part | State it keeps | Operations | Meets the others through |
|---|---|---|---|
| Request control, `control/request.py` | in-flight counter, drained event, leases and sessions by id, closed flag; per session: reason, cancel called, released, terminal | acquire, submit, submit_final, release, iterate, cancel, inject, deadline, close | the engine owns leases; the runtime's `submit` and `cancel`; the manager calls `close` |
| Runtime, `runtime/exllamav3.py` | loaded resources, generator, quarantined generator, lifecycle state, recovery task, closing flag | load, submit, failure reports, recovery task, wait_until_ready, close | sessions and a done-callback report failures; the manager closes it |
| Runtime session, same file | pending events, cancel event, constraint state, terminal flag | iterate (drain, translate, coalesce), cancel | the job's queue; the controlled session reads it |
| Renderer lanes, `serving/preprocessing.py` | free lanes, closed flag, a cancellation per call | run, close | worker threads; the manager closes the pool |
| Vision cache, `runtime/vision_cache.py` | entries in age order, retained bytes | snapshot, guarded commit, clear | renderer threads under a transaction lock |
| Model manager, `server/model_manager.py`, `server/app.py` | state, active bundle, retained bundle, submission counter, transition lock | load, switch, unload, close, submit | builds and tears down controller, lanes, runtime |
| Serving engine and recovery, `serving/engine.py`, `serving/recovery.py` | current attempt, attempts used, staged events, publication flag, lease | submit, iterate, retry, cancel | lease, runtime readiness, attempt sessions, SSE writer |
| Tool batch gate, `serving/tool_batch.py` | open and completed calls, staged events, committed flag | started, delta, completed, passthrough, commit, abort | inside a serving session |
| Serving session, `serving/engine.py`; terminal evidence, `serving/terminal.py` | pending events, terminal flag, evidence, gate, parser | handlers of runtime events, local failures, cancel | parser, controlled session, deadline |
| Reasoning budget, `serving/engine.py` | tokens counted, close injected, duplicate guard | prepare and apply a delta, force the close | runtime injection, parser |
| Response authority and stores, `state/` | active responses, pending records, terminal winners, transition locks, pins; two bounded stores of parent-linked records | resolve a continuation, register, put, finish, cancel, retrieve, abandon, expiry, eviction | the Responses endpoints of `protocol/openai/api.py` |
| Protocol output, `protocol/anthropic/serialization.py`, `protocol/openai/*_output.py` | open blocks or items, deferred events, accumulated text | feed, consume | semantic events in, wire events out |
| Endpoints, `protocol/openai/api.py`, `protocol/anthropic/api.py`, `protocol/disconnect.py` | the tasks of one exchange: handler, worker, disconnect watcher | parse, race set-up or the whole answer against the disconnect, hand a body over, clean up | engine, authority, observer, web framework |
| Raw completions, `serving/raw.py` | pending events, terminal flag, evidence | submit, iterate, cancel | controlled session |
| Observer, `observability/observer.py` | started and finished flags, status, captured record | observe events, finish once, write the record | wraps the session of an exchange |
| Dialect parsers, `model/` | buffer, channel, open call, literal context of one stream | feed, finish | serving session |
| Tool wire, `tool_wire/`, `model/tool_constraints.py` | decoder of a region of calls; budgets of a compilation | feed, finish; compile a plan | Qwen parser; planning |
| Planning and guarantees, `serving/engine.py`, `serving/guarantees.py`, `runtime/exllamav3.py` | the plan of a request, what was installed, whether it was triggered | plan, install, observe, check the end | client's request, backend |
| Conversation, `state/session.py`, `protocol/openai/responses_request.py`, prompt compilers of `model/` | none beyond a request | output to items, input to items, items to turns | stores, templates |
| Agent checks, `agent/` | none | validate a call, a schema, an output | gate, session, planning |
| Configuration, CLI, security, `server/` | start-up values | - | - |

What is hard here: several tasks cancel the same thing at once (client, deadline,
owner, server) and each resumes after an await with what it knew before; a
backend that dies is noticed by everyone at different moments and is rebuilt
while requests wait and shutdown begins; a retry must not repeat what a client has
seen; two stores have to change together although each may refuse, evict or
expire; threads share a cache; and every path, the exceptional ones included, has
to give back its slot, its lane, its pins and its job. The properties that make
each part correct are stated at the end of its module.

## 2. Modules

Each module starts with a comment on what a step is. On one event loop a step is
the code between two awaits that really suspend. An uncontended `asyncio.Lock`
never suspends and no section under such a lock in this code awaits anything
else, except where stated; such sections are therefore parts of steps. Conversely
every real suspension is a control point at which all other tasks may run.

### RequestControl (`control/request.py`)
Leases and sessions are values; session `<<l, k>>` is the k-th attempt of lease
`l`. Suspensions are the runtime's next event, the runtime's `cancel()`, the
reaping of a deadline task, and the wait for the drained event. `Submit` covers
`submit`, `submit_final` and the setup that is rolled back; `ReleaseNow` and
`ReleaseCancels` are the two halves of `_release_lease`, between which everything
may happen; `CloseBegins`, `CloseCancels`, `CloseGathered`, `CloseReturns` are
`close()`. An owner releases its lease once and not after `submit_final` handed
it to the attempt; that is how `serving/engine.py` and `serving/raw.py` use it.
`RuntimeOutcomes`, `ClientReasons` and `CloseReasons` say which outcomes a run
enumerates; `CancelMayFail` lets the runtime's `cancel()` raise. The token limits
and the optional cache trim when idle are left out.

### GeneratorRecovery (`runtime/exllamav3.py`, `ExLlamaV3Runtime`)
A generator and its failure episode are created together and share an identity.
Failures are reported by the done-callback, by sessions and by `submit`, in any
order. The recovery task quiesces, builds, discards; `close()` settles the
recovery, quiesces what is left, unloads, and may be interrupted and called
again. One `close()` runs at a time, under the manager's transition lock, and a
bundle has one runtime object.

### ToolBatchGate and AttemptRecovery (`serving/tool_batch.py`, `recovery.py`, `engine.py`)
The gate is a set of operators from gate and event to gate, published events and
failure. `AttemptRecovery` composes it with a serving session per attempt, the
engine's `submit`, the recovering session, its consumer and a concurrent
`cancel()`. Text and reasoning events are one kind, "text". A verdict stands for
schema and policy validation. In-tree parsers emit start, arguments and
completion of a call together. A failure of the runtime may first flush text the
parser held. Several staged events that are yielded one after another without an
await in between are delivered in one step. At most one extra attempt
(`MaxExtra`) is what the configuration allows.

### RendererLanePool and ModelManager (`serving/preprocessing.py`, `server/model_manager.py`, `server/app.py`)
Lifecycle calls queue for the transition lock in FIFO order; submissions take a
bundle, wait for a lane, render on a thread, submit, leave. The controller of a
bundle is reduced to whether it admits and whether it is drained, which is what
RequestControl establishes. The builder may fail and then rolls back; with
`RollbackMayFail` the rollback fails too.

### ResponseStore and ResponseAuthority (`state/`, `protocol/openai/api.py`)
A request and the response id it mints are one value; clients know an id once the
response is registered. `chain[r]` is `r` with its ancestors. Both stores evict
whole subtrees; the order (LRU) and the byte estimates are abstracted to *any*
eviction that leaves what fits, and to a refusal at any time (`BytesMayRefuse`).
Expiry is an action of its own that may happen whenever the code would purge.
Suspensions are the wait for a response's transition lock, the shielded commit
task and `session.cancel()`.

### RuntimeSession (`runtime/exllamav3.py`)
Text is a sequence of numbered pieces, so that "prefix", "lost" and "twice" are
exact. The backend job with its queue is external: results, an exception or the
sentinel. The generator is shared by all jobs and may die at any time, also when
this job's end is queued or its finish is pending. `ProcessBatch` is the synchronous
part of `__anext__`: drain, merge or translate, coalesce, activate the constraint,
queue.

### TerminalStream
The abstract specification that RuntimeSession, ServingSession and AttemptRecovery
share: the stream that a reader of either is given only grows, its output has one
source, exactly one terminal event ends it, nothing comes behind that event, and
the reader is not kept waiting for ever. Each of the three instantiates the module
with its own refinement mapping (`Stream`, in AttemptRecovery `Single`). In
AttemptRecovery the source of an event is the attempt that made it: a request with
its retries implements the stream of a single attempt, which is the promise the
protocol writers rely on. A step of the code that takes a staged batch out is one
step of the abstract stream.

### TerminalEvidence and ServingSession (`serving/terminal.py`, `serving/engine.py`)
`Resolve` is the precedence of `resolve()`. The handlers are operators from
session to session; a handler that ends in `controlled.cancel()` sets a flag and
the await is a step of its own. The parser is external and returns text, a call,
an early ambiguity, an exception, or one of the terminal issues of
`model/contracts.py`. The deadline, the window in which `ControlledSession` reaps
its deadline task, a concurrent `cancel()` and the controller's cancellations are
actions.

### ReasoningBudget (`serving/engine.py`)
Pieces are reasoning, answer, the model's close, the message and the injected
close; the code cannot tell the two closes apart and neither can its model. The
backend cuts the pieces into deltas in every way.

### OutputStreams (`protocol/anthropic/serialization.py`, `protocol/openai/responses_output.py`, `chat_output.py`)
The same events go to the stream and to the whole-response form of each protocol;
a client decoder rebuilds the content from the stream, and the two must agree.
The source of events is the way the dialect parsers open and close channels.
`MaxOpen` = 2 lets calls interleave, which no parser in the repository does but a
plugin parser may; `nested` remembers that it happened.

### VisionCache (`runtime/vision_cache.py`, the renderer in `runtime/exllamav3.py`, `serving/preprocessing.py`)
These are threads: a step is what runs under one lock. The transaction lock spans
snapshot to commit; the guard of the cancellation spans the check and the commit.
An embedding is a fresh number per computation, so stale ones are visible.

### RawSession and HttpExchange (`serving/raw.py`, `protocol/`, `observability/observer.py`)
One exchange of every kind of endpoint: a JSON answer or a stream, of completions,
chat, Responses or Messages. The session is RawSession, whose handlers are
operators on TerminalEvidence, inside the observer's. Four tasks meet: the handler,
the worker it races against the disconnect (which becomes the task that iterates
the body of a stream), the disconnect watcher, and a cancel call on another
connection. A CancelledError arrives at the await a task is suspended at. What runs
without an await in `asyncio` (a done-callback, the resumption after it) is a
`Synchronous` step and comes before anything else (`Undisturbed`). The framework is
external: it starts a body or never does, cancels it, or leaves it to a finalizer.

### DialectOutput and the parsers (`model/`)
A text is a sequence of glyphs. A marker is a run of glyphs that begins with "<",
so that it can be cut or spelled in pieces, and a control token that the runtime
vouches for is one glyph. `Glm5Parser`, `DeepSeekParser`, `GemmaParser`,
`MuseParser` and `QwenParser` are `feed()` and `finish()` of each dialect as
operators from parser to parser; that of GLM-5 also serves Step-3.5. `QwenBoundary`
decides which markers are text (Markdown code, quotes, a span that is still open)
and `ToolWire` holds the two decoders of a
region of Qwen calls, the incremental one of a constrained output and the one that
reads complete text. When a chunk shows that a held control token is text, QwenParser
publishes what was held and reads that whole chunk again (`BarrierMeets`), as the code does.
One argument with one string per call, all calls of the tool
"f", the backtick fence without trailing blanks. A parser that raises publishes
nothing of that chunk.

### ToolGrammar, ToolPlan and GenerationPlan (`tool_wire/`, `serving/guarantees.py`, `serving/engine.py`, `runtime/exllamav3.py`)
`ToolGrammar` is the language of the constraint: what a constrained region may
contain and the calls it consists of. `ToolPlan` compiles the exposed tools into
branches: mandatory arguments of all tools first, then the optional arguments of
each tool, all together or not at all, under the compile budget and the hard
limits, with the rollback of what does not fit. The four dimensions of the budget
are charged and checked alike and are one; per-tool and total limits on the source
are one. `GenerationPlan` chooses constraint, hint and start of the output, says
what the runtime installs (a missing or ambiguous trigger, a filter that refuses or
breaks, fail-closed or with fallback) and what the end of the answer is checked
against.

### PromptHistory (`state/session.py`, `protocol/openai/responses_request.py`, prompt compilers)
The items that a finished output leaves, the items that a client sends back, and
the turns into which each dialect groups them or the reason it refuses them; for
DeepSeek also the text of the prompt. Only text parts; an empty assistant text is
no text.

### OutputParsing
The composition of the last three: a request is planned, the backend installs the
constraint or cannot, the model writes its output token by token, two parsers of
the request's dialect read it - one token by token, one in chunks cut in every
way - the end is checked, and the answer becomes part of the next request.

The modules compose as follows: AttemptRecovery and ServingSession extend
ToolBatchGate, ServingSession and RawSession TerminalEvidence; ModelManager extends
RendererLanePool; ResponseAuthority extends ResponseStore; HttpExchange extends
RawSession; RuntimeSession, ServingSession and AttemptRecovery instantiate
TerminalStream; OutputParsing instantiates the parsers, ToolGrammar, GenerationPlan
and PromptHistory; GenerationPlan extends ToolPlan; QwenParser extends
QwenBoundary, which extends ToolWire. `MCx` gives `x` the constants of its run that a
configuration cannot write; GeneratorRecovery, ModelManager, OutputStreams and
RuntimeSession need none and are run as they are. A proof module
extends the modules it is about and holds their theorems: `xProofs` those about `x`,
ControlProofs those about RequestControl and ModelManager, RuntimeProofs those about
RuntimeSession, VisionCache and GeneratorRecovery, OutputProofs those about
ReasoningBudget and OutputStreams. SequenceFolds holds what the last two need of folds. Modules that
are proved together share a name space; that is why the names of ModelManager,
GeneratorRecovery, VisionCache and ReasoningBudget that every module has begin with
what they belong to (`ManagerInit`, `RecoverySpec`, `CacheTypes`, `BudgetAssumption`).

## 3. Runs

One run per component, with an instance chosen so that the cases its properties
are about happen together. What a request or a model asks for (a policy, a budget,
a provenance mode, a cache type) is chosen in the initial state, so that one run
covers all of it.

| Run | Instance | Shows |
|---|---|---|
| `rc_control` | 2 leases for 2 ids, 1 slot, 1 and 0 attempts, with and without a deadline, 2 closers, failing cancel, fair | counter and drained event exact (`CapacityExact`); no slot given back with its job running unasked (`NoOrphanRuntime`); recorded reasons are true (`ReasonMatchesOutcome`); `close()` returns unless a runtime cancel raised (`CloseDrains`) |
| `gr_recovery` | 2 generators, 1 load, 2 closes, 2 sessions, 1 waiter, plain and system-memory cache, fair | never two unclean generators on one cache and no replacement on a system-memory cache, none lost, and a clean close is clean (`CacheIsOwned`); a failure has a cause (`FailureHasCause`); recovery, close and waiting end (`EveryWaitEnds`) |
| `ar_recovery` | 2 calls, 3 events an attempt, all visibility modes, both batch modes, fair | the attempts implement the stream of a single one (`ImplementsStream`); calls are atomic, in order (`BatchIsAtomic`); no retry after publication and at most one (`RetryIsInvisible`); no job left behind and the lease comes back on every path (`NothingIsHeld`) |
| `mm_lifecycle` | 2 lifecycle calls, 2 requests, 1 lane, failing rollback, fair | nothing runs on a bundle being torn down (`TeardownIsSafe`); submissions and lanes counted exactly, one runtime (`OwnershipIsExact`); transitions and submissions end (`EverybodyEnds`) |
| `ra_authority` | 3 chained requests, stores of 2, 1 cancel each, failing session cancel | pinned chains survive and nothing is left behind (`PinsAreExact`); stores within budget, closed under ancestors, and with one terminal per response (`StoresTellTheTruth`); what commits is retained, what completed can be continued (`CommittedIsRetained`) |
| `rs_session` | 3 pieces, batches of 2, with and without provenance, a constraint, fair | delivered text is exactly a prefix, all of it when finished, spans exact (`DeliveryIsExact`); a terminal stream (`ImplementsStream`) |
| `ss_session` | 1 call, 2 deltas, deadline, 7 policies, failing cancel, fair | one terminal, owned by whoever ended the generation (`OneOwnedTerminal`); calls only with success, failures stop the runtime (`OutcomeIsConsistent`); nothing after an abort, no retry behind output (`NothingUnfit`); a terminal stream (`ImplementsStream`) |
| `rb_budget` | budgets 0 and 2, with and without message, explicit and default, 8 pieces, deltas up to 5 | exactly one close shown and nothing else lost, the budget enforced once, its message before the close (`BudgetClosesOnce`) |
| `os_streams` | 5 pieces, 2 calls, one after the other or at once | each stream rebuilds the whole response (`StreamsAgree`); Anthropic blocks never overlap (`BlocksNeverOverlap`) |
| `vc_cache` | 4 images, one not cacheable, budget 3, 2 threads, 2 renders | exact accounting and cached prefix (`CacheIsExact`); no stale snapshot (`SnapshotIsCurrent`); no publication after cancellation (`NoPublishAfterCancel`) |
| `ht_exchange` | every kind of endpoint, 2 deltas, capture on, failing cancel, fair | nothing is left of an exchange, however its tasks are cancelled (`NothingLeftBehind`); one finish and one record, and they agree (`ObservedOnce`); result and disconnect in one turn (`TieIsDecided`); every exchange ends (`ExchangeEnds`) |
| `op_parsing` | eight dialects, every output of up to 4 tokens (3 where the output begins with text rather than reasoning, 5 around code spans that cross a line, constrained calls 5 and 6) and every way to cut it; argument lists of up to two of six kinds under 5 limits; all answers of the backend | blocks and calls well formed (`TranscriptIsWellFormed`); no word lost (`NothingIsLost`); only vouched tokens control (`OnlyVouchedTokensControl`); constrained calls decoded to what the grammar derives, and replayed calls to themselves (`CallsAreDecoded`); answers can be continued (`OutputsContinue`); promises kept (`PlanIsHonest`); cuts do not matter (`CutsDoNotMatter`) |

### Where the code and its documentation part
Met while modelling. The models have these steps; a property that touches one
states the promise with exactly this exception, so that it rejects a second one
within the bounds of its run. `PROJECT.json` lists each among the hazards.

- A runtime failure keeps its `retry` flag although the parser's flush publishes
  text just before it: `serving/engine.py:2406` makes the error commit-aware before
  `_finish_parser_events()`, while `core/errors.py:78` promises to "Clear generic
  replay safety after any semantic stream commit." (`NothingUnfit`: only in the step
  of the failure itself.)
- A cancel refused for room unregisters the response and records no terminal; when
  the stream ends later and room appeared, a stored terminal is recorded and
  published that no store holds (`state/response_lifecycle.py:378`).
  (`CommittedIsRetained`: only behind a refused cancel.)
- Five ways out of an exchange for which no code gives everything back (`lost` in
  HttpExchange, the exception of `NothingLeftBehind`): a deadline that passed before
  the `try` that guards the lease (`expired`, `serving/raw.py:157`), a body that was
  handed over and never started (`unstarted`, `protocol/openai/api.py:719`), a
  cancellation of the handler in the last gather of the race (`reap`,
  `protocol/disconnect.py:67`), a cancellation inside `session.cancel()`
  (`interrupted`), and a `runtime.cancel()` that raises (`raised`).
- Whether a control token in an inline code span that crossed a line is text can
  depend on where the output was cut, although
  `tests/model_dialect/test_qwen_stream.py:1863` is named "...is literal at every
  valid split". Both cases (`CutDecides`) are about a verified `</think>` that is
  judged by as much of the text behind it as its chunk has. A new line there makes
  it count (`model/qwen.py:778`) before more text would have shown that the span
  goes on to its end, or before that text becomes too much to be held. And
  backticks right before it that end the span are not counted until it is found to be
  text (line 511): then they end the span behind which everything else in the chunk
  is read. With `` ` ``, newline, `` ` ``, `</think>`, `<tool_call>`, `` ` ``, `a`
  as one chunk the `</think>` is text and the tool call is not; token by token
  both are text. Line 1637 says of such a region that "no verified marker inside this
  region may execute": `_clear_unresolved` has reset the count of characters that
  line 1633 reads, and the chunk that decided is read again as a whole.
  The run contains outputs for both cases, and without either the property fails.
- A completed, stored response in which reasoning follows text or a call cannot be
  continued with `previous_response_id`: no dialect's turn has a place for it, and
  the prompt compiler refuses the request (`OutputsContinue` says exactly when).
- A `release()` that finds a `cancel()` already begun gives the reservation back
  while that runtime cancel is pending (`control/request.py:581`); the docstring at
  line 164 speaks of a reservation "through runtime release".
- A build whose rollback failed leaves a runtime loaded that the manager forgets;
  the next load starts beside it (`server/model_manager.py:286`). `OwnershipIsExact`
  does not count it (runtime state `"left"`).
- A cancel call whose `session.cancel()` raises releases the pins of the response
  that is still running (`state/response_authority.py:465`).
- An exception that escapes a handler of the serving session fails it without
  cancelling the runtime (`serving/engine.py:2578`); the lease of the recovering
  session does.
- With two calls open at once and content between them, arguments deferred behind
  the content are lost in the Anthropic stream
  (`protocol/anthropic/serialization.py:248`). No parser of the repository
  interleaves calls; a plugin parser may. `StreamsAgree` asks for Anthropic only
  if calls were never open together (`nested`).
- Smaller things the parsers do, which the models do too: GLM-5 drops a trailing
  "<" at the end where Gemma and Qwen report it; DeepSeek with tools holds a final
  newline as a partial opener and reports an incomplete call; Qwen's replay drops a
  stray native close of a call; Muse drops the names of recipients; Gemma pairs the
  answers of calls by name in the client's order while DeepSeek sorts them by call.

### Bounds
The interesting cases need two of a thing: two competitors for the last slot, two
attempts (the original and the one retry, in AttemptRecovery), two calls of a
batch, two generators (one replacement, and the failure of that replacement), two
stores with room for two of three chained responses, so that an eviction has to
choose, two lifecycle calls of which one tears down what the other built. Three
pieces or events are enough for "before, at and behind" a boundary. In
`rc_control` one lease has an attempt and the other none, which together already
give every meeting of `release()`, `cancel()`, deadline and `close()`; more
attempts and leases are covered by the theorems. Bounds appear in guards under
names that begin with `Max`; they end behaviours, which is why most
configurations switch deadlock checking off. For the parsers, four tokens are a
marker, something before it, something behind it and one more marker, and every
glyph that a parser treats in its own way is in the alphabet of its dialect; an
output that begins with text needs one token less to get there; constrained calls
get six, which are two calls with their separators. An inline code span that crosses
a line, a control token behind it and what decides about both take up to five
tokens (`QwenSpanSetups`), of the few kinds that matter to it; that cuts decide
nothing else about such spans is shown for five. The limits in
the plan instances are such that some argument lists fit, some fit without their
optional arguments and some not at all. In ResponseAuthority and
RuntimeSession, whose `Next` has an explicit idle step at the end, it is left on.
Symmetry is used only in runs without liveness properties.

`TypeOK` of every module (`ManagerTypes`, `RecoveryTypes`, `CacheTypes`,
`BudgetTypes` in those named above) states the types of its variables. The proof
modules prove it, as a theorem or, as far as the argument needs it, as a part of the
inductive invariant; in the other modules it documents the state and holds in the instances above.

### Fairness
Every fairness condition is weak and is about something that runs by itself: the
event loop resumes tasks that can run, worker threads exit, backend calls return
or raise, and an owner reaches its `finally`. Where possible it is one condition on
the disjunction of these steps (`Progress`, `ReaderStep`): *some* task that can run
does, without an obligation to any particular one, and this is already enough
because every task's work is finite. Clients are never obliged to cancel or disconnect,
deadlines are never obliged to expire. ResponseAuthority and the modules without
waiting (ReasoningBudget, OutputStreams, VisionCache, OutputParsing) are checked for
safety only. In HttpExchange each task has a condition of its own, because the tasks
of one exchange do not wait for one another to be scheduled: what is synchronous
runs, the handler, the worker and the cancel call are resumed, a request that
arrived is parsed, and the framework reports a client that left.

## 4. Proofs

**ControlProofs** is about the two ends of admission, RequestControl and ModelManager.

*RequestControl*: for every set of requests and ids, every capacity,
any number of attempts and every outcome, it proves `TypeCorrect`, `CapacityCorrect`,
`RegistryCorrect`, `NoOrphanCorrect` and `ReasonCorrect`. Assumed are the types of
the constants (`ConstantsAssumption`), that `Leases` is finite, and nothing about
fairness. `CapacityExact` is not inductive: that a release lowers the counter once
needs the link between registries and leases, which needs each registered session
to belong to exactly one live lease. The inductive invariant is the conjunction of
`RegistryType`, `RegistryLinked`, `CapacityExact` and `SessionOwned`, the types of
the tasks, the local consistency of every session, `NoOrphanRuntime`, and
`ReleasingInv`, which says what is known of a session between the two locked
sections of `_release_lease`. The step lemma has one part per action. The count of
leases uses the cardinality theorems for adding and removing one element.

*ModelManager*: for any number of transitions, requests, lanes,
models and bundles, it proves `TeardownCorrect` and `OwnershipCorrect`, from `ManagerAssumption`
and `LaneAssumption`. Neither property is inductive: that nothing runs on a bundle
which is torn down follows from what the teardown has waited for, and what it waited
for from the counts. `ManagerInv` is therefore its types; `LockInv`, one transition is
inside the lock and knows the bundle it tears down; `OwnerInv`, which bundles are
active, retained or being built; `LeaseInv`, who holds a lease of which controller;
`CountInv`, the submission counter is the number of submissions; `PoolInv`, a lane is
free or with a caller of that bundle. A submission changes the lanes of its bundle
and its own record, a transition the rest: one lemma for each of the two kinds says
so, and the steps are split accordingly.

**ResponseAuthorityProofs** proves, for any number of chained requests, any
capacities and any order of evictions, expiries and refusals, `TypesCorrect`,
`PinsCorrect`, `StoresCorrect` and, of the steps, `CommitsCorrect`, from
`CapAssumption` and `InputAssumption`. `IndInv` has a shared part (`ChainInv`, chains
are paths of responses begun before; `HoldInv` and `PinInv`, who holds what and each
hold is one pin; `StoreInv`, a store is closed under ancestors) and a part for each
request (`LocalInv`). Two facts carry it: a record that is in both stores is
completed, so the consistency walk of a pinned chain never fails; and whatever
removes records removes whole subtrees of roots that nobody holds. The last member of
a chain exists by well-founded induction on finite sets of numbers.

**AttemptRecoveryProofs** proves, for every set of requests and calls, any fan-out
limit, any length of an attempt and every visibility mode, `TypesCorrect`,
`BatchesCorrect` (`BatchIsAtomic`), `RetriesCorrect` (`RetryIsInvisible`),
`NothingIsLeft` (the safety half of `NothingIsHeld`: a released request has neither
lease nor job) and `StreamCorrect` (the safety half of `ImplementsStream`, a
refinement step by step), from `RecoveryAssumption` and `GateAssumption`. What an
attempt emits moves along one line: the buffer of its gate, the pending events of its
session, the staged events of the outer session, what the consumer has seen. The
invariant states order and ownership once, of the concatenated line (`Line`), and
says where on it an attempt may have events (`StageInv`, `SeenInv`, `RunInv`) and
which tasks run (`ControlInv`); a step extends the line at its end, shifts a part of
it, or cuts off what nobody saw. The properties alone are not inductive, because they
speak of what the consumer has seen, and the other parts of the line come next.

**ServingSessionProofs** proves, for every policy, every set of calls, any fan-out
limit and any number of deltas, `TypesCorrect`, `TerminalCorrect`
(`OneOwnedTerminal`), `OutcomeCorrect` (`OutcomeIsConsistent`), of the steps
`AddsCorrect` (`NothingUnfit`), and `StreamCorrect` (the safety half of
`ImplementsStream`), from `ServingAssumption` and `GateAssumption`. A step is a whole
handler, composed of operators from session to session, and so is its proof: `Sound`
says what is true of a session between two operators - its events are still
processed (`Live`) or it has its terminal event (`Done`) - and one lemma for each
operator says that it keeps `Sound` and what it may do to the queue (`Follows`).
`ControlInv` ties the session to the controlled session beneath it.

**HttpExchangeProofs** proves, for every kind of endpoint and any number of events,
`TypesCorrect`, `NothingLeftCorrect`, `ObservedCorrect` and `TieCorrect`, from
`ExchangeAssumption`. `NothingLeftBehind` speaks of the end only; the invariant has
to say how far the clean-up has come at every await before. `IndInv` is the types;
`TaskInv`, where the worker can be while the handler is at each of its awaits;
`StreamInv`, a stream's session is not read before it was handed over; `SessionInv`,
what exists of the session at each point of the worker, and that a session which was
told to stop has stopped unless somebody is still inside `cancel()`; `RecordInv`, who
is writing the one record; `DecisionInv`, the observer's status and what the raw
session decided; `DoneInv`, what a worker that is done has left for the handler to
clean up; and `AnswerInv`, the answer of the worker is the answer of the handler. The
step lemma has one part per action, each from a summary of what the action does to
the worker, the observer and the session.

**SequenceFolds** is what the prover lacks for modules that compute with folds over
sequences. Of the library's `FoldLeft` - a recursive function on sets of positions,
chosen by CHOOSE - the prover knows nothing, and the library's induction theorems
take an operator. The module therefore proves, by well-founded induction on sets of
numbers, that such a function exists (`FoldOverExists`) and that it passes the
elements from left to right (`FoldRuns`, `FoldAppend`); `SeqInduction` is induction
over sequences for a *set* of sequences in the place of a predicate. With these every
fold of a model has a lemma for the empty sequence and one for one more element
(`ConcatAppend`, `ReadyAppend`, `CoalescedAppend`, `GreedyAppend`, `PrefixAppend`,
`BytesAppend`, `UnmarkedAppend`), from which what it computes is proved for every
sequence.

**RuntimeProofs** is about the runtime.

- *RuntimeSession*: for every length of the generation and of a drain,
  `SessionTypeCorrect`, `DeliveryCorrect` (`DeliveryIsExact`) and `RuntimeStream`
  (the safety half of `ImplementsStream`), from `FlagAssumption` and
  `BoundAssumption`. The property speaks of delivered events only; the invariant
  `SessionInv` says of the whole line - delivered, pending, taken by the consumer,
  queued by the job - that its text, `Flow`, is what was generated (`TextInv`); that
  nothing but sentinels comes behind what ends the results (`QueueInv`); that a finish
  is pending only when nothing is left to come (`PendingInv`); and that the consumer
  knows of every marker it was or will be told (`ActiveInv`). Draining cuts the line
  between two items (`ResultsFaithful`), translating and coalescing keep its text and
  move every span with its piece (`ToldFaithful`, `MergedDeltaExact`,
  `CoalescedFaithful`).
- *VisionCache*: for every set of images, sizes, budget and number of threads,
  `SnapshotCorrect`, `PublicationCorrect` and `CacheCorrect` (`CacheIsExact`), from
  `VisionAssumption`. `TransactionInv` adds
  to the types that whoever is inside a transaction holds the lock, and that whoever
  passed the guard has not been cancelled since. `CacheInv` adds that the order lists
  the cached keys, once each, with their bytes; that the protected prefix of the last
  request is cached and the next image would not have fitted; and that whoever passed
  the guard has an embedding for every image - without which a commit could list a key
  that has none. A commit is right because a selection stays within the budget
  (`GreedySelected`) and takes at least the beginning that the scan takes
  (`PrefixCovered`).
- *GeneratorRecovery*: for any number of generators, loads, closes, sessions and
  waiters, `CacheOwned` and, of the steps, `CauseIsTold`, from `ConstantsAssumption`.
  `RecoveryInv` adds to the types where a generator may be (`OwnInv`:
  current or quarantined, never both, and otherwise closed clean), which load it
  belongs to (`LoadInv`), what the recovery task and a `close()` know at each of their
  awaits (`RecInv`, `CloserInv`), that a system-memory cache is never rebuilt upon
  (`SysmemInv`), and that a generator that failed has a cause before anyone asks
  (`CauseInv`). Most steps do one of four things to the ownership of the cache: leave
  it alone, put the generator into quarantine, end a recovery, or let `close()` go on;
  one lemma each.

**OutputProofs** is about what a caller gets, in two parts.

- *ReasoningBudget*: for every budget, any number of pieces and every cut into deltas,
  `BudgetCorrect` (`BudgetClosesOnce`), from `BudgetAssumption`. The property speaks
  of what the caller got. The invariant `BudgetInv` looks at everything sampled:
  there is at most one close by the model and one injected, the injected one last and
  right behind its message (`EmissionInv`); and says for each state of the budget what
  it knows of them (`ForcingInv`): counting has seen no close; after a close without a
  message the duplicate flag is set exactly while the second close is still to come
  (`ClosedSilently`); after one with a message none is to come (`ClosedByMessage`).
  The last is the subtle one: reasoning that ends with the message at the end of its
  text was ended by the injected close, however the pieces are cut (`MessageCloses`).
- *OutputStreams*: for any number of pieces, of calls and of calls open at once,
  `BlocksCorrect` (`BlocksNeverOverlap`), from `StreamAssumption`. What the client of
  an Anthropic stream is shown is not where the parser is, since content waits while a
  call is open. `BlockInv` relates the two: either the client's open block is the one
  of the parser's channel (`Shows`), or it is the pending call's and the deferred
  events lead from no channel to where the parser is (`Waits`, `Leads`); no other call
  has a block. The step that ends a call is an induction over the deferred events, in
  which a deferred start of a second call defers what is left. The property needs no
  restriction to parsers with one open call, as the agreement of content does.

The inductive invariants of ModelManager, GeneratorRecovery, ResponseAuthority,
AttemptRecovery, ServingSession, HttpExchange, ReasoningBudget and OutputStreams were
checked by TLC on the instance of the component's run. Nothing is assumed
about fairness anywhere.

Only model-checked: all liveness (fairness and ENABLED are outside the prover's
fragment), also the liveness halves of `NothingIsHeld` and of the three
`ImplementsStream`; `StreamsAgree` of OutputStreams; and the
seven properties of OutputParsing. OutputParsing reaches the parsers, which are
written with RECURSIVE operators, as their code is; the prover loses its arithmetic
backend in a module that reaches one.

## 5. What is not modelled

The backend itself, tokenisation and the Jinja templates (calls into ExLlamaV3 and
files of a model); the masking of literal markers in user text; the decoding of
values by their schema, several arguments in a call and JSON Schema validation
(verdicts or one string here); multimodal items; the request parsing of the chat,
Messages and completions protocols (stateless functions of one document); counters,
histograms and the capture file; the tool wire's compile cache and the wire form of
its grammar; configuration, command line, security filters, downloader. Usage,
timing, ids, sequence numbers and wire formatting are left out of the modules that
touch them. The beginning of a tag that is cut off by the end of a Qwen output is
dropped by `finish()` (`model/qwen.py:1951`): "<" alone is modelled, "<th" cannot be
spelled with the glyphs used here. `tool_wire/contracts.py`, `runtime/contracts.py` and `core/` are data
types: the modules use their shapes.

## 6. Plan

Done, in this order: RequestControl with proofs; GeneratorRecovery; ToolBatchGate
and AttemptRecovery; RendererLanePool and ModelManager; ResponseStore and
ResponseAuthority; RuntimeSession; TerminalEvidence and ServingSession;
ReasoningBudget; OutputStreams; VisionCache; RawSession and
HttpExchange; the parsers, the tool wire, the plan of a generation, the history of
a conversation and their composition OutputParsing; TerminalStream and its three
refinements.

Then the proofs about ModelManager, GeneratorRecovery, ResponseAuthority,
AttemptRecovery, ServingSession and HttpExchange, and those about RuntimeSession,
VisionCache, ReasoningBudget and OutputStreams, for which the algorithms of these four
became folds;
all three refinements of TerminalStream are proved as far as they are safety.

Next, proving: the agreement of content in OutputStreams (`StreamsAgree`); of the
parsers, one dialect at a time, that what a parser holds back, has told and still has
to read is its input, after its recursive scanner became a recursive function.

Next, modelling: several arguments of different types in a call, with the decoding
of their values; request-side algorithms of the other protocols (output limits, the
conversion of Anthropic content); the masking of literal markers.
