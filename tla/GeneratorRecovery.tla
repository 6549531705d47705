------------------------- MODULE GeneratorRecovery -------------------------
(***************************************************************************)
(* The shared generator of the ExLlamaV3 runtime: quarantine, in-process   *)
(* recovery and teardown (runtime/exllamav3.py, ExLlamaV3Runtime).         *)
(*                                                                         *)
(* All sessions of a loaded model share one generator, which owns the K/V  *)
(* cache.  When it fails it is quarantined, a recovery task quiesces it    *)
(* and builds a replacement on the same resources.  The failure may be     *)
(* reported by the iteration task's callback, by any session, by submit;   *)
(* meanwhile wait_until_ready waits on the task and close tears it down.   *)
(*                                                                         *)
(* A generator and its failure episode are created and quarantined         *)
(* together, so one identity stands for both.  A step is the code between  *)
(* two awaits.  The manager runs one close() at a time on a runtime.       *)
(***************************************************************************)
EXTENDS Naturals, FiniteSets

CONSTANTS
    MaxGenerators,  \* bound: generators built
    MaxLoads,       \* bound: calls of load()
    MaxCloses,      \* bound: calls of close()
    Sessions,       \* identities of RuntimeSession objects
    Waiters,        \* calls of wait_until_ready
    BackendMayFail, \* generator.close, clear_queue, a construction or an unload may raise
    MayInterrupt    \* the task that runs close() may be cancelled

ASSUME ConstantsAssumption ==
    /\ MaxGenerators \in Nat /\ MaxLoads \in Nat /\ MaxCloses \in Nat
    /\ BackendMayFail \in BOOLEAN /\ MayInterrupt \in BOOLEAN

None == 0
Generators == 1..MaxGenerators

VARIABLES
    sysmem,       \* sysmem_kv_cache_mb > 0, a setting of the runtime
    resources,    \* _resources: which load() built them, or None
    loads,        \* calls of load() so far
    closing,      \* _closing
    state,        \* _generator_state
    current,      \* _generator, _generator_episode
    quarantined,  \* _quarantined_generator, _quarantined_episode
    task,         \* _recovery_task, named by the generator it recovers
    gen,          \* the generators built so far
    rec,          \* the recovery tasks, one per failed generator
    closer,       \* the task inside close()
    session,      \* the RuntimeSession objects
    waiter        \* the tasks inside wait_until_ready

lifecycle == <<state, current, quarantined, task>>
recoveryVars == <<sysmem, resources, loads, closing, lifecycle, gen, rec, closer, session, waiter>>

Causes == {"none", "recovering", "restart"}

GeneratorType ==
    [load : Nat,                                  \* the resources it was built on
     health : {"unbuilt", "running", "error", "ended"},
     armed : BOOLEAN,                             \* the observer's callback is due
     clean : BOOLEAN,                             \* closed, its queue cleared
     cause : Causes]                              \* its episode's cause

RecoveryType ==
    [pc : {"none", "created", "quiescing", "discarding", "done", "cancelled"},
     replacement : Generators \cup {None}]

CloserType ==
    [pc : {"idle", "recovery", "quarantined", "poisoned", "generator"},
     on : Generators \cup {None},                 \* the generator it awaits something of
     calls : 0..MaxCloses,
     result : {"none", "clean", "unclean", "raised", "interrupted"}]

SessionType ==
    [status : {"none", "live", "finished", "failed", "refused"},
     gen : Generators \cup {None}, cause : Causes]

WaiterType ==
    [pc : {"idle", "waiting", "done"}, on : Generators \cup {None},
     result : {"none", "ready", "failed", "closed", "deadline", "cancelled"}]

(* The types of all variables.                                             *)
RecoveryTypes ==
    /\ sysmem \in BOOLEAN
    /\ resources \in 0..MaxLoads
    /\ loads \in 0..MaxLoads
    /\ closing \in BOOLEAN
    /\ state \in {"READY", "RECOVERING", "FAILED"}
    /\ current \in Generators \cup {None}
    /\ quarantined \in Generators \cup {None}
    /\ task \in Generators \cup {None}
    /\ gen \in [Generators -> GeneratorType]
    /\ rec \in [Generators -> RecoveryType]
    /\ closer \in CloserType
    /\ closer.pc # "idle" => closer.on # None
    /\ session \in [Sessions -> SessionType]
    /\ waiter \in [Waiters -> WaiterType]

RecoveryInit ==
    /\ sysmem \in BOOLEAN
    /\ resources = None
    /\ loads = 0
    /\ closing = FALSE
    /\ state = "READY"
    /\ current = None /\ quarantined = None /\ task = None
    /\ gen = [g \in Generators |-> [load |-> 0, health |-> "unbuilt", armed |-> FALSE,
                                    clean |-> FALSE, cause |-> "none"]]
    /\ rec = [g \in Generators |-> [pc |-> "none", replacement |-> None]]
    /\ closer = [pc |-> "idle", on |-> None, calls |-> 0, result |-> "none"]
    /\ session = [s \in Sessions |-> [status |-> "none", gen |-> None, cause |-> "none"]]
    /\ waiter = [w \in Waiters |-> [pc |-> "idle", on |-> None, result |-> "none"]]

-----------------------------------------------------------------------------
(* Generators.                                                             *)

(* _generator_is_known_dead: an error is stored or the task has ended.     *)
KnownDead(g) == gen[g].health \in {"error", "ended"}

(* _create_async_generator in _ensure_generator, and the observer that     *)
(* submit and _recover_generator register on the result at once.  The new  *)
(* generator may already be dead.                                          *)
Built(g, health) ==
    [load |-> resources, health |-> health, armed |-> TRUE, clean |-> FALSE,
     cause |-> "none"]

Fresh(g) == /\ gen[g].health = "unbuilt"
            /\ \A h \in Generators : h < g => gen[h].health # "unbuilt"

(* The backend's iteration task ends, with or without a stored error.      *)
GeneratorDies(g, how) ==
    /\ gen[g].health = "running"
    /\ gen' = [gen EXCEPT ![g].health = how]
    /\ UNCHANGED <<sysmem, resources, loads, closing, lifecycle, rec, closer, session, waiter>>

(* _quiesce_and_clear_generator succeeded: the generator's task has ended  *)
(* and its queue is empty.                                                 *)
Cleaned(g, G) ==
    [G EXCEPT ![g].clean = TRUE,
              ![g].health = IF @ = "running" THEN "ended" ELSE @]

RestartRequired(g, G) == [G EXCEPT ![g].cause = "restart"]

(* The first notification of the failure of an owned generator.            *)
MayProject(g, G, cur) ==
    /\ G[g].cause = "none"
    /\ resources # None
    /\ ~closing
    /\ g \in {cur, quarantined}

(* Faulty variant: the episode is not marked when the recovery begins.     *)
BugBeginRecovery(g, G) ==
    /\ gen' = G
    /\ state' = "RECOVERING"
    /\ current' = None
    /\ quarantined' = g
    /\ rec' = [rec EXCEPT ![g] = [pc |-> "created", replacement |-> None]]
    /\ task' = g

(* _begin_generator_recovery, with the generator table G: quarantine the   *)
(* generator and create the task that recovers it.                         *)
BeginRecovery(g, G) ==
    /\ gen' = [G EXCEPT ![g].cause = IF @ = "none" THEN "recovering" ELSE @]
    /\ state' = "RECOVERING"
    /\ current' = None
    /\ quarantined' = g
    /\ rec' = [rec EXCEPT ![g] = [pc |-> "created", replacement |-> None]]
    /\ task' = g

(* _project_backend_failure with the generator table G and the current     *)
(* generator cur.  Its result is gen'[g].cause.                            *)
ProjectFailure(g, G, cur) ==
    IF MayProject(g, G, cur) /\ cur = g /\ state = "READY"
    THEN IF sysmem
         THEN /\ gen' = RestartRequired(g, G)
              /\ state' = "FAILED"
              /\ current' = None
              /\ quarantined' = g
              /\ UNCHANGED <<task, rec>>
         ELSE BeginRecovery(g, G)
    ELSE IF MayProject(g, G, cur) /\ IF sysmem THEN quarantined = g ELSE state = "FAILED"
    THEN /\ gen' = RestartRequired(g, G)
         /\ state' = "FAILED"
         /\ current' = cur
         /\ UNCHANGED <<quarantined, task, rec>>
    ELSE gen' = G /\ current' = cur /\ UNCHANGED <<state, quarantined, task, rec>>

(* _on_generator_iteration_done, the callback of the iteration task.       *)
ObserverFires(g) ==
    /\ gen[g].armed
    /\ KnownDead(g)
    /\ LET G == [gen EXCEPT ![g].armed = FALSE]
       IN IF closing \/ resources = None \/ current # g
          THEN gen' = G /\ UNCHANGED <<lifecycle, rec>>
          ELSE ProjectFailure(g, G, current)
    /\ UNCHANGED <<sysmem, resources, loads, closing, closer, session, waiter>>

-----------------------------------------------------------------------------
(* load and submit.                                                        *)

(* load(): the fields are reset only once the resources are built.         *)
Load ==
    /\ resources = None
    /\ loads < MaxLoads
    /\ loads' = loads + 1
    /\ resources' = loads'
    /\ closing' = FALSE
    /\ state' = "READY"
    /\ current' = None /\ quarantined' = None /\ task' = None
    /\ UNCHANGED <<sysmem, gen, rec, closer, session, waiter>>

(* What submit() raises for: the runtime is not loaded, closing,           *)
(* recovering or failed.                                                   *)
Admits == resources # None /\ ~closing /\ state = "READY"

SubmitRefused(s) ==
    /\ session[s].status = "none"
    /\ resources # None
    /\ ~Admits
    /\ session' = [session EXCEPT
            ![s].status = "refused",
            ![s].cause = IF closing THEN "none"
                         ELSE IF state = "RECOVERING" THEN "recovering" ELSE "restart"]
    /\ UNCHANGED <<sysmem, resources, loads, closing, lifecycle, gen, rec, closer, waiter>>

(* submit() with generator g, which table G holds: a dead one is projected *)
(* and the submission refused, else the session starts on it.              *)
SubmitOn(s, g, G) ==
    IF G[g].health = "running"
    THEN /\ session' = [session EXCEPT ![s] = [status |-> "live", gen |-> g,
                                               cause |-> "none"]]
         /\ gen' = G
         /\ current' = g
         /\ UNCHANGED <<state, quarantined, task, rec>>
    ELSE /\ ProjectFailure(g, G, g)
         /\ session' = [session EXCEPT
                ![s] = [status |-> "refused", gen |-> None,
                        cause |-> IF gen'[g].cause = "none" THEN "restart"
                                  ELSE gen'[g].cause]]

(* submit() with the generator that is there.                              *)
Submit(s) ==
    /\ session[s].status = "none"
    /\ Admits
    /\ current # None
    /\ SubmitOn(s, current, gen)
    /\ UNCHANGED <<sysmem, resources, loads, closing, closer, waiter>>

(* submit() that has to build the generator first.                         *)
SubmitBuilds(s, g, health) ==
    /\ session[s].status = "none"
    /\ Admits
    /\ current = None
    /\ Fresh(g)
    /\ SubmitOn(s, g, [gen EXCEPT ![g] = Built(g, health)])
    /\ UNCHANGED <<sysmem, resources, loads, closing, closer, waiter>>

(* The session's job ends normally, is cancelled, or ends early because    *)
(* the generator was closed under it.                                      *)
SessionFinishes(s) ==
    /\ session[s].status = "live"
    /\ gen[session[s].gen].health # "error"
    /\ session' = [session EXCEPT ![s].status = "finished"]
    /\ UNCHANGED <<sysmem, resources, loads, closing, lifecycle, gen, rec, closer, waiter>>

(* __anext__ finds the generator's stored error, or its job raised: the    *)
(* session reports the failure and is told the cause.                      *)
SessionFails(s) ==
    /\ session[s].status = "live"
    /\ ProjectFailure(session[s].gen, gen, current)
    /\ session' = [session EXCEPT ![s].status = "failed",
                                  ![s].cause = gen'[session[s].gen].cause]
    /\ UNCHANGED <<sysmem, resources, loads, closing, closer, waiter>>

-----------------------------------------------------------------------------
(* _recover_generator, the recovery task of generator g.                   *)

(* The task returns: its finally clause clears _recovery_task.             *)
RecoveryEnds(g, pc) ==
    /\ rec' = [rec EXCEPT ![g] = [pc |-> pc, replacement |-> None]]
    /\ task' = IF task = g THEN None ELSE task

(* It runs under _generator_lifecycle_lock, which nothing else takes.      *)
RecoverStarts(g) ==
    /\ rec[g].pc = "created"
    /\ \A h \in Generators : rec[h].pc \notin {"quiescing", "discarding"}
    /\ IF quarantined # g
       THEN RecoveryEnds(g, "done")
       ELSE rec' = [rec EXCEPT ![g].pc = "quiescing"] /\ UNCHANGED task
    /\ UNCHANGED <<sysmem, resources, loads, closing, state, current, quarantined, gen,
                   closer, session, waiter>>

(* generator.close() or clear_queue() raised: the quarantine stays.        *)
RecoverQuiesceFails(g) ==
    /\ BackendMayFail
    /\ rec[g].pc = "quiescing"
    /\ gen' = RestartRequired(g, gen)
    /\ state' = "FAILED"
    /\ RecoveryEnds(g, "done")
    /\ UNCHANGED <<sysmem, resources, loads, closing, current, quarantined, closer, session, waiter>>

(* Cleaned up, but the runtime is being closed: no replacement.            *)
RecoverStands(g) ==
    /\ rec[g].pc = "quiescing"
    /\ closing \/ resources # gen[g].load
    /\ gen' = Cleaned(g, gen)
    /\ quarantined' = None
    /\ RecoveryEnds(g, "done")
    /\ UNCHANGED <<sysmem, resources, loads, closing, state, current, closer, session, waiter>>

(* The failed generator is cleaned up and the runtime stays open.          *)
MayReplace(g) == rec[g].pc = "quiescing" /\ ~closing /\ resources = gen[g].load

(* Faulty variant: the replacement is built before the failed generator    *)
(* has been closed.                                                        *)
BugRecoverReplaces(g, r) ==
    /\ MayReplace(g)
    /\ Fresh(r)
    /\ gen' = [gen EXCEPT ![r] = Built(r, "running")]
    /\ quarantined' = None
    /\ current' = r
    /\ state' = "READY"
    /\ RecoveryEnds(g, "done")
    /\ UNCHANGED <<sysmem, resources, loads, closing, closer, session, waiter>>

(* The replacement lives: the runtime is ready again.                      *)
RecoverReplaces(g, r) ==
    /\ MayReplace(g)
    /\ Fresh(r)
    /\ gen' = [Cleaned(g, gen) EXCEPT ![r] = Built(r, "running")]
    /\ quarantined' = None
    /\ current' = r
    /\ state' = "READY"
    /\ RecoveryEnds(g, "done")
    /\ UNCHANGED <<sysmem, resources, loads, closing, closer, session, waiter>>

(* The construction of the replacement raises.                             *)
RecoverConstructionFails(g) ==
    /\ MayReplace(g)
    /\ gen' = RestartRequired(g, Cleaned(g, gen))
    /\ quarantined' = None
    /\ state' = "FAILED"
    /\ RecoveryEnds(g, "done")
    /\ UNCHANGED <<sysmem, resources, loads, closing, current, closer, session, waiter>>

(* The replacement is dead already: it is quarantined and quiesced.        *)
RecoverDiscards(g, r, health) ==
    /\ MayReplace(g)
    /\ Fresh(r)
    /\ gen' = [RestartRequired(g, Cleaned(g, gen)) EXCEPT ![r] = Built(r, health)]
    /\ quarantined' = r
    /\ rec' = [rec EXCEPT ![g] = [pc |-> "discarding", replacement |-> r]]
    /\ UNCHANGED <<sysmem, resources, loads, closing, state, current, task, closer, session, waiter>>

RecoverDiscarded(g, ok) ==
    /\ rec[g].pc = "discarding"
    /\ ok \/ BackendMayFail
    /\ gen' = IF ok THEN Cleaned(rec[g].replacement, gen) ELSE gen
    /\ quarantined' = IF ok THEN None ELSE quarantined
    /\ state' = "FAILED"
    /\ RecoveryEnds(g, "done")
    /\ UNCHANGED <<sysmem, resources, loads, closing, current, closer, session, waiter>>

-----------------------------------------------------------------------------
(* wait_until_ready(deadline), with a deadline.                            *)

(* The synchronous part of one turn of its loop.                           *)
WaitTurn(w) ==
    waiter' = [waiter EXCEPT ![w] =
        IF closing \/ resources = None
        THEN [pc |-> "done", on |-> None, result |-> "closed"]
        ELSE IF state = "READY"
        THEN [pc |-> "done", on |-> None, result |-> "ready"]
        ELSE IF state = "FAILED" \/ task = None
        THEN [pc |-> "done", on |-> None, result |-> "failed"]
        ELSE [pc |-> "waiting", on |-> task, result |-> "none"]]

WaitBegins(w) ==
    /\ waiter[w].pc = "idle"
    /\ WaitTurn(w)
    /\ UNCHANGED <<sysmem, resources, loads, closing, lifecycle, gen, rec, closer, session>>

WaitDeadline(w) ==
    /\ waiter[w].pc = "waiting"
    /\ waiter' = [waiter EXCEPT ![w] = [pc |-> "done", on |-> None, result |-> "deadline"]]
    /\ UNCHANGED <<sysmem, resources, loads, closing, lifecycle, gen, rec, closer, session>>

(* Faulty variant: only a recovery that ran to its end wakes the waiter.   *)
BugWaitWakes(w) ==
    /\ waiter[w].pc = "waiting"
    /\ rec[waiter[w].on].pc = "done"
    /\ WaitTurn(w)
    /\ UNCHANGED <<sysmem, resources, loads, closing, lifecycle, gen, rec, closer, session>>

(* The shielded recovery task is over.  A cancelled one raises in the      *)
(* waiter too.                                                             *)
WaitWakes(w) ==
    /\ waiter[w].pc = "waiting"
    /\ \/ rec[waiter[w].on].pc = "done" /\ WaitTurn(w)
       \/ /\ rec[waiter[w].on].pc = "cancelled"
          /\ waiter' = [waiter EXCEPT ![w] = [pc |-> "done", on |-> None,
                                              result |-> "cancelled"]]
    /\ UNCHANGED <<sysmem, resources, loads, closing, lifecycle, gen, rec, closer, session>>

-----------------------------------------------------------------------------
(* close().                                                                *)

(* close() returns or raises, with its own state c, and the result.        *)
CloseEnds(c, result) == closer' = [c EXCEPT !.pc = "idle", !.on = None, !.result = result]

(* The outcomes of unloading the models when nothing failed before.        *)
Unloaded == {"clean"} \cup (IF BackendMayFail THEN {"unclean"} ELSE {})

(* Everything is unloaded and every field is reset.                        *)
DropResources(c, result) ==
    /\ resources' = None
    /\ current' = None /\ quarantined' = None /\ task' = None
    /\ state' = "READY"
    /\ CloseEnds(c, result)

(* close() once the quarantine is settled: a generator that stored an      *)
(* error is quiesced, another one closed; without one the models are       *)
(* unloaded at once.                                                       *)
CloseGenerator(c) ==
    IF current = None
    THEN \E r \in Unloaded : DropResources(c, r)
    ELSE /\ closer' = [c EXCEPT
                !.pc = IF gen[current].health = "error" THEN "poisoned" ELSE "generator",
                !.on = current]
         /\ quarantined' = None
         /\ UNCHANGED <<resources, state, current, task>>

(* close() once no recovery task runs: settle the quarantine first.        *)
CloseSettles(c) ==
    IF quarantined # None
    THEN /\ closer' = [c EXCEPT !.pc = "quarantined", !.on = quarantined]
         /\ UNCHANGED <<resources, lifecycle>>
    ELSE CloseGenerator(c)

(* close() is called: it waits for the recovery task, if there is one.     *)
CloseBegins ==
    /\ closer.pc = "idle"
    /\ closer.calls < MaxCloses
    /\ resources # None
    /\ closing' = TRUE
    /\ LET c == [closer EXCEPT !.calls = @ + 1]
       IN IF task = None
          THEN CloseSettles(c)
          ELSE /\ closer' = [c EXCEPT !.pc = "recovery", !.on = task]
               /\ UNCHANGED <<resources, lifecycle>>
    /\ UNCHANGED <<sysmem, loads, gen, rec, session, waiter>>

(* The awaited recovery task is over.                                      *)
CloseAfterRecovery ==
    /\ closer.pc = "recovery"
    /\ rec[closer.on].pc \in {"done", "cancelled"}
    /\ CloseSettles(closer)
    /\ UNCHANGED <<sysmem, loads, closing, gen, rec, session, waiter>>

(* The task of close() is cancelled while it awaits the recovery task:     *)
(* that cancels the recovery task, and close() itself goes on.             *)
CloseCancelsRecovery ==
    /\ MayInterrupt
    /\ closer.pc = "recovery"
    /\ rec[closer.on].pc \in {"created", "quiescing", "discarding"}
    /\ RecoveryEnds(closer.on, "cancelled")
    /\ UNCHANGED <<sysmem, resources, loads, closing, state, current, quarantined, gen, closer,
                   session, waiter>>

(* The quarantined generator is quiesced.  A sysmem tier keeps it: its     *)
(* ownership cannot be given up in this process.                           *)
CloseQuiesced ==
    /\ closer.pc = "quarantined"
    /\ gen' = Cleaned(closer.on, gen)
    /\ IF sysmem
       THEN CloseEnds(closer, "raised") /\ UNCHANGED <<resources, lifecycle>>
       ELSE CloseGenerator(closer)
    /\ UNCHANGED <<sysmem, loads, closing, rec, session, waiter>>

CloseQuiesceFails ==
    /\ BackendMayFail
    /\ closer.pc = "quarantined"
    /\ state' = "FAILED"
    /\ CloseEnds(closer, "raised")
    /\ UNCHANGED <<sysmem, resources, loads, closing, current, quarantined, task, gen, rec,
                   session, waiter>>

(* A generator that stored an error is quiesced, or quarantined when that  *)
(* fails.                                                                  *)
ClosePoisoned(ok) ==
    /\ closer.pc = "poisoned"
    /\ ok \/ BackendMayFail
    /\ IF ok
       THEN /\ gen' = Cleaned(closer.on, gen)
            /\ \E r \in Unloaded : DropResources(closer, r)
       ELSE /\ current' = None
            /\ quarantined' = closer.on
            /\ state' = "FAILED"
            /\ CloseEnds(closer, "raised")
            /\ UNCHANGED <<resources, task, gen>>
    /\ UNCHANGED <<sysmem, loads, closing, rec, session, waiter>>

(* generator.close() of a generator without an error; a failure is         *)
(* remembered and everything unloaded all the same.                        *)
CloseClosed(ok) ==
    /\ closer.pc = "generator"
    /\ ok \/ BackendMayFail
    /\ gen' = IF ok THEN Cleaned(closer.on, gen) ELSE gen
    /\ \E r \in IF ok THEN Unloaded ELSE {"unclean"} : DropResources(closer, r)
    /\ UNCHANGED <<sysmem, loads, closing, rec, session, waiter>>

(* The task of close() is cancelled at one of its other awaits.            *)
CloseInterrupted ==
    /\ MayInterrupt
    /\ closer.pc \in {"quarantined", "poisoned", "generator"}
    /\ CloseEnds(closer, "interrupted")
    /\ UNCHANGED <<sysmem, resources, loads, closing, lifecycle, gen, rec, session, waiter>>

-----------------------------------------------------------------------------
GeneratorStep(g) ==
    \/ \E how \in {"error", "ended"} : GeneratorDies(g, how)
    \/ ObserverFires(g)

RecoveryStep(g) ==
    \/ RecoverStarts(g)
    \/ RecoverQuiesceFails(g)
    \/ RecoverStands(g)
    \/ \E r \in Generators : RecoverReplaces(g, r)
    \/ RecoverConstructionFails(g)
    \/ \E r \in Generators, h \in {"error", "ended"} : RecoverDiscards(g, r, h)
    \/ \E ok \in BOOLEAN : RecoverDiscarded(g, ok)

SessionStep(s) ==
    \/ SubmitRefused(s)
    \/ Submit(s)
    \/ \E g \in Generators, h \in {"running", "error", "ended"} : SubmitBuilds(s, g, h)
    \/ SessionFinishes(s)
    \/ SessionFails(s)

WaiterStep(w) == WaitBegins(w) \/ WaitDeadline(w) \/ WaitWakes(w)

(* The steps close() takes once it has been called.                        *)
CloseRuns ==
    \/ CloseAfterRecovery
    \/ CloseQuiesced
    \/ CloseQuiesceFails
    \/ \E ok \in BOOLEAN : ClosePoisoned(ok) \/ CloseClosed(ok)
    \/ CloseInterrupted

RecoveryNext ==
    \/ Load
    \/ \E g \in Generators : GeneratorStep(g) \/ RecoveryStep(g)
    \/ \E s \in Sessions : SessionStep(s)
    \/ \E w \in Waiters : WaiterStep(w)
    \/ CloseBegins
    \/ CloseCancelsRecovery
    \/ CloseRuns

(* What goes on by itself: the recovery task, the task inside close() and  *)
(* a waiter whose recovery is over.                                        *)
Progress ==
    \/ \E g \in Generators : RecoveryStep(g)
    \/ CloseRuns
    \/ \E w \in Waiters : WaitWakes(w)

(* The event loop keeps running them, and the backend's close() calls      *)
(* return or raise.  Nothing obliges a deadline to expire or a session to  *)
(* be read.                                                                *)
Fairness == WF_recoveryVars(Progress)

RecoverySpec == RecoveryInit /\ [][RecoveryNext]_recoveryVars
RecoveryFairSpec == RecoverySpec /\ Fairness

-----------------------------------------------------------------------------
(* Correctness.                                                            *)

(* The generators whose jobs may still touch the loaded K/V cache.         *)
Unclean == {g \in Generators : /\ gen[g].health # "unbuilt"
                               /\ gen[g].load = resources
                               /\ ~gen[g].clean}

(* Two generators never share the loaded cache: recovery, submit and close *)
(* build or adopt one only after the one before it was closed and its      *)
(* queue cleared, and with a system-memory K/V tier, whose ownership dies  *)
(* with the process, no second one is ever built on a load.                *)
OneGeneratorPerCache ==
    /\ resources # None => Cardinality(Unclean) <= 1
    /\ sysmem => \A g, h \in Generators :
          (g # h /\ gen[g].load = gen[h].load /\ gen[g].load # None)
              => gen[g].health = "unbuilt" \/ gen[h].health = "unbuilt"

RecoveryRuns(g) == rec[g].pc \in {"created", "quiescing", "discarding"}

(* No generator and no recovery is lost: while the model is loaded, a      *)
(* generator that was not closed is still referenced, as current or in     *)
(* quarantine, so that a later close() can retry; a recovery that runs is  *)
(* the one _recovery_task names and works on the loaded resources; and a   *)
(* ready runtime has neither.                                              *)
NothingIsLost ==
    /\ resources # None => Unclean \subseteq {current, quarantined}
    /\ \A g \in Generators :
          RecoveryRuns(g) => task = g /\ resources = gen[g].load
    /\ (resources # None /\ state = "READY") => quarantined = None /\ task = None

(* close() that returns without an error has closed every generator of the *)
(* load it took down, and nothing of it runs on.                           *)
CleanCloseIsClean ==
    (resources = None /\ loads # 0 /\ closer.result = "clean")
        => \A g \in Generators :
              gen[g].load = loads => gen[g].clean /\ ~RecoveryRuns(g)

(* The loaded K/V cache belongs to one generator, which is never lost      *)
(* sight of, from the load until a close() without an error.               *)
CacheIsOwned == OneGeneratorPerCache /\ NothingIsLost /\ CleanCloseIsClean

(* A session that learns of its generator's failure while the runtime      *)
(* serves is told a cause, whichever of observer, sibling session, submit  *)
(* and recovery task saw the failure first.                                *)
FailureHasCause ==
    [][\A s \in Sessions :
          (session[s].status = "live" /\ session'[s].status = "failed"
               /\ resources = gen[session[s].gen].load /\ ~closing)
              => session'[s].cause # "none"]_recoveryVars

(* Nobody waits for ever: a recovery makes the runtime ready or failed     *)
(* unless it is being closed, close() returns or raises, and               *)
(* wait_until_ready returns even if its deadline never expires.            *)
EveryWaitEnds ==
    /\ state = "RECOVERING" ~> (state # "RECOVERING" \/ closing)
    /\ closer.pc # "idle" ~> closer.pc = "idle"
    /\ \A w \in Waiters : waiter[w].pc = "waiting" ~> waiter[w].pc = "done"
=============================================================================
