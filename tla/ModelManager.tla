---------------------------- MODULE ModelManager ----------------------------
(***************************************************************************)
(* Model lifecycle (server/model_manager.py, ModelManager) around the      *)
(* submissions that use the active bundle: load, switch, unload and close, *)
(* serialized by the transition lock, against requests that render their   *)
(* prompt on a lane of the bundle and are submitted to its runtime.        *)
(*                                                                         *)
(* A step is the code between two awaits that suspend.  The sections under *)
(* the manager's _lock never suspend, so each is part of one step.  The    *)
(* bundle's controller is reduced to whether it was closed; its leases are *)
(* the ones of RequestControl.  The builder is the one of server/app.py.   *)
(***************************************************************************)
EXTENDS RendererLanePool, Sequences, FiniteSets

CONSTANTS
    Admins,           \* tasks that call load, switch, unload or close
    Subs,             \* tasks that call submit, submit_raw or count_input_tokens
    Models,           \* candidate model ids
    MaxBundles,       \* bound: bundles built, the initial one included
    RollbackMayFail   \* the runtime of a failed build may resist its close()

ASSUME ManagerAssumption ==
    /\ MaxBundles \in Nat \ {0}
    /\ RollbackMayFail \in BOOLEAN
    /\ IsFiniteSet(Subs)
    /\ Models # {}

VARIABLES
    state,      \* _state
    bundle,     \* _bundle: the index of a bundle, 0 for None
    bundles,    \* every bundle built: its model, runtime, controller and lanes
    active,     \* _active_submissions
    queue,      \* tasks waiting for _transition_lock, first come first served
    adm,        \* the tasks of Admins
    sub         \* the tasks of Subs

managerVars == <<state, bundle, bundles, active, queue, adm, sub>>

States == {"READY", "LOADING", "SWITCHING", "UNLOADING", "UNLOADED", "ERROR", "CLOSED"}
Ops == {"load", "switch", "unload", "close"}
(* Positions of a task that holds the transition lock.                     *)
Holding == {"controller", "quiesce", "runtime", "build"}
(* Positions of a task inside the manager's submit or count_input_tokens.  *)
Submitting == {"lane", "rendering", "submitting"}

Bundles == 1..MaxBundles
Built == 1..Len(bundles)

NewBundle(m, rt) == [model |-> m, runtime |-> rt, admits |-> TRUE, drained |-> FALSE,
                     pool |-> NewPool]

(* The types of all variables.                                             *)
ManagerTypes ==
    /\ state \in States
    /\ Len(bundles) \in Bundles
    /\ \A b \in Built : bundles[b] \in
          [model : Models, runtime : {"loading", "live", "closed", "left"},
           admits : BOOLEAN, drained : BOOLEAN, pool : [closed : BOOLEAN, free : 0..LaneCount]]
    /\ bundle \in {0} \cup Built
    /\ active \in Nat
    /\ \A i \in 1..Len(queue) : queue[i] \in Admins
    /\ adm \in [Admins -> [pc : {"idle", "queued", "done"} \cup Holding, op : Ops,
                           model : Models, victim : 0..MaxBundles, err : BOOLEAN]]
    /\ sub \in [Subs -> [pc : {"idle", "session", "done"} \cup Submitting,
                         b : 0..MaxBundles, cancelled : BOOLEAN]]

ManagerInit ==
    /\ state = "READY"
    /\ bundle = 1
    /\ \E m \in Models : bundles = <<NewBundle(m, "live")>>
    /\ active = 0
    /\ queue = <<>>
    /\ \E m \in Models :
          adm = [a \in Admins |-> [pc |-> "idle", op |-> "load", model |-> m, victim |-> 0,
                                   err |-> FALSE]]
    /\ sub = [s \in Subs |-> [pc |-> "idle", b |-> 0, cancelled |-> FALSE]]

-----------------------------------------------------------------------------
(* Submissions.                                                            *)

(* Faulty variant: a submission that ends is not counted down.             *)
BugReleased == active' = active

(* _acquire_submission_bundle                                              *)
MayAcquire == state = "READY" /\ bundle # 0
Acquired == active' = active + 1
(* _release_submission_bundle                                              *)
Released == active' = active - 1

(* The bundle is leased, its controller admits the request, and the task   *)
(* waits for a lane; or the request is refused.                            *)
AcquireLease(s) ==
    /\ sub[s].pc = "idle"
    /\ \/ /\ MayAcquire
          /\ Acquired
          /\ sub' = [sub EXCEPT ![s] = [@ EXCEPT !.pc = "lane", !.b = bundle]]
       \/ /\ sub' = [sub EXCEPT ![s].pc = "done"]
          /\ UNCHANGED active
    /\ UNCHANGED <<state, bundle, bundles, queue, adm>>

TakeLane(s) ==
    /\ sub[s].pc = "lane"
    /\ CanLease(bundles[sub[s].b].pool)
    /\ bundles' = [bundles EXCEPT ![sub[s].b].pool = Leased(@)]
    /\ sub' = [sub EXCEPT ![s].pc = "rendering"]
    /\ UNCHANGED <<state, bundle, active, queue, adm>>

(* The worker thread is done; more: the request is to be submitted.        *)
RenderDone(s, more) ==
    /\ sub[s].pc = "rendering"
    /\ bundles' = [bundles EXCEPT ![sub[s].b].pool = Returned(@)]
    /\ IF more /\ ~sub[s].cancelled
       THEN sub' = [sub EXCEPT ![s].pc = "submitting"] /\ UNCHANGED active
       ELSE sub' = [sub EXCEPT ![s].pc = "done"] /\ Released
    /\ UNCHANGED <<state, bundle, queue, adm>>

(* The lease is submitted to the runtime; a controller that was closed     *)
(* refuses it.                                                             *)
SubmitDone(s, ok) ==
    /\ sub[s].pc = "submitting"
    /\ ok => bundles[sub[s].b].admits
    /\ sub' = [sub EXCEPT ![s].pc = IF ok THEN "session" ELSE "done"]
    /\ Released
    /\ UNCHANGED <<state, bundle, bundles, queue, adm>>

(* The request's task is cancelled or runs into its deadline.  A worker    *)
(* thread cannot be cancelled: the task waits for it.                      *)
SubCancelled(s) ==
    /\ sub[s].pc \in Submitting
    /\ ~sub[s].cancelled
    /\ IF sub[s].pc = "rendering"
       THEN sub' = [sub EXCEPT ![s].cancelled = TRUE] /\ UNCHANGED active
       ELSE sub' = [sub EXCEPT ![s].pc = "done"] /\ Released
    /\ UNCHANGED <<state, bundle, bundles, queue, adm>>

(* The generation ends, by itself or cancelled by its controller.          *)
SessionEnds(s) ==
    /\ sub[s].pc = "session"
    /\ sub' = [sub EXCEPT ![s].pc = "done"]
    /\ UNCHANGED <<state, bundle, bundles, active, queue, adm>>

(* Requests that hold a lease of the controller of b.                      *)
LeasesOf(b) == {s \in Subs : sub[s].b = b /\ sub[s].pc \in Submitting \cup {"session"}}

-----------------------------------------------------------------------------
(* Transitions.                                                            *)

Begin(a, op, m) ==
    /\ adm[a].pc = "idle"
    /\ adm' = [adm EXCEPT ![a] = [@ EXCEPT !.pc = "queued", !.op = op, !.model = m]]
    /\ queue' = Append(queue, a)
    /\ UNCHANGED <<state, bundle, bundles, active, sub>>

(* Faulty variant: a cancelled waiter keeps its place in the queue.        *)
BugQueueCancelled(a) ==
    /\ adm[a].pc = "queued"
    /\ adm' = [adm EXCEPT ![a].pc = "done"]
    /\ UNCHANGED <<state, bundle, bundles, active, queue, sub>>

(* The task is cancelled while it waits for the transition lock.           *)
QueueCancelled(a) ==
    /\ adm[a].pc = "queued"
    /\ adm' = [adm EXCEPT ![a].pc = "done"]
    /\ queue' = SelectSeq(queue, LAMBDA x : x # a)
    /\ UNCHANGED <<state, bundle, bundles, active, sub>>

HasTurn(a) ==
    /\ adm[a].pc = "queued"
    /\ a = Head(queue)
    /\ \A x \in Admins : adm[x].pc \notin Holding

MayLoad == state \in {"UNLOADED", "ERROR"} /\ ~(state = "ERROR" /\ bundle # 0)

(* What the operation of a does once it holds the lock: it is refused (or  *)
(* has nothing to do), or it starts.                                       *)
Starts(a) ==
    CASE adm[a].op = "load" -> MayLoad
      [] adm[a].op = "switch" ->
            state = "READY" /\ bundle # 0 /\ bundles[bundle].model # adm[a].model
      [] adm[a].op = "unload" -> state = "READY" /\ bundle # 0
      [] adm[a].op = "close" -> state # "CLOSED"

Refused(a) ==
    /\ HasTurn(a)
    /\ ~Starts(a)
    /\ queue' = SelectSeq(queue, LAMBDA x : x # a)
    /\ adm' = [adm EXCEPT ![a].pc = "done"]
    /\ UNCHANGED <<state, bundle, bundles, active, sub>>

(* The builder loads the runtime of a new bundle in a worker thread.       *)
BuildStarts(a) ==
    /\ Len(bundles) < MaxBundles
    /\ bundles' = Append(bundles, NewBundle(adm[a].model, "loading"))

LoadBegins(a) ==
    /\ HasTurn(a)
    /\ adm[a].op = "load" /\ Starts(a)
    /\ queue' = SelectSeq(queue, LAMBDA x : x # a)
    /\ state' = "LOADING"
    /\ bundle' = 0
    /\ BuildStarts(a)
    /\ adm' = [adm EXCEPT ![a].pc = "build"]
    /\ UNCHANGED <<active, sub>>

TransitionState(op) ==
    CASE op = "switch" -> "SWITCHING" [] op = "unload" -> "UNLOADING" [] op = "close" -> "CLOSED"

(* switch, unload and close take the bundle and close its controller,      *)
(* which stops admission at once.                                          *)
ManagerCloses(a) ==
    /\ HasTurn(a)
    /\ adm[a].op # "load" /\ Starts(a)
    /\ queue' = SelectSeq(queue, LAMBDA x : x # a)
    /\ state' = TransitionState(adm[a].op)
    /\ bundle' = IF adm[a].op = "close" THEN 0 ELSE bundle
    /\ IF bundle = 0
       THEN adm' = [adm EXCEPT ![a].pc = "done"] /\ UNCHANGED bundles
       ELSE /\ bundles' = [bundles EXCEPT ![bundle].admits = FALSE]
            /\ adm' = [adm EXCEPT ![a] = [@ EXCEPT !.pc = "controller", !.victim = bundle]]
    /\ UNCHANGED <<active, sub>>

(* controller.close() returns when its leases are gone; err: it raised, or *)
(* the task was cancelled, which is remembered.                            *)
ControllerClosed(a, err) ==
    /\ adm[a].pc = "controller"
    /\ err \/ LeasesOf(adm[a].victim) = {}
    /\ adm' = [adm EXCEPT ![a] = [@ EXCEPT !.pc = "quiesce", !.err = err]]
    /\ bundles' = [bundles EXCEPT ![adm[a].victim].drained = ~err]
    /\ UNCHANGED <<state, bundle, active, queue, sub>>

(* Faulty variant: the lanes are closed without waiting.                   *)
BugQuiesced(a) ==
    /\ adm[a].pc = "quiesce"
    /\ bundles' = [bundles EXCEPT ![adm[a].victim].pool = PoolClosed(@)]
    /\ adm' = [adm EXCEPT ![a].pc = "runtime"]
    /\ UNCHANGED <<state, bundle, active, queue, sub>>

(* _submissions_quiesced is set: the lanes are closed and the runtime's    *)
(* close() begins.                                                         *)
Quiesced(a) ==
    /\ adm[a].pc = "quiesce"
    /\ active = 0
    /\ bundles' = [bundles EXCEPT ![adm[a].victim].pool = PoolClosed(@)]
    /\ adm' = [adm EXCEPT ![a].pc = "runtime"]
    /\ UNCHANGED <<state, bundle, active, queue, sub>>

(* The bundle is gone: the operation goes on, or raises the controller's   *)
(* error.                                                                  *)
RuntimeClosed(a) ==
    LET gone == [bundles EXCEPT ![adm[a].victim].runtime = "closed"]
        goesOn == adm[a].op = "switch" /\ ~adm[a].err
    IN /\ adm[a].pc = "runtime"
       /\ goesOn => Len(bundles) < MaxBundles
       /\ bundle' = 0
       /\ bundles' = IF goesOn THEN Append(gone, NewBundle(adm[a].model, "loading")) ELSE gone
       /\ state' = IF adm[a].op = "close" \/ goesOn THEN state
                   ELSE IF adm[a].err THEN "ERROR" ELSE "UNLOADED"
       /\ adm' = [adm EXCEPT ![a].pc = IF goesOn THEN "build" ELSE "done"]
       /\ UNCHANGED <<active, queue, sub>>

(* _RuntimeOwnershipUnresolved: the wait is cancelled, or the runtime's    *)
(* close() is cancelled or raises.  The manager keeps the bundle.          *)
CloseFails(a) ==
    /\ adm[a].pc \in {"quiesce", "runtime"}
    /\ bundle' = adm[a].victim
    /\ state' = IF adm[a].op = "close" THEN state ELSE "ERROR"
    /\ adm' = [adm EXCEPT ![a].pc = "done"]
    /\ UNCHANGED <<bundles, active, queue, sub>>

(* The builder returns and the bundle is published.                        *)
BuildReturns(a) ==
    /\ adm[a].pc = "build"
    /\ bundles' = [bundles EXCEPT ![Len(bundles)].runtime = "live"]
    /\ bundle' = Len(bundles)
    /\ state' = "READY"
    /\ adm' = [adm EXCEPT ![a].pc = "done"]
    /\ UNCHANGED <<active, queue, sub>>

(* The build fails or its task is cancelled: what was built is rolled      *)
(* back; left: the runtime's close() failed too.                           *)
BuildFails(a, left) ==
    /\ adm[a].pc = "build"
    /\ left => RollbackMayFail
    /\ bundles' = [bundles EXCEPT ![Len(bundles)] =
                      [@ EXCEPT !.runtime = IF left THEN "left" ELSE "closed", !.admits = FALSE,
                                !.pool = PoolClosed(bundles[Len(bundles)].pool)]]
    /\ bundle' = 0
    /\ state' = "ERROR"
    /\ adm' = [adm EXCEPT ![a].pc = "done"]
    /\ UNCHANGED <<active, queue, sub>>

-----------------------------------------------------------------------------
SubRuns(s) ==
    \/ TakeLane(s)
    \/ \E more \in BOOLEAN : RenderDone(s, more)
    \/ \E ok \in BOOLEAN : SubmitDone(s, ok)

TransitionRuns(a) ==
    \/ Refused(a)
    \/ LoadBegins(a)
    \/ ManagerCloses(a)
    \/ \E err \in BOOLEAN : ControllerClosed(a, err)
    \/ Quiesced(a)
    \/ RuntimeClosed(a)
    \/ BuildReturns(a)
    \/ \E left \in BOOLEAN : BuildFails(a, left)

ManagerNext ==
    \/ \E s \in Subs : AcquireLease(s) \/ SubRuns(s) \/ SubCancelled(s) \/ SessionEnds(s)
    \/ \E a \in Admins :
          \/ \E op \in Ops, m \in Models : Begin(a, op, m)
          \/ QueueCancelled(a)
          \/ TransitionRuns(a)
          \/ CloseFails(a)

ManagerProgress ==
    \/ \E s \in Subs : SubRuns(s) \/ SessionEnds(s)
    \/ \E a \in Admins : TransitionRuns(a)

(* Worker threads, runtime and builder return; a controller that closes    *)
(* cancels its sessions; the event loop runs some task that can run.       *)
ManagerFairness == WF_managerVars(ManagerProgress)

ManagerSpec == ManagerInit /\ [][ManagerNext]_managerVars
ManagerFairSpec == ManagerSpec /\ ManagerFairness

-----------------------------------------------------------------------------
(* Correctness.                                                            *)

(* No submission waits for a lane, runs a worker thread or is inside the   *)
(* runtime's submit once its bundle is torn down, even when the controller *)
(* failed to close or a transition was cancelled.  Requests already handed *)
(* out are gone too if the controller did close.                           *)
TeardownIsSafe ==
    \A s \in Subs :
        LET b == bundles[sub[s].b]
            down == b.pool.closed \/ b.runtime # "live"
        IN /\ sub[s].pc \in Submitting => ~down
           /\ (sub[s].pc = "session" /\ b.drained) => ~down

(* What the teardown waits for is counted exactly: _submissions_quiesced   *)
(* counts the tasks inside the manager, whichever bundle they lease, and a *)
(* lane is leased to one request at a time and comes back, cancelled or    *)
(* not, until the pool is closed with all of them home.  And the manager   *)
(* owns one runtime: at most one is loaded or loading, apart from one      *)
(* whose failed build could not be rolled back, and a ready manager serves *)
(* from a live bundle nobody is closing.                                   *)
OwnershipIsExact ==
    /\ active = Cardinality({s \in Subs : sub[s].pc \in Submitting})
    /\ \A b \in Built :
          LET busy == {s \in Subs : sub[s].pc = "rendering" /\ sub[s].b = b}
          IN IF bundles[b].pool.closed THEN busy = {} /\ bundles[b].pool.free = 0
             ELSE bundles[b].pool.free + Cardinality(busy) = LaneCount
    /\ Cardinality({b \in Built : bundles[b].runtime \in {"loading", "live"}}) <= 1
    /\ state = "READY" => /\ bundle # 0
                          /\ bundles[bundle].runtime = "live"
                          /\ bundles[bundle].admits /\ ~bundles[bundle].pool.closed

(* Nobody waits in a circle: every transition that was asked for ends,     *)
(* though it waits for submissions, and every submission that waits for a  *)
(* lane gets out, teardowns notwithstanding.                               *)
EverybodyEnds ==
    /\ \A a \in Admins : adm[a].pc = "queued" ~> adm[a].pc = "done"
    /\ \A s \in Subs : sub[s].pc = "lane" ~> sub[s].pc \in {"session", "done"}
=============================================================================
