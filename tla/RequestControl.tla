--------------------------- MODULE RequestControl ---------------------------
(***************************************************************************)
(* Admission, leases and controlled sessions (control/request.py).         *)
(*                                                                         *)
(* One RequestController admits at most MaxInFlight requests, hands each   *)
(* a lease, lets the lease's owner start runtime attempts under it, and    *)
(* drains everything when it is closed.  A ControlledSession wraps one     *)
(* attempt: one task iterates it while other tasks may cancel it.          *)
(*                                                                         *)
(* Everything runs on one asyncio loop, so a step of this specification    *)
(* is the code between two awaits that really yield.  No section that      *)
(* holds the controller's lock awaits anything, so taking the lock never   *)
(* yields; what does yield is the runtime's cancel(), the runtime's next   *)
(* event and the wait for the drained event.                               *)
(***************************************************************************)
EXTENDS Naturals, FiniteSets

CONSTANTS
    ReqIds,             \* request identifiers a client may use
    Leases,             \* identities of RequestLease objects
    Closers,            \* tasks that call RequestController.close
    MaxInFlight,        \* RequestControlConfig.max_in_flight
    MaxAttempts,        \* bound: runtime attempts under one lease
    AttemptsOf,         \* bound: the attempts the owner of a lease makes
    Timeouts,           \* whether RequestControlConfig has a timeout: a choice
    CancelMayFail,      \* the runtime's cancel() may raise or be interrupted
    RuntimeOutcomes,    \* what the runtime's iterator may end an attempt with
    ClientReasons,      \* reasons a handler passes to ControlledSession.cancel
    CloseReasons,       \* reasons passed to RequestController.close
    NoId, NoLease, NoSession

ASSUME ConstantsAssumption ==
    /\ MaxInFlight \in Nat \ {0}
    /\ MaxAttempts \in Nat \ {0}
    /\ AttemptsOf \in [Leases -> 0..MaxAttempts]
    /\ Timeouts \subseteq BOOLEAN
    /\ CancelMayFail \in BOOLEAN
    /\ RuntimeOutcomes \subseteq {"finished", "failed", "cancelled", "stop", "error"}
    /\ ClientReasons \subseteq {"client_cancelled", "application_cancelled"}
    /\ CloseReasons \subseteq {"server_shutdown", "model_switch"}
    /\ NoId \notin ReqIds
    /\ NoLease \notin Leases
    /\ NoSession \notin Leases \X (1..MaxAttempts)
    /\ IsFiniteSet(Leases)
    /\ Closers \cap {"none", "client", "release", "deadline", "abort", "done"} = {}

VARIABLES
    timeout,      \* RequestControlConfig.timeout_seconds is not None
    closed,       \* _closed
    inFlight,     \* _in_flight
    drained,      \* _drained.is_set()
    leaseOf,      \* _leases_by_request_id
    sessOf,       \* _sessions_by_request_id
    sessions,     \* _sessions
    lease,        \* the RequestLease objects
    sess,         \* the ControlledSession objects and their runtime sessions
    closer        \* the tasks inside close()

registry == <<inFlight, drained, leaseOf, sessOf, sessions, lease>>
vars == <<timeout, closed, registry, sess, closer>>

Sessions == Leases \X (1..MaxAttempts)

CancelReasons == {"client_cancelled", "application_cancelled", "timeout",
                  "server_shutdown", "model_switch"}
RuntimeReasons == {"completed", "runtime_failed", "runtime_cancelled"}
Reasons == CancelReasons \cup RuntimeReasons \cup {"none"}

(* What the runtime's iterator can hand to __anext__: an event that is not *)
(* terminal, a terminal event, the end of the iteration, an exception.     *)
Events == RuntimeOutcomes \cup {"chunk"}

(* Which call is awaiting the runtime's cancel().                          *)
Cancellers == {"client", "release", "deadline", "abort"} \cup Closers

LeaseType ==
    [state : {"unused", "reserved", "active", "released"},
     id : ReqIds \cup {NoId}, session : Sessions \cup {NoSession},
     reason : Reasons, terminated : BOOLEAN, late : BOOLEAN,
     replaySafe : BOOLEAN, attempts : 0..MaxAttempts, releasing : BOOLEAN]

SessionType ==
    [rt : {"none", "running", "cancelling", "cancelled", "ended", "raised"},
     released : BOOLEAN, cancelCalled : BOOLEAN, iterTerm : BOOLEAN,
     reason : Reasons, final : BOOLEAN,
     iter : {"idle", "direct", "timed", "task", "late", "deadline", "unwinding"},
     event : Events \cup {"none"},
     canceller : Cancellers \cup {"none", "done"}]

CloserType ==
    [pc : {"idle", "cancelling", "draining", "done", "raised"},
     pending : SUBSET Sessions, reason : {"server_shutdown", "model_switch"}]

(* The types of all variables.                                             *)
TypeOK ==
    /\ timeout \in BOOLEAN
    /\ closed \in BOOLEAN
    /\ inFlight \in Nat
    /\ drained \in BOOLEAN
    /\ leaseOf \in [ReqIds -> Leases \cup {NoLease}]
    /\ sessOf \in [ReqIds -> Sessions \cup {NoSession}]
    /\ sessions \in SUBSET Sessions
    /\ lease \in [Leases -> LeaseType]
    /\ sess \in [Sessions -> SessionType]
    /\ closer \in [Closers -> CloserType]

UnusedLease ==
    [state |-> "unused", id |-> NoId, session |-> NoSession, reason |-> "none",
     terminated |-> FALSE, late |-> FALSE, replaySafe |-> TRUE, attempts |-> 0,
     releasing |-> FALSE]

UnusedSession ==
    [rt |-> "none", released |-> FALSE, cancelCalled |-> FALSE, iterTerm |-> FALSE,
     reason |-> "none", final |-> FALSE, iter |-> "idle", event |-> "none",
     canceller |-> "none"]

Init ==
    /\ timeout \in Timeouts
    /\ closed = FALSE
    /\ inFlight = 0
    /\ drained = TRUE
    /\ leaseOf = [i \in ReqIds |-> NoLease]
    /\ sessOf = [i \in ReqIds |-> NoSession]
    /\ sessions = {}
    /\ lease = [l \in Leases |-> UnusedLease]
    /\ sess = [s \in Sessions |-> UnusedSession]
    /\ closer = [c \in Closers |->
                    [pc |-> "idle", pending |-> {}, reason |-> "server_shutdown"]]

-----------------------------------------------------------------------------
(* Helpers.                                                                *)

(* _leases_by_request_id.get(lease.request_id) is lease                    *)
Registered(l) == lease[l].id \in ReqIds /\ leaseOf[lease[l].id] = l

(* A lease whose attempt was started with submit_final has been handed to  *)
(* that attempt: its owner never releases it.                              *)
HandedOff(l) == lease[l].session # NoSession /\ sess[lease[l].session].final

(* The owner releases its lease once.                                      *)
MayRelease(l) == Registered(l) /\ ~HandedOff(l) /\ ~lease[l].releasing

(* The terminal reason of a session, or of a lease, is written once.       *)
FirstReason(old, new) == IF old = "none" THEN new ELSE old

(* _release_lease_locked, for a registered lease.  The idle-trim task it   *)
(* starts at zero only asks the runtime to trim its allocator cache.       *)
ReleaseLeaseLocked(l) ==
    LET id == lease[l].id
        s  == lease[l].session
    IN  /\ sessions' = sessions \ {s}
        /\ sessOf' = IF s # NoSession /\ sessOf[id] = s
                     THEN [sessOf EXCEPT ![id] = NoSession] ELSE sessOf
        /\ leaseOf' = [leaseOf EXCEPT ![id] = NoLease]
        /\ lease' = [lease EXCEPT ![l].session = NoSession,
                                  ![l].state = "released",
                                  ![l].terminated = TRUE]
        /\ inFlight' = inFlight - 1
        /\ drained' = (drained \/ inFlight = 1)

(* The attempt leaves its lease, which stays reserved for another attempt. *)
DetachAttempt(s) ==
    LET l == s[1]
        id == lease[l].id
    IN  /\ sessions' = sessions \ {s}
        /\ sessOf' = IF sessOf[id] = s
                     THEN [sessOf EXCEPT ![id] = NoSession] ELSE sessOf
        /\ lease' = [lease EXCEPT ![l].session = NoSession]
        /\ UNCHANGED <<inFlight, drained, leaseOf>>

(* _release_attempt.                                                       *)
ReleaseAttempt(s) ==
    LET l == s[1] IN
    CASE ~(Registered(l) /\ lease[l].session = s) -> UNCHANGED registry
      [] Registered(l) /\ lease[l].session = s /\ (sess[s].final \/ closed)
            -> ReleaseLeaseLocked(l)
      [] OTHER -> DetachAttempt(s)

(* _release_once; the caller sets the session's released flag.             *)
ReleaseOnce(s) ==
    IF sess[s].released THEN UNCHANGED registry ELSE ReleaseAttempt(s)

(* The session after cancel(reason) has run up to its await: the runtime   *)
(* session is only now asked to cancel.                                    *)
CancelStarted(s, reason, who) ==
    [sess EXCEPT ![s].reason = FirstReason(@, reason),
                 ![s].cancelCalled = TRUE,
                 ![s].canceller = who,
                 ![s].rt = "cancelling"]

(* The session after a cancel(reason) that needed no await, because the    *)
(* runtime session is already terminal or already being cancelled.         *)
CancelledAtOnce(s, reason) ==
    [sess EXCEPT ![s].reason = FirstReason(@, reason),
                 ![s].cancelCalled = TRUE,
                 ![s].released = TRUE]

(* Faulty variant: a cancel after the terminal event is not ignored.       *)
BugCancelCall(s, reason, who) ==
    /\ ~sess[s].cancelCalled
    /\ IF sess[s].rt = "running"
       THEN /\ sess' = CancelStarted(s, reason, who)
            /\ UNCHANGED registry
       ELSE /\ sess' = CancelledAtOnce(s, reason)
            /\ ReleaseOnce(s)

(* ControlledSession.cancel.                                               *)
CancelCall(s, reason, who) ==
    /\ ~sess[s].iterTerm /\ ~sess[s].cancelCalled
    /\ IF sess[s].rt = "running"
       THEN /\ sess' = CancelStarted(s, reason, who)
            /\ UNCHANGED registry
       ELSE /\ sess' = CancelledAtOnce(s, reason)
            /\ ReleaseOnce(s)

-----------------------------------------------------------------------------
(* The lease's owner.                                                      *)

(* Faulty variant: admission past the capacity.                            *)
BugAcquireFull(l, id) ==
    /\ lease[l].state = "unused" /\ ~closed /\ leaseOf[id] = NoLease
    /\ inFlight <= MaxInFlight
    /\ lease' = [lease EXCEPT ![l].state = "reserved", ![l].id = id]
    /\ leaseOf' = [leaseOf EXCEPT ![id] = l]
    /\ inFlight' = inFlight + 1
    /\ drained' = FALSE
    /\ UNCHANGED <<timeout, closed, sessOf, sessions, sess, closer>>

(* acquire: rejected when closed, for a duplicate id, or at capacity.      *)
Acquire(l, id) ==
    /\ lease[l].state = "unused"
    /\ ~closed
    /\ leaseOf[id] = NoLease
    /\ inFlight < MaxInFlight
    /\ lease' = [lease EXCEPT ![l].state = "reserved", ![l].id = id]
    /\ leaseOf' = [leaseOf EXCEPT ![id] = l]
    /\ inFlight' = inFlight + 1
    /\ drained' = FALSE
    /\ UNCHANGED <<timeout, closed, sessOf, sessions, sess, closer>>

(* The loop's clock reaches the lease's deadline.                          *)
DeadlinePasses(l) ==
    /\ timeout
    /\ lease[l].state \in {"reserved", "active"}
    /\ ~lease[l].late
    /\ lease' = [lease EXCEPT ![l].late = TRUE]
    /\ UNCHANGED <<timeout, closed, inFlight, drained, leaseOf, sessOf,
                   sessions, sess, closer>>

(* The conditions under which _submit_reserved gets as far as the deadline *)
(* check.  The owner starts no attempt once it has called release().       *)
MaySubmit(l) ==
    /\ ~closed
    /\ Registered(l)
    /\ lease[l].state # "released"
    /\ lease[l].session = NoSession
    /\ ~lease[l].releasing

(* _submit_reserved after the deadline: the lease is marked, not released. *)
SubmitLate(l) ==
    /\ MaySubmit(l)
    /\ lease[l].late
    /\ lease' = [lease EXCEPT ![l].reason = FirstReason(@, "timeout"),
                              ![l].terminated = TRUE]
    /\ UNCHANGED <<timeout, closed, inFlight, drained, leaseOf, sessOf,
                   sessions, sess, closer>>

(* _submit_reserved (lease.submit, or submit_final when final) when the    *)
(* runtime accepts the job.  When the runtime raises, nothing changes.     *)
Submit(l, final) ==
    /\ MaySubmit(l)
    /\ ~lease[l].late
    /\ lease[l].attempts < AttemptsOf[l]
    /\ LET s == <<l, lease[l].attempts + 1>> IN
        /\ sess' = [sess EXCEPT ![s] = [UnusedSession EXCEPT
                        !.rt = "running", !.final = final]]
        /\ lease' = [lease EXCEPT ![l].state = "active", ![l].session = s,
                                  ![l].attempts = @ + 1]
        /\ sessions' = sessions \cup {s}
        /\ sessOf' = [sessOf EXCEPT ![lease[l].id] = s]
    /\ UNCHANGED <<timeout, closed, inFlight, drained, leaseOf, closer>>

(* Faulty variant: the slot is given back without cancelling the attempt.  *)
BugReleaseNow(l) ==
    /\ MayRelease(l)
    /\ ReleaseLeaseLocked(l)
    /\ UNCHANGED <<timeout, closed, sess, closer>>

(* lease.release() of a lease that has no attempt to cancel, or whose      *)
(* attempt's cancel() returns at once.                                     *)
ReleaseNow(l) ==
    /\ MayRelease(l)
    /\ \/ /\ lease[l].session = NoSession
          /\ UNCHANGED sess
       \/ /\ lease[l].session # NoSession
          /\ LET s == lease[l].session IN
             \/ /\ sess[s].iterTerm \/ sess[s].cancelCalled
                /\ UNCHANGED sess
             \/ /\ ~sess[s].iterTerm /\ ~sess[s].cancelCalled
                /\ sess[s].rt # "running"
                /\ sess' = CancelledAtOnce(s, "application_cancelled")
    /\ ReleaseLeaseLocked(l)
    /\ UNCHANGED <<timeout, closed, closer>>

(* lease.release() of a lease with a running attempt: the attempt is       *)
(* cancelled first, and the lease released when that returns.              *)
ReleaseCancels(l) ==
    /\ MayRelease(l)
    /\ lease[l].session # NoSession
    /\ LET s == lease[l].session IN
        /\ ~sess[s].iterTerm /\ ~sess[s].cancelCalled
        /\ sess[s].rt = "running"
        /\ sess' = CancelStarted(s, "application_cancelled", "release")
    /\ lease' = [lease EXCEPT ![l].releasing = TRUE]
    /\ UNCHANGED <<timeout, closed, inFlight, drained, leaseOf, sessOf,
                   sessions, closer>>

(* RequestController.inject_text on a request whose runtime takes it.  A   *)
(* refused injection (a constrained generation, a finished backend job)    *)
(* changes nothing.                                                        *)
InjectText(id) ==
    LET s == sessOf[id] IN
    /\ s # NoSession
    /\ ~sess[s].iterTerm /\ ~sess[s].cancelCalled /\ ~sess[s].released
    /\ sess[s].rt = "running"
    /\ leaseOf[id] # NoLease
    /\ lease' = [lease EXCEPT ![leaseOf[id]].replaySafe = FALSE]
    /\ UNCHANGED <<timeout, closed, inFlight, drained, leaseOf, sessOf,
                   sessions, sess, closer>>

-----------------------------------------------------------------------------
(* The session's iterating task: ControlledSession.__anext__.              *)

(* __anext__ up to its first await, when the deadline has already passed.  *)
NextAfterDeadline(s) ==
    /\ sess[s].rt = "running" /\ sess[s].iter = "idle" /\ ~sess[s].iterTerm
    /\ ~sess[s].cancelCalled
    /\ lease[s[1]].late
    /\ sess' = [CancelStarted(s, "timeout", "deadline") EXCEPT ![s].iter = "late"]
    /\ UNCHANGED <<timeout, closed, registry, closer>>

(* __anext__ up to its first await: a bare await of the runtime's iterator *)
(* when there is no deadline left to watch, a race with a timer otherwise. *)
NextBegins(s) ==
    /\ sess[s].rt # "none" /\ sess[s].iter = "idle" /\ ~sess[s].iterTerm
    /\ sess[s].cancelCalled \/ ~lease[s[1]].late
    /\ sess' = [sess EXCEPT ![s].iter =
                    IF sess[s].cancelCalled \/ ~timeout
                    THEN "direct" ELSE "timed"]
    /\ UNCHANGED <<timeout, closed, registry, closer>>

(* The runtime session after its iterator produced e.                      *)
RuntimeAfter(s, e) ==
    CASE e = "chunk" -> sess[s].rt
      [] e = "error" -> IF sess[s].rt = "running" THEN "raised" ELSE sess[s].rt
      [] OTHER -> "ended"

(* The runtime events a terminal reason is recorded for.                   *)
ReasonOf(e) ==
    CASE e = "finished" -> "completed"
      [] e = "failed" -> "runtime_failed"
      [] e = "cancelled" -> "runtime_cancelled"
      [] OTHER -> "none"

(* The rest of __anext__ once the runtime's iterator produced e.           *)
HandleEvent(s, e) ==
    IF e = "chunk"
    THEN /\ sess' = [sess EXCEPT ![s].iter = "idle", ![s].event = "none"]
         /\ UNCHANGED registry
    ELSE /\ sess' = [sess EXCEPT ![s].iter = "idle", ![s].event = "none",
                                 ![s].rt = RuntimeAfter(s, e),
                                 ![s].reason = FirstReason(@, ReasonOf(e)),
                                 ![s].iterTerm = TRUE,
                                 ![s].released = TRUE]
         /\ ReleaseOnce(s)

RuntimeLive(s) == sess[s].rt \in {"running", "cancelling", "cancelled"}

(* A bare await returns.                                                   *)
NextReturns(s, e) ==
    /\ sess[s].iter = "direct"
    /\ RuntimeLive(s)
    /\ HandleEvent(s, e)
    /\ UNCHANGED <<timeout, closed, closer>>

(* The task that awaits the runtime's iterator finishes.  The iterating    *)
(* task resumes later: other tasks may run in between.                     *)
NextTaskDone(s, e) ==
    /\ sess[s].iter \in {"timed", "task", "deadline"}
    /\ sess[s].event = "none"
    /\ RuntimeLive(s)
    /\ sess' = [sess EXCEPT ![s].event = e, ![s].rt = RuntimeAfter(s, e)]
    /\ UNCHANGED <<timeout, closed, registry, closer>>

(* The iterating task resumes with the finished task's event.              *)
NextTaskDelivered(s) ==
    /\ sess[s].iter \in {"timed", "task"}
    /\ sess[s].event # "none"
    /\ HandleEvent(s, sess[s].event)
    /\ UNCHANGED <<timeout, closed, closer>>

(* The timer of _next_with_deadline fires first.                           *)
DeadlineFires(s) ==
    /\ sess[s].iter = "timed"
    /\ sess[s].event = "none"
    /\ lease[s[1]].late
    /\ IF sess[s].cancelCalled \/ sess[s].rt # "running"
       THEN /\ sess' = [CancelledAtOnce(s, "timeout") EXCEPT ![s].iter = "task"]
            /\ ReleaseOnce(s)
       ELSE /\ sess' = [CancelStarted(s, "timeout", "deadline")
                            EXCEPT ![s].iter = "deadline"]
            /\ UNCHANGED registry
    /\ UNCHANGED <<timeout, closed, closer>>

(* The iterating task is cancelled (the client went away) while it waits   *)
(* with a timer, or for the task left over by the timer.                   *)
TaskCancelled(s) ==
    /\ sess[s].iter \in {"timed", "task"}
    /\ IF ~sess[s].cancelCalled /\ sess[s].rt = "running"
       THEN /\ sess' = [CancelStarted(s, "client_cancelled", "abort") EXCEPT
                            ![s].iter = "idle", ![s].event = "none",
                            ![s].iterTerm = TRUE]
            /\ UNCHANGED registry
       ELSE /\ sess' = [CancelledAtOnce(s, "client_cancelled") EXCEPT
                            ![s].iter = "idle", ![s].event = "none",
                            ![s].iterTerm = TRUE]
            /\ ReleaseOnce(s)
    /\ UNCHANGED <<timeout, closed, closer>>

(* The same in a bare await: the runtime session's __anext__ cancels its   *)
(* job itself before the exception reaches the controlled session.         *)
DirectTaskCancelled(s) ==
    /\ sess[s].iter = "direct"
    /\ IF sess[s].rt = "running"
       THEN /\ sess' = [sess EXCEPT ![s].iter = "unwinding",
                                    ![s].rt = "cancelling"]
            /\ UNCHANGED registry
       ELSE /\ sess' = [CancelledAtOnce(s, "client_cancelled") EXCEPT
                            ![s].iter = "idle", ![s].iterTerm = TRUE]
            /\ ReleaseOnce(s)
    /\ UNCHANGED <<timeout, closed, closer>>

(* The runtime session's own cancel() is over and the exception arrives.   *)
UnwindEnds(s) ==
    /\ sess[s].iter = "unwinding"
    /\ sess' = [CancelledAtOnce(s, "client_cancelled") EXCEPT
                    ![s].iter = "idle", ![s].iterTerm = TRUE,
                    ![s].rt = "cancelled"]
    /\ ReleaseOnce(s)
    /\ UNCHANGED <<timeout, closed, closer>>

-----------------------------------------------------------------------------
(* Cancellation of a session by another task, and its continuation.        *)

(* cancel() by the client's handler or by a failing setup path.            *)
ClientCancel(s, reason) ==
    /\ sess[s].rt # "none"
    /\ CancelCall(s, reason, "client")
    /\ UNCHANGED <<timeout, closed, closer>>

(* The runtime session after its cancel() is over.                         *)
RuntimeCancelled(s) == IF sess[s].rt = "cancelling" THEN "cancelled" ELSE sess[s].rt

(* What the iterating task awaits once its timeout has cancelled the       *)
(* runtime: the runtime's iterator, or the task already awaiting it.       *)
AfterTimeoutCancel(s) ==
    CASE sess[s].canceller = "deadline" /\ sess[s].iter = "late" -> "direct"
      [] sess[s].canceller = "deadline" /\ sess[s].iter = "deadline" -> "task"
      [] OTHER -> sess[s].iter

(* The awaited runtime cancel() returns: the caller releases the attempt;  *)
(* lease.release() goes on to release the lease.                           *)
CancelReturns(s) ==
    /\ sess[s].canceller \in Cancellers
    /\ sess' = [sess EXCEPT ![s].canceller = "done",
                            ![s].rt = RuntimeCancelled(s),
                            ![s].released = TRUE,
                            ![s].iter = AfterTimeoutCancel(s)]
    /\ IF sess[s].canceller = "release" /\ Registered(s[1])
       THEN ReleaseLeaseLocked(s[1])
       ELSE ReleaseOnce(s)
    /\ UNCHANGED <<timeout, closed, closer>>

(* The awaited runtime cancel() raises, or the task awaiting it is itself  *)
(* cancelled.  Only __anext__ still releases the attempt; an exception in  *)
(* close() ends close().                                                   *)
CancelRaises(s) ==
    LET who == sess[s].canceller IN
    /\ CancelMayFail
    /\ who \in Cancellers
    /\ IF who \in {"deadline", "abort"}
       THEN /\ sess' = [sess EXCEPT ![s].canceller = "done",
                                    ![s].rt = RuntimeCancelled(s),
                                    ![s].iterTerm = TRUE,
                                    ![s].iter = "idle", ![s].event = "none",
                                    ![s].released = TRUE]
            /\ ReleaseOnce(s)
       ELSE /\ sess' = [sess EXCEPT ![s].canceller = "done",
                                    ![s].rt = RuntimeCancelled(s)]
            /\ UNCHANGED registry
    /\ closer' = IF who \in Closers
                 THEN [closer EXCEPT ![who].pc = "raised"] ELSE closer
    /\ UNCHANGED <<timeout, closed>>

-----------------------------------------------------------------------------
(* RequestController.close.                                                *)

(* Faulty variant: close() waits for the attempts instead of cancelling    *)
(* them.                                                                   *)
BugCloseBegins(c, reason) ==
    /\ closer[c].pc = "idle"
    /\ closed' = TRUE
    /\ closer' = [closer EXCEPT ![c] = [pc |-> "cancelling", pending |-> {},
                                        reason |-> reason]]
    /\ UNCHANGED <<timeout, registry, sess>>

(* close() under the lock: it marks every lease and takes the sessions.    *)
CloseBegins(c, reason) ==
    /\ closer[c].pc = "idle"
    /\ IF closed /\ inFlight = 0
       THEN /\ closer' = [closer EXCEPT ![c].pc = "done"]
            /\ UNCHANGED <<closed, lease>>
       ELSE /\ closed' = TRUE
            /\ closer' = [closer EXCEPT ![c] = [pc |-> "cancelling",
                                                pending |-> sessions,
                                                reason |-> reason]]
            /\ lease' = [l \in Leases |->
                            IF Registered(l)
                            THEN [lease[l] EXCEPT
                                    !.reason = FirstReason(@, reason),
                                    !.terminated = TRUE]
                            ELSE lease[l]]
    /\ UNCHANGED <<timeout, inFlight, drained, leaseOf, sessOf, sessions, sess>>

(* One session.cancel(reason) of close()'s gather starts.                  *)
CloseCancels(c, s) ==
    /\ s \in closer[c].pending
    /\ closer' = [closer EXCEPT ![c].pending = @ \ {s}]
    /\ \/ /\ sess[s].iterTerm \/ sess[s].cancelCalled
          /\ UNCHANGED <<sess, registry>>
       \/ CancelCall(s, closer[c].reason, c)
    /\ UNCHANGED <<timeout, closed>>

(* The gather is over: close() waits for the drained event.                *)
CloseGathered(c) ==
    /\ closer[c].pc = "cancelling"
    /\ closer[c].pending = {}
    /\ \A s \in Sessions : sess[s].canceller # c
    /\ closer' = [closer EXCEPT ![c].pc = "draining"]
    /\ UNCHANGED <<timeout, closed, registry, sess>>

CloseReturns(c) ==
    /\ closer[c].pc = "draining"
    /\ drained
    /\ closer' = [closer EXCEPT ![c].pc = "done"]
    /\ UNCHANGED <<timeout, closed, registry, sess>>

-----------------------------------------------------------------------------
LeaseStep(l) ==
    \/ \E id \in ReqIds : Acquire(l, id)
    \/ DeadlinePasses(l)
    \/ SubmitLate(l)
    \/ \E final \in BOOLEAN : Submit(l, final)
    \/ ReleaseNow(l)
    \/ ReleaseCancels(l)

SessionStep(s) ==
    \/ NextAfterDeadline(s)
    \/ NextBegins(s)
    \/ \E e \in Events : NextReturns(s, e) \/ NextTaskDone(s, e)
    \/ NextTaskDelivered(s)
    \/ DeadlineFires(s)
    \/ TaskCancelled(s)
    \/ DirectTaskCancelled(s)
    \/ UnwindEnds(s)
    \/ \E r \in ClientReasons : ClientCancel(s, r)
    \/ CancelReturns(s)
    \/ CancelRaises(s)

CloserStep(c) ==
    \/ \E r \in CloseReasons : CloseBegins(c, r)
    \/ \E s \in Sessions : CloseCancels(c, s)
    \/ CloseGathered(c)
    \/ CloseReturns(c)

Next ==
    \/ \E l \in Leases : LeaseStep(l)
    \/ \E id \in ReqIds : InjectText(id)
    \/ \E s \in Sessions : SessionStep(s)
    \/ \E c \in Closers : CloserStep(c)

(* What goes on without a client: an awaited runtime cancel() ends, the    *)
(* owner of a lease it has not handed to an attempt releases it in its     *)
(* finally clause, and close() runs on.                                    *)
Progress ==
    \/ \E s \in Sessions : CancelReturns(s) \/ CancelRaises(s) \/ UnwindEnds(s)
    \/ \E l \in Leases : ReleaseNow(l) \/ ReleaseCancels(l)
    \/ \E c \in Closers :
          \/ \E s \in Sessions : CloseCancels(c, s)
          \/ CloseGathered(c)
          \/ CloseReturns(c)

(* The event loop keeps taking such steps.  Nothing is assumed of which it *)
(* takes first, and nothing obliges a client to read its events.           *)
Fairness == WF_vars(Progress)

Spec == Init /\ [][Next]_vars
FairSpec == Spec /\ Fairness
-----------------------------------------------------------------------------
(* Correctness.                                                            *)

LiveLeases == {l \in Leases : lease[l].state \in {"reserved", "active"}}

(* The admission counter is the number of leases that hold a slot, never   *)
(* exceeds the configured capacity, and the drained event is set exactly   *)
(* when it is zero, however acquire, release and close interleave.         *)
CapacityExact ==
    /\ inFlight = Cardinality(LiveLeases)
    /\ inFlight <= MaxInFlight
    /\ drained <=> inFlight = 0

(* The controller's three registries and the leases agree: a lease holds a *)
(* slot iff it is the one registered under its id, and the registered      *)
(* sessions are exactly the current attempts of the registered leases.     *)
RegistryLinked ==
    /\ \A l \in Leases : l \in LiveLeases <=> Registered(l)
    /\ \A id \in ReqIds :
          /\ leaseOf[id] # NoLease => lease[leaseOf[id]].id = id
          /\ sessOf[id] = IF leaseOf[id] = NoLease THEN NoSession
                          ELSE lease[leaseOf[id]].session
    /\ sessions = {s \in Sessions : lease[s[1]].session = s}

(* A runtime job that nobody has asked to stop is always the registered    *)
(* attempt of a lease that holds a slot: no path of __anext__, cancel,     *)
(* release or close gives the slot back and leaves the job running.        *)
NoOrphanRuntime ==
    \A s \in Sessions :
        sess[s].rt = "running" => Registered(s[1]) /\ lease[s[1]].session = s

(* The recorded terminal reason tells what happened: a session whose       *)
(* runtime was cancelled carries a cancellation reason, and one that       *)
(* carries a runtime outcome was never cancelled, whichever of the racing  *)
(* cancel, deadline and terminal event came first.                         *)
ReasonMatchesOutcome ==
    \A s \in Sessions :
        /\ sess[s].cancelCalled => sess[s].reason \in CancelReasons
        /\ sess[s].reason \in RuntimeReasons => sess[s].iterTerm /\ ~sess[s].cancelCalled

(* A runtime cancel() raised and its caller gave up: the attempt or the    *)
(* lease it was about to release stays registered.                         *)
CancelLost ==
    \/ \E s \in Sessions :
          sess[s].cancelCalled /\ ~sess[s].released /\ sess[s].canceller = "done"
    \/ \E l \in Leases :
          /\ Registered(l) /\ lease[l].releasing
          /\ \A s \in Sessions : s[1] = l => sess[s].canceller # "release"

(* close() returns: every admitted request drains, whoever races to cancel *)
(* it, unless a runtime cancel() raised.                                   *)
CloseDrains ==
    \A c \in Closers :
        closer[c].pc = "cancelling" ~> closer[c].pc \in {"done", "raised"} \/ CancelLost
=============================================================================
