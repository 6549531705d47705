--------------------------- MODULE ControlProofs ---------------------------
(***************************************************************************)
(* Proofs about the control of requests and of the model that serves them, *)
(* for every value of the constants.                                       *)
(*                                                                         *)
(* RequestControl: for every set of leases and identifiers, every capacity *)
(* and any number of attempts and closers.  Almost every action changes    *)
(* the registries in one of four ways: not at all, by ReleaseLeaseLocked,  *)
(* by DetachAttempt, or in fields of a lease that the registries do not    *)
(* depend on.  A lemma deals with each.                                    *)
(*                                                                         *)
(* ModelManager: for any number of transitions, submissions, models, lanes *)
(* and bundles, no bundle is torn down under a submission, the manager     *)
(* owns one runtime, and what a teardown waits for is counted exactly.  A  *)
(* submission changes the lanes of its bundle and its own record, a        *)
(* transition the rest; a lemma says what each kind leaves as it was.      *)
(***************************************************************************)
EXTENDS RequestControl, ModelManager, FiniteSetTheorems, TLAPS

-----------------------------------------------------------------------------
(* Request control.                                                        *)

(* The current attempt of a lease is one of its own, and an unused lease   *)
(* has none.                                                               *)
SessionOwned ==
    \A l \in Leases : lease[l].session # NoSession =>
        lease[l].session[1] = l /\ lease[l].state # "unused"

(* The part of the state the registries are made of.                       *)
RegistryType ==
    /\ inFlight \in Nat
    /\ drained \in BOOLEAN
    /\ leaseOf \in [ReqIds -> Leases \cup {NoLease}]
    /\ sessOf \in [ReqIds -> Sessions \cup {NoSession}]
    /\ sessions \in SUBSET Sessions
    /\ lease \in [Leases -> LeaseType]

RegistryInv == RegistryType /\ RegistryLinked /\ CapacityExact /\ SessionOwned

TaskType ==
    /\ closed \in BOOLEAN
    /\ sess \in [Sessions -> SessionType]
    /\ closer \in [Closers -> CloserType]

(* What a session's own fields promise: a running runtime job has not been *)
(* cancelled and its session not ended, a session that is being iterated   *)
(* has not ended, and the reason matches what happened.                    *)
SessionOK(r) ==
    /\ r.rt = "running" => ~r.cancelCalled /\ ~r.iterTerm /\ r.canceller \notin Cancellers
    /\ r.iter # "idle" => ~r.iterTerm
    /\ r.cancelCalled => r.reason \in CancelReasons
    /\ r.reason \in RuntimeReasons => r.iterTerm /\ ~r.cancelCalled

SessionsOK == \A s \in Sessions : SessionOK(sess[s])

(* The session is the registered attempt of a lease that holds a slot.     *)
Linked(s) == Registered(s[1]) /\ lease[s[1]].session = s

(* A lease whose owner is releasing it gets no further attempt.            *)
ReleasingInv ==
    \A s \in Sessions :
        /\ sess[s].canceller = "release" => lease[s[1]].releasing
        /\ lease[s[1]].releasing => sess[s].rt # "running"

(* The inductive invariant.                                                *)
IndInv == RegistryInv /\ TaskType /\ SessionsOK /\ NoOrphanRuntime /\ ReleasingInv

-----------------------------------------------------------------------------
(* A lease that holds a slot is counted.                                   *)
LEMMA LiveIsCounted ==
    ASSUME RegistryInv, NEW l \in Leases, Registered(l)
    PROVE  /\ l \in LiveLeases
           /\ IsFiniteSet(LiveLeases)
           /\ inFlight >= 1
           /\ ~drained
           /\ Cardinality(LiveLeases \ {l}) = inFlight - 1
<1>1. l \in LiveLeases
  BY DEF RegistryInv, RegistryLinked
<1>2. IsFiniteSet(LiveLeases)
  BY FS_Subset, ConstantsAssumption DEF LiveLeases
<1>3. Cardinality(LiveLeases) \in Nat /\ Cardinality(LiveLeases \ {l}) = Cardinality(LiveLeases) - 1
  BY <1>1, <1>2, FS_CardinalityType, FS_RemoveElement
<1>4. Cardinality(LiveLeases) # 0
  BY <1>1, <1>2, FS_EmptySet
<1> QED
  BY <1>1, <1>2, <1>3, <1>4 DEF RegistryInv, CapacityExact, RegistryType

(* _release_lease_locked keeps the registries consistent and frees exactly *)
(* one slot.                                                               *)
LEMMA ReleaseLeaseLockedKeeps ==
    ASSUME RegistryInv, NEW l \in Leases, Registered(l), ReleaseLeaseLocked(l)
    PROVE  RegistryInv'
<1> DEFINE id == lease[l].id
<1>0. id \in ReqIds /\ leaseOf[id] = l /\ lease[l] \in LeaseType
  BY DEF Registered, RegistryInv, RegistryType
<1>a. /\ l \in LiveLeases /\ IsFiniteSet(LiveLeases) /\ inFlight >= 1 /\ ~drained
      /\ Cardinality(LiveLeases \ {l}) = inFlight - 1
  BY LiveIsCounted
<1>b. /\ leaseOf' = [leaseOf EXCEPT ![id] = NoLease]
      /\ lease' = [lease EXCEPT ![l] = [lease[l] EXCEPT !.session = NoSession,
                                  !.state = "released",
                                  !.terminated = TRUE]]
      /\ inFlight' = inFlight - 1
      /\ drained' = (drained \/ inFlight = 1)
      /\ sessions' = sessions \ {lease[l].session}
  BY DEF ReleaseLeaseLocked, RegistryInv, RegistryType
<1>c. sessOf' = [sessOf EXCEPT ![id] = NoSession]
  <2>1. sessOf[id] = lease[l].session
    BY <1>0, ConstantsAssumption DEF RegistryInv, RegistryLinked
  <2>2. CASE lease[l].session = NoSession
    BY <2>1, <2>2, <1>0 DEF ReleaseLeaseLocked, RegistryInv, RegistryType
  <2>3. CASE lease[l].session # NoSession
    BY <2>1, <2>3 DEF ReleaseLeaseLocked
  <2> QED BY <2>2, <2>3
<1>e. inFlight \in Nat /\ inFlight' \in Nat /\ (inFlight = 1 <=> inFlight' = 0)
  BY <1>a, <1>b DEF RegistryInv, RegistryType
<1>f. drained' \in BOOLEAN /\ (drained' <=> inFlight = 1)
  BY <1>a, <1>b, Zenon
<1>g. lease' \in [Leases -> LeaseType]
  BY <1>0, <1>b DEF RegistryInv, RegistryType, LeaseType
<1>1. RegistryType'
  BY <1>0, <1>b, <1>c, <1>e, <1>f, <1>g DEF RegistryInv, RegistryType
<1>d. /\ lease'[l].state = "released" /\ lease'[l].id = id /\ lease'[l].session = NoSession
      /\ \A m \in Leases : m # l => lease'[m] = lease[m]
  BY <1>0, <1>b DEF RegistryInv, RegistryType, LeaseType
<1>2. LiveLeases' = LiveLeases \ {l}
  BY <1>d DEF LiveLeases
<1>3. CapacityExact'
  <2>1. inFlight' = Cardinality(LiveLeases')
    BY <1>2, <1>a, <1>b
  <2>2. inFlight' <= MaxInFlight
    BY <1>b, <1>e, ConstantsAssumption DEF CapacityExact, RegistryInv
  <2>3. drained' <=> inFlight' = 0
    BY <1>e, <1>f
  <2> QED BY <2>1, <2>2, <2>3 DEF CapacityExact
<1>4. SessionOwned'
  BY <1>d DEF RegistryInv, SessionOwned
<1>5. ASSUME NEW m \in Leases PROVE (m \in LiveLeases)' <=> Registered(m)'
  BY <1>2, <1>0, <1>b, <1>d, ConstantsAssumption DEF Registered, RegistryInv, RegistryLinked, RegistryType
<1>6. ASSUME NEW i \in ReqIds
      PROVE  /\ leaseOf'[i] # NoLease => lease'[leaseOf'[i]].id = i
             /\ sessOf'[i] = IF leaseOf'[i] = NoLease THEN NoSession
                             ELSE lease'[leaseOf'[i]].session
  BY <1>0, <1>b, <1>c, <1>d DEF RegistryInv, RegistryLinked, RegistryType
<1>7. sessions' = {s \in Sessions : lease'[s[1]].session = s}
  BY <1>b, <1>d, ConstantsAssumption DEF RegistryInv, RegistryLinked, SessionOwned, Sessions
<1> QED
  BY <1>1, <1>3, <1>4, <1>5, <1>6, <1>7 DEF RegistryInv, RegistryLinked

(* An attempt that leaves its lease leaves the registries consistent, and  *)
(* the lease keeps its slot.                                               *)
LEMMA DetachAttemptKeeps ==
    ASSUME RegistryInv, NEW s \in Sessions, Registered(s[1]),
           lease[s[1]].session = s, DetachAttempt(s)
    PROVE  RegistryInv'
<1> DEFINE l == s[1]
           id == lease[l].id
<1>0. l \in Leases /\ id \in ReqIds /\ leaseOf[id] = l /\ lease[l] \in LeaseType
  BY DEF Registered, RegistryInv, RegistryType, Sessions
<1>b. /\ lease' = [lease EXCEPT ![l] = [lease[l] EXCEPT !.session = NoSession]]
      /\ sessions' = sessions \ {s}
      /\ leaseOf' = leaseOf /\ inFlight' = inFlight /\ drained' = drained
  BY DEF DetachAttempt, RegistryInv, RegistryType
<1>c. sessOf' = [sessOf EXCEPT ![id] = NoSession]
  BY <1>0, ConstantsAssumption DEF DetachAttempt, RegistryInv, RegistryLinked
<1>1. RegistryType'
  BY <1>0, <1>b, <1>c DEF RegistryInv, RegistryType, LeaseType
<1>d. /\ lease'[l].state = lease[l].state /\ lease'[l].id = id
      /\ lease'[l].session = NoSession
      /\ \A m \in Leases : m # l => lease'[m] = lease[m]
  BY <1>0, <1>b DEF RegistryInv, RegistryType, LeaseType
<1>2. LiveLeases' = LiveLeases
  BY <1>d DEF LiveLeases
<1>3. CapacityExact'
  BY <1>2, <1>b DEF CapacityExact, RegistryInv
<1>4. SessionOwned'
  BY <1>d DEF RegistryInv, SessionOwned
<1>5. ASSUME NEW m \in Leases PROVE (m \in LiveLeases)' <=> Registered(m)'
  BY <1>2, <1>0, <1>b, <1>d DEF Registered, RegistryInv, RegistryLinked
<1>6. ASSUME NEW i \in ReqIds
      PROVE  /\ leaseOf'[i] # NoLease => lease'[leaseOf'[i]].id = i
             /\ sessOf'[i] = IF leaseOf'[i] = NoLease THEN NoSession
                             ELSE lease'[leaseOf'[i]].session
  BY <1>0, <1>b, <1>c, <1>d, ConstantsAssumption DEF RegistryInv, RegistryLinked, RegistryType
<1>7. sessions' = {t \in Sessions : lease'[t[1]].session = t}
  BY <1>b, <1>d, ConstantsAssumption DEF RegistryInv, RegistryLinked, SessionOwned, Sessions
<1> QED
  BY <1>1, <1>3, <1>4, <1>5, <1>6, <1>7 DEF RegistryInv, RegistryLinked

(* _release_attempt and _release_once keep the registries consistent.      *)
LEMMA ReleaseOnceKeeps ==
    ASSUME RegistryInv, NEW s \in Sessions, ReleaseOnce(s)
    PROVE  RegistryInv'
<1>1. s[1] \in Leases
  BY DEF Sessions
<1>2. CASE UNCHANGED registry
  BY <1>2 DEF RegistryInv, RegistryType, RegistryLinked, CapacityExact, SessionOwned,
              Registered, LiveLeases, registry
<1>3. CASE Registered(s[1]) /\ ReleaseLeaseLocked(s[1])
  BY <1>1, <1>3, ReleaseLeaseLockedKeeps
<1>4. CASE Registered(s[1]) /\ lease[s[1]].session = s /\ DetachAttempt(s)
  BY <1>4, DetachAttemptKeeps
<1> QED
  BY <1>2, <1>3, <1>4 DEF ReleaseOnce, ReleaseAttempt

(* A change of a lease's reason, flags or counters leaves the registries   *)
(* consistent.                                                             *)
LEMMA MarkingKeeps ==
    ASSUME RegistryInv,
           lease' \in [Leases -> LeaseType],
           \A l \in Leases : /\ lease'[l].state = lease[l].state
                             /\ lease'[l].id = lease[l].id
                             /\ lease'[l].session = lease[l].session,
           UNCHANGED <<inFlight, drained, leaseOf, sessOf, sessions>>
    PROVE  RegistryInv'
<1>1. LiveLeases' = LiveLeases /\ \A l \in Leases : Registered(l)' = Registered(l)
  BY DEF LiveLeases, Registered
<1>2. RegistryType' /\ CapacityExact' /\ SessionOwned'
  BY <1>1 DEF RegistryInv, RegistryType, CapacityExact, SessionOwned
<1>3. RegistryLinked'
  BY <1>1 DEF RegistryInv, RegistryType, RegistryLinked, Sessions
<1> QED BY <1>2, <1>3 DEF RegistryInv

(* An action that leaves the registries alone leaves them consistent.      *)
LEMMA UnchangedKeeps ==
    ASSUME RegistryInv, UNCHANGED registry
    PROVE  RegistryInv' /\ \A t \in Sessions : Linked(t) => Linked(t)'
BY DEF RegistryInv, RegistryType, RegistryLinked, CapacityExact, SessionOwned,
       Registered, LiveLeases, registry, Linked

(* Releasing a lease unlinks no attempt but its own.                       *)
LEMMA ReleaseLeaseLockedLinks ==
    ASSUME RegistryInv, NEW l \in Leases, Registered(l), ReleaseLeaseLocked(l),
           NEW t \in Sessions, t # lease[l].session, Linked(t)
    PROVE  Linked(t)'
<1>1. t[1] \in Leases /\ t[1] # l
  BY DEF Linked, Sessions
<1>2. lease'[t[1]] = lease[t[1]]
  BY <1>1 DEF ReleaseLeaseLocked, RegistryInv, RegistryType
<1>3. lease[t[1]].id # lease[l].id
  BY <1>1 DEF Linked, Registered
<1>4. leaseOf'[lease[t[1]].id] = leaseOf[lease[t[1]].id]
  BY <1>3 DEF ReleaseLeaseLocked, Linked, Registered, RegistryInv, RegistryType
<1> QED
  BY <1>2, <1>4 DEF Linked, Registered

(* Releasing an attempt unlinks no attempt but that one.                   *)
LEMMA ReleaseOnceLinks ==
    ASSUME RegistryInv, NEW s \in Sessions, ReleaseOnce(s),
           NEW t \in Sessions, t # s, Linked(t)
    PROVE  Linked(t)'
<1>0. s[1] \in Leases /\ t[1] \in Leases
  BY DEF Sessions
<1>1. CASE UNCHANGED registry
  BY <1>1 DEF registry, Linked, Registered
<1>2. CASE Registered(s[1]) /\ lease[s[1]].session = s /\ ReleaseLeaseLocked(s[1])
  BY <1>0, <1>2, ReleaseLeaseLockedLinks
<1>3. CASE Registered(s[1]) /\ lease[s[1]].session = s /\ DetachAttempt(s)
  <2>1. t[1] # s[1]
    BY <1>3 DEF Linked
  <2>2. lease'[t[1]] = lease[t[1]] /\ leaseOf' = leaseOf
    BY <1>3, <1>0, <2>1 DEF DetachAttempt, RegistryInv, RegistryType
  <2> QED BY <2>2 DEF Linked, Registered
<1> QED
  BY <1>1, <1>2, <1>3 DEF ReleaseOnce, ReleaseAttempt

(* Releasing a lease or an attempt does not touch the owner's flag.        *)
LEMMA ReleaseKeepsFlags ==
    ASSUME RegistryInv, NEW s \in Sessions, ReleaseOnce(s), NEW m \in Leases
    PROVE  lease'[m].releasing = lease[m].releasing
<1>1. s[1] \in Leases /\ lease \in [Leases -> LeaseType]
  BY DEF Sessions, RegistryInv, RegistryType
<1>2. CASE UNCHANGED registry
  BY <1>2 DEF registry
<1>3. CASE ReleaseLeaseLocked(s[1])
  BY <1>1, <1>3 DEF ReleaseLeaseLocked, LeaseType
<1>4. CASE DetachAttempt(s)
  BY <1>1, <1>4 DEF DetachAttempt, LeaseType
<1> QED BY <1>2, <1>3, <1>4 DEF ReleaseOnce, ReleaseAttempt

(* The frame of every step that concerns one session: if its new record is *)
(* well formed and its job does not start to run, the invariant is kept.   *)
LEMMA OneSessionKeeps ==
    ASSUME IndInv, NEW s \in Sessions, NEW r \in SessionType, SessionOK(r),
           sess' = [sess EXCEPT ![s] = r],
           RegistryInv', closed' \in BOOLEAN, closer' \in [Closers -> CloserType],
           \A t \in Sessions : t # s /\ Linked(t) => Linked(t)',
           \A l \in Leases : lease'[l].releasing = lease[l].releasing,
           r.rt = "running" => sess[s].rt = "running" /\ Linked(s)',
           r.canceller = "release" => sess[s].canceller = "release"
    PROVE  IndInv'
<1>1. sess \in [Sessions -> SessionType]
  BY DEF IndInv, TaskType
<1>2. TaskType'
  BY <1>1 DEF TaskType
<1>3. sess'[s] = r /\ \A t \in Sessions : t # s => sess'[t] = sess[t]
  BY <1>1
<1>4. SessionsOK'
  BY <1>3 DEF SessionsOK, IndInv
<1>5. NoOrphanRuntime'
  BY <1>3 DEF NoOrphanRuntime, IndInv, Linked
<1>6. ReleasingInv'
  <2>1. \A t \in Sessions : t[1] \in Leases
    BY DEF Sessions
  <2> QED BY <1>3, <2>1 DEF ReleasingInv, IndInv
<1> QED BY <1>2, <1>4, <1>5, <1>6 DEF IndInv

(* The frame when the registries do not change.                            *)
LEMMA QuietSession ==
    ASSUME IndInv, NEW s \in Sessions, NEW r \in SessionType, SessionOK(r),
           sess' = [sess EXCEPT ![s] = r], UNCHANGED registry,
           closed' \in BOOLEAN, closer' \in [Closers -> CloserType],
           r.rt = "running" => sess[s].rt = "running",
           r.canceller = "release" => sess[s].canceller = "release"
    PROVE  IndInv'
<1>1. RegistryInv' /\ \A t \in Sessions : Linked(t) => Linked(t)'
  BY UnchangedKeeps DEF IndInv
<1>3. \A l \in Leases : lease'[l].releasing = lease[l].releasing
  BY DEF registry
<1>2. sess[s].rt = "running" => Linked(s)
  BY DEF IndInv, NoOrphanRuntime, Linked
<1> QED BY <1>1, <1>2, <1>3, OneSessionKeeps

(* The frame when the attempt is released: its job no longer runs.         *)
LEMMA ReleasingSession ==
    ASSUME IndInv, NEW s \in Sessions, NEW r \in SessionType, SessionOK(r),
           sess' = [sess EXCEPT ![s] = r], ReleaseOnce(s),
           closed' \in BOOLEAN, closer' \in [Closers -> CloserType],
           r.rt # "running",
           r.canceller = "release" => sess[s].canceller = "release"
    PROVE  IndInv'
<1>1. RegistryInv' /\ \A t \in Sessions : t # s /\ Linked(t) => Linked(t)'
  BY ReleaseOnceKeeps, ReleaseOnceLinks DEF IndInv
<1>2. \A l \in Leases : lease'[l].releasing = lease[l].releasing
  BY ReleaseKeepsFlags DEF IndInv
<1> QED BY <1>1, <1>2, OneSessionKeeps

(* A cancellation reason given to a session that has not ended is          *)
(* recorded as one, unless an earlier one was.                             *)
LEMMA FirstReasonOK ==
    ASSUME NEW s \in Sessions, IndInv, NEW reason \in CancelReasons, ~sess[s].iterTerm
    PROVE  FirstReason(sess[s].reason, reason) \in CancelReasons
<1>1. sess[s].reason \in Reasons /\ sess[s].reason \notin RuntimeReasons
  BY DEF IndInv, TaskType, SessionsOK, SessionOK, SessionType
<1> QED BY <1>1 DEF FirstReason, Reasons

(* A cancellation reason is a reason and not a runtime outcome.            *)
LEMMA CancelReasonsDistinct ==
    \A x \in CancelReasons : x \in Reasons /\ x \notin RuntimeReasons
BY DEF CancelReasons, RuntimeReasons, Reasons

(* The record of a session whose runtime is asked to cancel, and of one    *)
(* whose cancel needed no await.                                           *)
StartedRec(s, reason, who) ==
    [sess[s] EXCEPT !.reason = FirstReason(@, reason), !.cancelCalled = TRUE,
                    !.canceller = who, !.rt = "cancelling"]
AtOnceRec(s, reason) ==
    [sess[s] EXCEPT !.reason = FirstReason(@, reason), !.cancelCalled = TRUE,
                    !.released = TRUE]

(* A started cancellation leaves a well-formed session.                    *)
LEMMA CancelStartedOK ==
    ASSUME IndInv, NEW s \in Sessions, NEW reason \in CancelReasons,
           NEW who \in Cancellers, ~sess[s].iterTerm
    PROVE  /\ CancelStarted(s, reason, who) = [sess EXCEPT ![s] = StartedRec(s, reason, who)]
           /\ StartedRec(s, reason, who) \in SessionType
           /\ SessionOK(StartedRec(s, reason, who))
           /\ StartedRec(s, reason, who).rt = "cancelling"
           /\ StartedRec(s, reason, who).canceller = who
<1>1. sess \in [Sessions -> SessionType] /\ SessionOK(sess[s])
  BY DEF IndInv, TaskType, SessionsOK
<1>a. /\ FirstReason(sess[s].reason, reason) \in CancelReasons
      /\ FirstReason(sess[s].reason, reason) \in Reasons
      /\ FirstReason(sess[s].reason, reason) \notin RuntimeReasons
  BY FirstReasonOK, CancelReasonsDistinct
<1>b. sess[s] \in SessionType
  BY <1>1
<1>2. StartedRec(s, reason, who) \in SessionType
  BY <1>b, <1>a DEF StartedRec, SessionType
<1>3. SessionOK(StartedRec(s, reason, who))
  BY <1>b, <1>1, <1>a DEF StartedRec, SessionType, SessionOK
<1>4. CancelStarted(s, reason, who) = [sess EXCEPT ![s] = StartedRec(s, reason, who)]
  BY <1>1 DEF StartedRec, CancelStarted, SessionType
<1>5. /\ StartedRec(s, reason, who).rt = "cancelling"
      /\ StartedRec(s, reason, who).canceller = who
  BY <1>1 DEF StartedRec, SessionType
<1> QED BY <1>2, <1>3, <1>4, <1>5

(* A cancellation without an await leaves a well-formed session.           *)
LEMMA CancelledAtOnceOK ==
    ASSUME IndInv, NEW s \in Sessions, NEW reason \in CancelReasons,
           ~sess[s].iterTerm, sess[s].rt # "running"
    PROVE  /\ CancelledAtOnce(s, reason) = [sess EXCEPT ![s] = AtOnceRec(s, reason)]
           /\ AtOnceRec(s, reason) \in SessionType
           /\ SessionOK(AtOnceRec(s, reason))
           /\ AtOnceRec(s, reason).rt # "running"
           /\ AtOnceRec(s, reason).canceller = sess[s].canceller
<1>1. sess \in [Sessions -> SessionType] /\ SessionOK(sess[s])
  BY DEF IndInv, TaskType, SessionsOK
<1>a. /\ FirstReason(sess[s].reason, reason) \in CancelReasons
      /\ FirstReason(sess[s].reason, reason) \in Reasons
      /\ FirstReason(sess[s].reason, reason) \notin RuntimeReasons
  BY FirstReasonOK, CancelReasonsDistinct
<1>b. sess[s] \in SessionType
  BY <1>1
<1>2. AtOnceRec(s, reason) \in SessionType
  BY <1>b, <1>a DEF AtOnceRec, SessionType
<1>3. SessionOK(AtOnceRec(s, reason))
  BY <1>b, <1>1, <1>a DEF AtOnceRec, SessionType, SessionOK
<1>4. CancelledAtOnce(s, reason) = [sess EXCEPT ![s] = AtOnceRec(s, reason)]
  BY <1>1 DEF AtOnceRec, CancelledAtOnce, SessionType
<1>5. /\ AtOnceRec(s, reason).rt # "running"
      /\ AtOnceRec(s, reason).canceller = sess[s].canceller
  BY <1>1 DEF AtOnceRec, SessionType
<1> QED BY <1>2, <1>3, <1>4, <1>5

(* ControlledSession.cancel by any caller keeps the invariant.             *)
LEMMA CancelCallKeeps ==
    ASSUME IndInv, NEW s \in Sessions, NEW reason \in CancelReasons,
           NEW who \in Cancellers \ {"release"}, CancelCall(s, reason, who),
           closed' \in BOOLEAN, closer' \in [Closers -> CloserType]
    PROVE  IndInv'
<1>0. ~sess[s].iterTerm
  BY DEF CancelCall
<1>1. CASE sess[s].rt = "running"
  <2>1. sess' = CancelStarted(s, reason, who) /\ UNCHANGED registry
    BY <1>1 DEF CancelCall
  <2> QED BY <1>0, <1>1, <2>1, CancelStartedOK, QuietSession
<1>2. CASE sess[s].rt # "running"
  <2>1. sess' = CancelledAtOnce(s, reason) /\ ReleaseOnce(s)
    BY <1>2 DEF CancelCall
  <2> QED BY <1>0, <1>2, <2>1, CancelledAtOnceOK, ReleasingSession
<1> QED BY <1>1, <1>2

-----------------------------------------------------------------------------
(* __anext__: starting to wait, and the events it handles.                 *)

(* Starting to wait for an event keeps the invariant.                      *)
LEMMA NextBeginsKeeps ==
    ASSUME IndInv, NEW s \in Sessions, NextBegins(s) \/ NextAfterDeadline(s)
    PROVE  IndInv'
<1>0. sess \in [Sessions -> SessionType] /\ SessionOK(sess[s]) /\ TaskType
  BY DEF IndInv, TaskType, SessionsOK
<1>1. CASE NextBegins(s)
  <2> DEFINE w == IF sess[s].cancelCalled \/ ~timeout THEN "direct" ELSE "timed"
             r == [sess[s] EXCEPT !.iter = w]
  <2>0. w \in {"direct", "timed"} /\ ~sess[s].iterTerm
    BY <1>1 DEF NextBegins
  <2>1. sess' = [sess EXCEPT ![s] = r] /\ UNCHANGED <<closed, registry, closer>>
    BY <1>0, <1>1 DEF NextBegins
  <2> HIDE DEF w
  <2>a. /\ r \in SessionType /\ r.rt = sess[s].rt /\ r.reason = sess[s].reason
        /\ r.canceller = sess[s].canceller /\ ~r.iterTerm
        /\ r.cancelCalled <=> sess[s].cancelCalled
    BY <1>0, <2>0 DEF SessionType
  <2> HIDE DEF r
  <2>b. SessionOK(sess[s]) /\ ~sess[s].iterTerm
    BY <1>0, <2>0
  <2>2. SessionOK(r)
    BY <2>a, <2>b DEF SessionOK
  <2> QED BY <2>1, <2>2, <2>a, <1>0, QuietSession DEF TaskType
<1>2. CASE NextAfterDeadline(s)
  <2> DEFINE q == StartedRec(s, "timeout", "deadline")
             r == [q EXCEPT !.iter = "late"]
  <2>1. /\ CancelStarted(s, "timeout", "deadline") = [sess EXCEPT ![s] = q]
        /\ q \in SessionType /\ SessionOK(q) /\ q.rt = "cancelling"
        /\ q.canceller # "release"
    BY <1>2, CancelStartedOK DEF NextAfterDeadline, CancelReasons, Cancellers
  <2>2. ~q.iterTerm
    BY <1>0, <1>2 DEF NextAfterDeadline, StartedRec, SessionType
  <2> HIDE DEF q
  <2>3. sess' = [sess EXCEPT ![s] = r] /\ UNCHANGED <<closed, registry, closer>>
    BY <2>1, <1>0, <1>2 DEF NextAfterDeadline
  <2>4. r \in SessionType /\ SessionOK(r) /\ r.rt = "cancelling" /\ r.canceller # "release"
    BY <2>1, <2>2 DEF SessionType, SessionOK
  <2> HIDE DEF r
  <2> QED BY <2>3, <2>4, <1>0, QuietSession DEF TaskType
<1> QED BY <1>1, <1>2

(* Whatever the runtime's iterator produced, handling it keeps the         *)
(* invariant.                                                              *)
LEMMA HandleEventKeeps ==
    ASSUME IndInv, NEW s \in Sessions, NEW e \in Events, HandleEvent(s, e),
           UNCHANGED <<closed, closer>>
    PROVE  IndInv'
<1>0. sess \in [Sessions -> SessionType] /\ SessionOK(sess[s]) /\ TaskType
  BY DEF IndInv, TaskType, SessionsOK
<1>1. CASE e = "chunk"
  <2> DEFINE r == [sess[s] EXCEPT !.iter = "idle", !.event = "none"]
  <2>1. sess' = [sess EXCEPT ![s] = r] /\ UNCHANGED <<closed, registry, closer>>
    BY <1>0, <1>1 DEF HandleEvent
  <2>a. /\ r \in SessionType /\ r.rt = sess[s].rt /\ r.reason = sess[s].reason
        /\ r.canceller = sess[s].canceller /\ r.iter = "idle"
        /\ r.iterTerm <=> sess[s].iterTerm
        /\ r.cancelCalled <=> sess[s].cancelCalled
    BY <1>0, ZenonT(60) DEF SessionType
  <2> HIDE DEF r
  <2>2. SessionOK(r)
    BY <2>a, <1>0 DEF SessionOK
  <2> QED BY <2>1, <2>2, <2>a, <1>0, QuietSession DEF TaskType
<1>2. CASE e # "chunk"
  <2> DEFINE r == [sess[s] EXCEPT !.iter = "idle", !.event = "none",
                          !.rt = RuntimeAfter(s, e),
                          !.reason = FirstReason(@, ReasonOf(e)),
                          !.iterTerm = TRUE, !.released = TRUE]
  <2>1. sess' = [sess EXCEPT ![s] = r] /\ ReleaseOnce(s) /\ UNCHANGED <<closed, closer>>
    BY <1>0, <1>2 DEF HandleEvent
  <2>2. /\ RuntimeAfter(s, e) \in {"none", "cancelling", "cancelled", "ended", "raised"}
        /\ ReasonOf(e) \in RuntimeReasons \cup {"none"}
    BY <1>0, <1>2 DEF RuntimeAfter, ReasonOf, RuntimeReasons, SessionType
  <2>a. /\ FirstReason(sess[s].reason, ReasonOf(e)) \in Reasons
        /\ sess[s].cancelCalled => /\ FirstReason(sess[s].reason, ReasonOf(e)) \in CancelReasons
                                   /\ FirstReason(sess[s].reason, ReasonOf(e)) \notin RuntimeReasons
    <3>1. sess[s].reason \in Reasons
      BY <1>0 DEF SessionType
    <3>2. CASE sess[s].reason = "none"
      BY <3>2, <2>2, <1>0 DEF FirstReason, SessionOK, CancelReasons, Reasons
    <3>3. CASE sess[s].reason # "none"
      BY <3>1, <3>3, <1>0, CancelReasonsDistinct DEF FirstReason, SessionOK
    <3> QED BY <3>2, <3>3
  <2>3. r \in SessionType
    BY <2>2, <2>a, <1>0, ZenonT(60) DEF SessionType
  <2>b. /\ r.rt = RuntimeAfter(s, e) /\ r.reason = FirstReason(sess[s].reason, ReasonOf(e))
        /\ r.iterTerm /\ r.iter = "idle" /\ r.canceller = sess[s].canceller
        /\ r.cancelCalled <=> sess[s].cancelCalled
    BY <1>0 DEF SessionType
  <2>4. SessionOK(r) /\ r.rt # "running" /\ r.canceller = sess[s].canceller
    <3> HIDE DEF r
    <3> QED BY <2>2, <2>a, <2>b, <1>0 DEF SessionOK
  <2> HIDE DEF r
  <2> QED BY <2>1, <2>3, <2>4, <1>0, ReleasingSession DEF TaskType
<1> QED BY <1>1, <1>2

(* Delivering an event, directly or from the awaiting task, keeps the      *)
(* invariant, and so does the awaiting task itself.                        *)
LEMMA NextReturnsKeeps ==
    ASSUME IndInv, NEW s \in Sessions, NEW e \in Events,
           NextReturns(s, e) \/ NextTaskDone(s, e) \/ NextTaskDelivered(s)
    PROVE  IndInv'
<1>0. sess \in [Sessions -> SessionType] /\ SessionOK(sess[s]) /\ TaskType
  BY DEF IndInv, TaskType, SessionsOK
<1>1. CASE NextReturns(s, e)
  BY <1>1, HandleEventKeeps DEF NextReturns
<1>2. CASE NextTaskDone(s, e)
  <2> DEFINE r == [sess[s] EXCEPT !.event = e, !.rt = RuntimeAfter(s, e)]
  <2>1. sess' = [sess EXCEPT ![s] = r] /\ UNCHANGED <<closed, registry, closer>>
    BY <1>0, <1>2 DEF NextTaskDone
  <2>2. /\ RuntimeAfter(s, e) \in {"running", "none", "cancelling", "cancelled", "ended", "raised"}
        /\ RuntimeAfter(s, e) = "running" => sess[s].rt = "running"
    BY <1>0 DEF RuntimeAfter, SessionType
  <2>3. /\ r \in SessionType /\ SessionOK(r) /\ (r.rt = "running" => sess[s].rt = "running")
        /\ r.canceller = sess[s].canceller
    BY <1>0, <2>2 DEF SessionType, SessionOK
  <2> HIDE DEF r
  <2> QED BY <2>1, <2>3, <1>0, QuietSession DEF TaskType
<1>3. CASE NextTaskDelivered(s)
  <2>1. sess[s].event \in Events
    BY <1>0, <1>3 DEF NextTaskDelivered, SessionType
  <2> QED BY <1>3, <2>1, HandleEventKeeps DEF NextTaskDelivered
<1> QED BY <1>1, <1>2, <1>3

-----------------------------------------------------------------------------
(* The timer, and the iterating task being cancelled.                      *)

(* Both ways the timer can win keep the invariant.                         *)
LEMMA DeadlineFiresKeeps ==
    ASSUME IndInv, NEW s \in Sessions, DeadlineFires(s)
    PROVE  IndInv'
<1>0. /\ sess \in [Sessions -> SessionType] /\ SessionOK(sess[s]) /\ TaskType
      /\ ~sess[s].iterTerm /\ UNCHANGED <<closed, closer>>
  BY DEF IndInv, TaskType, SessionsOK, DeadlineFires, SessionOK
<1>1. CASE sess[s].cancelCalled \/ sess[s].rt # "running"
  <2> DEFINE q == AtOnceRec(s, "timeout")
             r == [q EXCEPT !.iter = "task"]
  <2>0. sess[s].rt # "running"
    BY <1>0, <1>1 DEF SessionOK
  <2>1. /\ CancelledAtOnce(s, "timeout") = [sess EXCEPT ![s] = q]
        /\ q \in SessionType /\ SessionOK(q) /\ q.rt # "running"
        /\ q.canceller = sess[s].canceller
    BY <1>0, <2>0, CancelledAtOnceOK DEF CancelReasons
  <2>2. ~q.iterTerm
    BY <1>0 DEF AtOnceRec, SessionType
  <2> HIDE DEF q
  <2>3. sess' = [sess EXCEPT ![s] = r] /\ ReleaseOnce(s)
    BY <2>1, <1>0, <1>1 DEF DeadlineFires
  <2>4. /\ r \in SessionType /\ SessionOK(r) /\ r.rt # "running"
        /\ r.canceller = sess[s].canceller
    BY <2>1, <2>2 DEF SessionType, SessionOK
  <2> HIDE DEF r
  <2> QED BY <2>3, <2>4, <1>0, ReleasingSession DEF TaskType
<1>2. CASE ~(sess[s].cancelCalled \/ sess[s].rt # "running")
  <2> DEFINE q == StartedRec(s, "timeout", "deadline")
             r == [q EXCEPT !.iter = "deadline"]
  <2>1. /\ CancelStarted(s, "timeout", "deadline") = [sess EXCEPT ![s] = q]
        /\ q \in SessionType /\ SessionOK(q) /\ q.rt = "cancelling"
        /\ q.canceller # "release"
    BY <1>0, CancelStartedOK DEF CancelReasons, Cancellers
  <2>2. ~q.iterTerm
    BY <1>0 DEF StartedRec, SessionType
  <2> HIDE DEF q
  <2>3. sess' = [sess EXCEPT ![s] = r] /\ UNCHANGED registry
    BY <2>1, <1>0, <1>2 DEF DeadlineFires
  <2>4. r \in SessionType /\ SessionOK(r) /\ r.rt = "cancelling" /\ r.canceller # "release"
    BY <2>1, <2>2 DEF SessionType, SessionOK
  <2> HIDE DEF r
  <2> QED BY <2>3, <2>4, <1>0, QuietSession DEF TaskType
<1> QED BY <1>1, <1>2

(* A cancelled iterating task keeps the invariant.                         *)
LEMMA TaskCancelledKeeps ==
    ASSUME IndInv, NEW s \in Sessions, TaskCancelled(s)
    PROVE  IndInv'
<1>0. /\ sess \in [Sessions -> SessionType] /\ SessionOK(sess[s]) /\ TaskType
      /\ ~sess[s].iterTerm /\ UNCHANGED <<closed, closer>>
  BY DEF IndInv, TaskType, SessionsOK, TaskCancelled, SessionOK
<1>1. CASE ~sess[s].cancelCalled /\ sess[s].rt = "running"
  <2> DEFINE q == StartedRec(s, "client_cancelled", "abort")
             r == [q EXCEPT !.iter = "idle", !.event = "none", !.iterTerm = TRUE]
  <2>1. /\ CancelStarted(s, "client_cancelled", "abort") = [sess EXCEPT ![s] = q]
        /\ q \in SessionType /\ SessionOK(q) /\ q.rt = "cancelling"
        /\ q.canceller # "release"
    BY <1>0, CancelStartedOK DEF CancelReasons, Cancellers
  <2> HIDE DEF q
  <2>3. sess' = [sess EXCEPT ![s] = r] /\ UNCHANGED registry
    BY <2>1, <1>0, <1>1 DEF TaskCancelled
  <2>4. r \in SessionType /\ SessionOK(r) /\ r.rt = "cancelling" /\ r.canceller # "release"
    BY <2>1 DEF SessionType, SessionOK
  <2> HIDE DEF r
  <2> QED BY <2>3, <2>4, <1>0, QuietSession DEF TaskType
<1>2. CASE ~(~sess[s].cancelCalled /\ sess[s].rt = "running")
  <2> DEFINE q == AtOnceRec(s, "client_cancelled")
             r == [q EXCEPT !.iter = "idle", !.event = "none", !.iterTerm = TRUE]
  <2>0. sess[s].rt # "running"
    BY <1>0, <1>2 DEF SessionOK
  <2>1. /\ CancelledAtOnce(s, "client_cancelled") = [sess EXCEPT ![s] = q]
        /\ q \in SessionType /\ SessionOK(q) /\ q.rt # "running"
        /\ q.canceller = sess[s].canceller
    BY <1>0, <2>0, CancelledAtOnceOK DEF CancelReasons
  <2> HIDE DEF q
  <2>3. sess' = [sess EXCEPT ![s] = r] /\ ReleaseOnce(s)
    BY <2>1, <1>0, <1>2 DEF TaskCancelled
  <2>4. /\ r \in SessionType /\ SessionOK(r) /\ r.rt # "running"
        /\ r.canceller = sess[s].canceller
    BY <2>1 DEF SessionType, SessionOK
  <2> HIDE DEF r
  <2> QED BY <2>3, <2>4, <1>0, ReleasingSession DEF TaskType
<1> QED BY <1>1, <1>2

(* So does one cancelled in a bare await, before and after its unwinding.  *)
LEMMA DirectTaskCancelledKeeps ==
    ASSUME IndInv, NEW s \in Sessions, DirectTaskCancelled(s) \/ UnwindEnds(s)
    PROVE  IndInv'
<1>0. /\ sess \in [Sessions -> SessionType] /\ SessionOK(sess[s]) /\ TaskType
      /\ ~sess[s].iterTerm /\ UNCHANGED <<closed, closer>>
  BY DEF IndInv, TaskType, SessionsOK, DirectTaskCancelled, UnwindEnds, SessionOK
<1>1. CASE DirectTaskCancelled(s) /\ sess[s].rt = "running"
  <2> DEFINE r == [sess[s] EXCEPT !.iter = "unwinding", !.rt = "cancelling"]
  <2>1. sess' = [sess EXCEPT ![s] = r] /\ UNCHANGED registry
    BY <1>0, <1>1 DEF DirectTaskCancelled
  <2>a. /\ r \in SessionType /\ r.rt = "cancelling"
        /\ r.reason = sess[s].reason /\ r.iterTerm = sess[s].iterTerm
        /\ r.cancelCalled = sess[s].cancelCalled /\ r.canceller = sess[s].canceller
    BY <1>0, ZenonT(60) DEF SessionType
  <2>2. r \in SessionType /\ SessionOK(r) /\ r.rt = "cancelling"
    <3> HIDE DEF r
    <3> QED BY <2>a, <1>0 DEF SessionOK
  <2> HIDE DEF r
  <2> QED BY <2>1, <2>2, <2>a, <1>0, QuietSession DEF TaskType
<1>2. CASE DirectTaskCancelled(s) /\ sess[s].rt # "running"
  <2> DEFINE q == AtOnceRec(s, "client_cancelled")
             r == [q EXCEPT !.iter = "idle", !.iterTerm = TRUE]
  <2>1. /\ CancelledAtOnce(s, "client_cancelled") = [sess EXCEPT ![s] = q]
        /\ q \in SessionType /\ SessionOK(q) /\ q.rt # "running"
        /\ q.canceller = sess[s].canceller
    BY <1>0, <1>2, CancelledAtOnceOK DEF CancelReasons
  <2> HIDE DEF q
  <2>3. sess' = [sess EXCEPT ![s] = r] /\ ReleaseOnce(s)
    BY <2>1, <1>0, <1>2 DEF DirectTaskCancelled
  <2>4. /\ r \in SessionType /\ SessionOK(r) /\ r.rt # "running"
        /\ r.canceller = sess[s].canceller
    BY <2>1 DEF SessionType, SessionOK
  <2> HIDE DEF r
  <2> QED BY <2>3, <2>4, <1>0, ReleasingSession DEF TaskType
<1>3. CASE UnwindEnds(s)
  <2> DEFINE r == [sess[s] EXCEPT !.reason = FirstReason(@, "client_cancelled"),
                        !.cancelCalled = TRUE, !.released = TRUE,
                        !.iter = "idle", !.iterTerm = TRUE, !.rt = "cancelled"]
  <2>1. sess' = [sess EXCEPT ![s] = r] /\ ReleaseOnce(s)
    BY <1>0, <1>3 DEF UnwindEnds, CancelledAtOnce
  <2>a. /\ FirstReason(sess[s].reason, "client_cancelled") \in CancelReasons
        /\ FirstReason(sess[s].reason, "client_cancelled") \in Reasons
        /\ FirstReason(sess[s].reason, "client_cancelled") \notin RuntimeReasons
    <3>1. "client_cancelled" \in CancelReasons
      BY DEF CancelReasons
    <3> QED BY <3>1, <1>0, FirstReasonOK, CancelReasonsDistinct
  <2>2. r \in SessionType
    BY <2>a, <1>0, ZenonT(60) DEF SessionType
  <2>3. SessionOK(r) /\ r.rt # "running" /\ r.canceller = sess[s].canceller
    BY <2>a, <1>0 DEF SessionType, SessionOK
  <2> HIDE DEF r
  <2> QED BY <2>1, <2>2, <2>3, <1>0, ReleasingSession DEF TaskType
<1> QED BY <1>1, <1>2, <1>3

-----------------------------------------------------------------------------
(* The end of an awaited cancellation.                                     *)

(* The runtime of a session somebody is cancelling does not run.           *)
LEMMA CancellingNotRunning ==
    ASSUME IndInv, NEW s \in Sessions, sess[s].canceller \in Cancellers
    PROVE  /\ sess[s].rt # "running"
           /\ RuntimeCancelled(s) \in {"none", "cancelling", "cancelled", "ended", "raised"}
<1>1. sess[s] \in SessionType /\ SessionOK(sess[s])
  BY DEF IndInv, TaskType, SessionsOK
<1>2. sess[s].rt # "running"
  BY <1>1 DEF SessionOK
<1> QED BY <1>1, <1>2 DEF RuntimeCancelled, SessionType

(* A cancellation that returned keeps the invariant, lease.release()'s     *)
(* included: it releases the lease although another attempt could be       *)
(* registered under it by now, and none is.                                *)
LEMMA CancelReturnsKeeps ==
    ASSUME IndInv, NEW s \in Sessions, CancelReturns(s)
    PROVE  IndInv'
<1>0. /\ sess \in [Sessions -> SessionType] /\ sess[s] \in SessionType
      /\ SessionOK(sess[s]) /\ TaskType /\ UNCHANGED <<closed, closer>>
      /\ s[1] \in Leases
  BY DEF IndInv, TaskType, SessionsOK, CancelReturns, Sessions
<1>1. sess[s].rt # "running" /\ RuntimeCancelled(s) \in {"none", "cancelling", "cancelled", "ended", "raised"}
  BY CancellingNotRunning DEF CancelReturns
<1>2. /\ AfterTimeoutCancel(s) \in {"idle", "direct", "timed", "task", "late", "deadline", "unwinding"}
      /\ AfterTimeoutCancel(s) # "idle" => sess[s].iter # "idle"
  BY <1>0 DEF AfterTimeoutCancel, SessionType
<1> DEFINE r == [sess[s] EXCEPT !.canceller = "done", !.rt = RuntimeCancelled(s),
                                !.released = TRUE, !.iter = AfterTimeoutCancel(s)]
<1>3. sess' = [sess EXCEPT ![s] = r]
  BY <1>0 DEF CancelReturns
<1>a. r \in SessionType
  BY <1>0, <1>1, <1>2, ZenonT(60) DEF SessionType
<1>b. /\ r.rt = RuntimeCancelled(s) /\ r.reason = sess[s].reason
      /\ r.canceller = "done" /\ r.iter = AfterTimeoutCancel(s)
  BY <1>0 DEF SessionType
<1>c. /\ r.iterTerm <=> sess[s].iterTerm
      /\ r.cancelCalled <=> sess[s].cancelCalled
  BY <1>0 DEF SessionType
<1>4. /\ r \in SessionType /\ r.rt = RuntimeCancelled(s) /\ r.reason = sess[s].reason
      /\ r.canceller = "done" /\ r.iter = AfterTimeoutCancel(s)
      /\ r.iterTerm <=> sess[s].iterTerm
      /\ r.cancelCalled <=> sess[s].cancelCalled
  BY <1>a, <1>b, <1>c
<1> HIDE DEF r
<1>5. SessionOK(r) /\ r.rt # "running"
  BY <1>4, <1>0, <1>1, <1>2 DEF SessionOK
<1>6. CASE sess[s].canceller = "release" /\ Registered(s[1])
  <2>1. ReleaseLeaseLocked(s[1])
    BY <1>6 DEF CancelReturns
  <2>2. RegistryInv'
    BY <2>1, <1>6, <1>0, ReleaseLeaseLockedKeeps DEF IndInv
  <2>3. \A t \in Sessions : sess[t].rt = "running" => t # lease[s[1]].session
    <3>1. lease[s[1]].releasing
      BY <1>6 DEF IndInv, ReleasingInv
    <3>2. ASSUME NEW t \in Sessions, sess[t].rt = "running", t = lease[s[1]].session
          PROVE  FALSE
      <4>1. t[1] = s[1]
        BY <3>2, <1>0, ConstantsAssumption DEF IndInv, RegistryInv, SessionOwned, Sessions
      <4> QED BY <4>1, <3>1, <3>2 DEF IndInv, ReleasingInv
    <3> QED BY <3>2
  <2>4. \A l \in Leases : lease'[l].releasing = lease[l].releasing
    BY <2>1, <1>0 DEF ReleaseLeaseLocked, LeaseType, IndInv, RegistryInv, RegistryType
  <2>5. sess'[s] = r /\ \A t \in Sessions : t # s => sess'[t] = sess[t]
    BY <1>0, <1>3
  <2>6. TaskType' /\ SessionsOK'
    BY <1>0, <1>3, <1>4, <1>5, <2>5 DEF TaskType, SessionsOK, IndInv
  <2>7. NoOrphanRuntime'
    <3>1. ASSUME NEW t \in Sessions, sess'[t].rt = "running"
          PROVE  Linked(t)'
      <4>1. t # s /\ sess[t].rt = "running"
        BY <2>5, <3>1, <1>5
      <4>2. Linked(t) /\ t # lease[s[1]].session
        BY <4>1, <2>3 DEF IndInv, NoOrphanRuntime, Linked
      <4> QED BY <4>2, <2>1, <1>6, <1>0, ReleaseLeaseLockedLinks DEF IndInv
    <3> QED BY <3>1 DEF NoOrphanRuntime, Linked
  <2>8. ReleasingInv'
    <3>1. \A t \in Sessions : t[1] \in Leases
      BY DEF Sessions
    <3> QED BY <3>1, <2>4, <2>5, <1>4, <1>5 DEF ReleasingInv, IndInv
  <2> QED BY <2>2, <2>6, <2>7, <2>8 DEF IndInv
<1>7. CASE ~(sess[s].canceller = "release" /\ Registered(s[1]))
  <2>1. ReleaseOnce(s)
    BY <1>7 DEF CancelReturns
  <2> QED BY <2>1, <1>0, <1>3, <1>4, <1>5, ReleasingSession DEF TaskType
<1> QED BY <1>6, <1>7

(* A cancellation that raised keeps the invariant.                         *)
LEMMA CancelRaisesKeeps ==
    ASSUME IndInv, NEW s \in Sessions, CancelRaises(s)
    PROVE  IndInv'
<1>0. /\ sess \in [Sessions -> SessionType] /\ sess[s] \in SessionType
      /\ SessionOK(sess[s]) /\ TaskType /\ closed' = closed
  BY DEF IndInv, TaskType, SessionsOK, CancelRaises
<1>1. sess[s].rt # "running" /\ RuntimeCancelled(s) \in {"none", "cancelling", "cancelled", "ended", "raised"}
  BY CancellingNotRunning DEF CancelRaises
<1>2. closer' \in [Closers -> CloserType]
  BY <1>0 DEF CancelRaises, TaskType, CloserType
<1>3. CASE sess[s].canceller \in {"deadline", "abort"}
  <2> DEFINE r == [sess[s] EXCEPT !.canceller = "done", !.rt = RuntimeCancelled(s),
                        !.iterTerm = TRUE, !.iter = "idle", !.event = "none",
                        !.released = TRUE]
  <2>1. sess' = [sess EXCEPT ![s] = r] /\ ReleaseOnce(s)
    BY <1>0, <1>3 DEF CancelRaises
  <2>2. /\ r \in SessionType /\ r.rt = RuntimeCancelled(s) /\ r.reason = sess[s].reason
        /\ r.canceller = "done" /\ r.iter = "idle" /\ r.iterTerm
        /\ r.cancelCalled <=> sess[s].cancelCalled
    BY <1>0, <1>1 DEF SessionType
  <2> HIDE DEF r
  <2>3. SessionOK(r) /\ r.rt # "running"
    BY <2>2, <1>0, <1>1 DEF SessionOK
  <2> QED BY <2>1, <2>2, <2>3, <1>0, <1>2, ReleasingSession DEF TaskType
<1>4. CASE sess[s].canceller \notin {"deadline", "abort"}
  <2> DEFINE r == [sess[s] EXCEPT !.canceller = "done", !.rt = RuntimeCancelled(s)]
  <2>1. sess' = [sess EXCEPT ![s] = r] /\ UNCHANGED registry
    BY <1>0, <1>4 DEF CancelRaises
  <2>2. /\ r \in SessionType /\ r.rt = RuntimeCancelled(s) /\ r.reason = sess[s].reason
        /\ r.canceller = "done" /\ r.iter = sess[s].iter
        /\ r.iterTerm <=> sess[s].iterTerm
        /\ r.cancelCalled <=> sess[s].cancelCalled
    BY <1>0, <1>1 DEF SessionType
  <2> HIDE DEF r
  <2>3. SessionOK(r) /\ r.rt # "running"
    BY <2>2, <1>0, <1>1 DEF SessionOK
  <2> QED BY <2>1, <2>2, <2>3, <1>0, <1>2, QuietSession DEF TaskType
<1> QED BY <1>3, <1>4

(* Every step of a session keeps the invariant.                            *)
LEMMA SessionStepKeeps ==
    ASSUME IndInv, NEW s \in Sessions, SessionStep(s)
    PROVE  IndInv'
<1>1. CASE \E r \in ClientReasons : ClientCancel(s, r)
  <2>1. PICK r \in ClientReasons : ClientCancel(s, r)
    BY <1>1
  <2>2. /\ r \in CancelReasons /\ "client" \in Cancellers \ {"release"}
        /\ CancelCall(s, r, "client")
        /\ closed' \in BOOLEAN /\ closer' \in [Closers -> CloserType]
    BY <2>1, ConstantsAssumption DEF ClientCancel, CancelReasons, Cancellers, IndInv, TaskType
  <2> QED BY <2>2, CancelCallKeeps
<1>2. CASE \E e \in Events : NextReturns(s, e) \/ NextTaskDone(s, e)
  BY <1>2, NextReturnsKeeps
<1>3. CASE NextTaskDelivered(s)
  <2>1. "chunk" \in Events
    BY DEF Events
  <2> QED BY <2>1, <1>3, NextReturnsKeeps
<1> QED
  BY <1>1, <1>2, <1>3, NextBeginsKeeps, DeadlineFiresKeeps, TaskCancelledKeeps,
     DirectTaskCancelledKeeps, CancelReturnsKeeps, CancelRaisesKeeps DEF SessionStep

-----------------------------------------------------------------------------
(* The lease's owner.                                                      *)

(* The frame of a step that changes no session.                            *)
LEMMA SameSessions ==
    ASSUME IndInv, RegistryInv', sess' = sess,
           closed' \in BOOLEAN, closer' \in [Closers -> CloserType],
           \A t \in Sessions : sess[t].rt = "running" /\ Linked(t) => Linked(t)',
           \A l \in Leases : lease'[l].releasing = lease[l].releasing
    PROVE  IndInv'
<1>1. TaskType' /\ SessionsOK'
  BY DEF IndInv, TaskType, SessionsOK
<1>2. NoOrphanRuntime'
  BY DEF IndInv, NoOrphanRuntime, Linked
<1>3. ReleasingInv'
  <2>1. \A t \in Sessions : t[1] \in Leases
    BY DEF Sessions
  <2> QED BY <2>1 DEF IndInv, ReleasingInv
<1> QED BY <1>1, <1>2, <1>3 DEF IndInv

(* Marking leases keeps the invariant.                                     *)
LEMMA MarkingStep ==
    ASSUME IndInv, sess' = sess,
           lease' \in [Leases -> LeaseType],
           \A l \in Leases : /\ lease'[l].state = lease[l].state
                             /\ lease'[l].id = lease[l].id
                             /\ lease'[l].session = lease[l].session
                             /\ lease'[l].releasing = lease[l].releasing,
           UNCHANGED <<inFlight, drained, leaseOf, sessOf, sessions>>,
           closed' \in BOOLEAN, closer' \in [Closers -> CloserType]
    PROVE  IndInv'
<1>1. RegistryInv'
  BY MarkingKeeps DEF IndInv
<1>2. \A t \in Sessions : Linked(t) => Linked(t)'
  BY DEF Linked, Registered, Sessions
<1> QED BY <1>1, <1>2, SameSessions

(* The deadline, a late submission and an injection only mark the lease.   *)
LEMMA LeaseMarksKeep ==
    ASSUME IndInv, NEW l \in Leases, NEW id \in ReqIds,
           DeadlinePasses(l) \/ SubmitLate(l) \/ InjectText(id)
    PROVE  IndInv'
<1>0. /\ lease \in [Leases -> LeaseType] /\ closed \in BOOLEAN
      /\ closer \in [Closers -> CloserType]
      /\ leaseOf \in [ReqIds -> Leases \cup {NoLease}]
  BY DEF IndInv, RegistryInv, RegistryType, TaskType
<1>1. CASE DeadlinePasses(l)
  <2>1. lease' = [lease EXCEPT ![l] = [lease[l] EXCEPT !.late = TRUE]]
    BY <1>0, <1>1 DEF DeadlinePasses
  <2>2. /\ lease' \in [Leases -> LeaseType]
        /\ \A m \in Leases : /\ lease'[m].state = lease[m].state
                             /\ lease'[m].id = lease[m].id
                             /\ lease'[m].session = lease[m].session
                             /\ lease'[m].releasing = lease[m].releasing
    BY <2>1, <1>0, ZenonT(60) DEF LeaseType
  <2> QED BY <2>2, <1>0, <1>1, MarkingStep DEF DeadlinePasses
<1>2. CASE SubmitLate(l)
  <2>1. lease' = [lease EXCEPT ![l] = [lease[l] EXCEPT !.reason = FirstReason(@, "timeout"),
                                                      !.terminated = TRUE]]
    BY <1>0, <1>2 DEF SubmitLate
  <2>2. FirstReason(lease[l].reason, "timeout") \in Reasons
    BY <1>0 DEF FirstReason, LeaseType, Reasons, CancelReasons
  <2>3. /\ lease' \in [Leases -> LeaseType]
        /\ \A m \in Leases : /\ lease'[m].state = lease[m].state
                             /\ lease'[m].id = lease[m].id
                             /\ lease'[m].session = lease[m].session
                             /\ lease'[m].releasing = lease[m].releasing
    BY <2>1, <2>2, <1>0, ZenonT(60) DEF LeaseType
  <2> QED BY <2>3, <1>0, <1>2, MarkingStep DEF SubmitLate
<1>3. CASE InjectText(id)
  <2> DEFINE n == leaseOf[id]
  <2>1. n \in Leases /\ lease' = [lease EXCEPT ![n] = [lease[n] EXCEPT !.replaySafe = FALSE]]
    BY <1>0, <1>3 DEF InjectText
  <2> HIDE DEF n
  <2>2. /\ lease' \in [Leases -> LeaseType]
        /\ \A m \in Leases : /\ lease'[m].state = lease[m].state
                             /\ lease'[m].id = lease[m].id
                             /\ lease'[m].session = lease[m].session
                             /\ lease'[m].releasing = lease[m].releasing
    BY <2>1, <1>0, ZenonT(60) DEF LeaseType
  <2> QED BY <2>2, <1>0, <1>3, MarkingStep DEF InjectText
<1> QED BY <1>1, <1>2, <1>3

(* acquire keeps the invariant: it takes a free slot and a free id.        *)
LEMMA AcquireKeeps ==
    ASSUME IndInv, NEW l \in Leases, NEW id \in ReqIds, Acquire(l, id)
    PROVE  IndInv'
<1>0. /\ RegistryInv /\ RegistryType /\ lease[l] \in LeaseType
      /\ lease[l].state = "unused" /\ leaseOf[id] = NoLease /\ inFlight < MaxInFlight
      /\ UNCHANGED <<closed, sessOf, sessions, sess, closer>>
      /\ inFlight' = inFlight + 1 /\ drained' = FALSE
      /\ leaseOf' = [leaseOf EXCEPT ![id] = l]
  BY DEF IndInv, RegistryInv, RegistryType, Acquire
<1>1. lease' = [lease EXCEPT ![l] = [lease[l] EXCEPT !.state = "reserved", !.id = id]]
  BY <1>0 DEF Acquire, RegistryType
<1>2. /\ lease'[l].state = "reserved" /\ lease'[l].id = id
      /\ lease'[l].session = lease[l].session
      /\ lease'[l].releasing = lease[l].releasing
      /\ \A m \in Leases : m # l => lease'[m] = lease[m]
  BY <1>0, <1>1 DEF RegistryType, LeaseType
<1>3. lease' \in [Leases -> LeaseType]
  BY <1>0, <1>1 DEF RegistryType, LeaseType
<1>4. l \notin LiveLeases /\ ~Registered(l) /\ LiveLeases' = LiveLeases \cup {l}
  BY <1>0, <1>2 DEF LiveLeases, RegistryInv, RegistryLinked
<1>5. IsFiniteSet(LiveLeases)
  BY FS_Subset, ConstantsAssumption DEF LiveLeases
<1>6. Cardinality(LiveLeases') = inFlight + 1
  BY <1>4, <1>5, <1>0, FS_AddElement DEF RegistryInv, CapacityExact
<1>7. RegistryType'
  <2>0. inFlight' \in Nat
    BY <1>0 DEF RegistryType
  <2>1. drained' \in BOOLEAN
    BY <1>0, Zenon
  <2>2. leaseOf' \in [ReqIds -> Leases \cup {NoLease}]
    BY <1>0 DEF RegistryType
  <2>3. sessOf' \in [ReqIds -> Sessions \cup {NoSession}] /\ sessions' \in SUBSET Sessions
    BY <1>0 DEF RegistryType
  <2> QED BY <2>0, <2>1, <2>2, <2>3, <1>3 DEF RegistryType
<1>8. CapacityExact'
  BY <1>0, <1>6, ConstantsAssumption DEF CapacityExact, RegistryType
<1>9. SessionOwned'
  BY <1>2 DEF RegistryInv, SessionOwned, IndInv
<1>10. ASSUME NEW m \in Leases PROVE (m \in LiveLeases)' <=> Registered(m)'
  BY <1>0, <1>2, <1>4, ConstantsAssumption DEF Registered, RegistryInv, RegistryLinked, RegistryType
<1>a. lease[l].session = NoSession
  BY <1>0 DEF RegistryInv, SessionOwned
<1>11. ASSUME NEW i \in ReqIds
      PROVE  /\ leaseOf'[i] # NoLease => lease'[leaseOf'[i]].id = i
             /\ sessOf'[i] = IF leaseOf'[i] = NoLease THEN NoSession
                             ELSE lease'[leaseOf'[i]].session
  BY <1>0, <1>2, <1>4, <1>a, ConstantsAssumption DEF Registered, RegistryInv, RegistryLinked, RegistryType
<1>12. sessions' = {s \in Sessions : lease'[s[1]].session = s}
  BY <1>0, <1>2 DEF RegistryInv, RegistryLinked, Sessions
<1>13. RegistryInv'
  BY <1>7, <1>8, <1>9, <1>10, <1>11, <1>12 DEF RegistryInv, RegistryLinked
<1>14. \A t \in Sessions : Linked(t) => Linked(t)'
  BY <1>0, <1>2, <1>4, ConstantsAssumption DEF Linked, Registered, RegistryType, Sessions
<1> QED
  BY <1>0, <1>2, <1>13, <1>14, SameSessions DEF IndInv, TaskType

(* A submission keeps the invariant: the lease had no attempt, so no job   *)
(* of it was running.                                                      *)
LEMMA SubmitKeeps ==
    ASSUME IndInv, NEW l \in Leases, NEW final \in BOOLEAN, Submit(l, final)
    PROVE  IndInv'
<1>s. PICK s : s = <<l, lease[l].attempts + 1>>
  OBVIOUS
<1> DEFINE id == lease[l].id
           r == [UnusedSession EXCEPT !.rt = "running", !.final = final]
<1>0. /\ RegistryInv /\ RegistryType /\ TaskType /\ lease[l] \in LeaseType
      /\ Registered(l) /\ lease[l].session = NoSession /\ ~lease[l].releasing
      /\ UNCHANGED <<closed, inFlight, drained, leaseOf, closer>>
      /\ sessions' = sessions \cup {s} /\ sessOf' = [sessOf EXCEPT ![id] = s]
      /\ sess' = [sess EXCEPT ![s] = r]
  BY <1>s DEF IndInv, RegistryInv, RegistryType, Submit, MaySubmit
<1>1. s \in Sessions /\ s[1] = l /\ s # NoSession /\ lease[l].attempts + 1 \in 0..MaxAttempts
  BY <1>s, <1>0, ConstantsAssumption DEF Submit, LeaseType, Sessions
<1>2. r \in SessionType /\ SessionOK(r)
  <2>0. UnusedSession \in SessionType
    BY DEF UnusedSession, SessionType, Reasons
  <2>1. /\ r.rt = "running" /\ ~r.cancelCalled /\ ~r.iterTerm
        /\ r.reason = "none" /\ r.iter = "idle" /\ r.canceller = "none"
    BY DEF UnusedSession
  <2>2. "none" \notin Cancellers
    BY ConstantsAssumption DEF Cancellers
  <2>3. r \in SessionType
    BY <2>0 DEF SessionType
  <2>4. SessionOK(r)
    BY <2>1, <2>2 DEF SessionOK, RuntimeReasons
  <2> QED BY <2>3, <2>4
<1>3. lease' = [lease EXCEPT ![l] = [lease[l] EXCEPT !.state = "active", !.session = s,
                                                    !.attempts = lease[l].attempts + 1]]
  BY <1>s, <1>0 DEF Submit, RegistryType
<1> HIDE DEF r
<1>4. /\ lease'[l].state = "active" /\ lease'[l].id = id /\ lease'[l].session = s
      /\ lease'[l].releasing = lease[l].releasing
      /\ \A m \in Leases : m # l => lease'[m] = lease[m]
      /\ lease' \in [Leases -> LeaseType]
  BY <1>0, <1>1, <1>3 DEF RegistryType, LeaseType
<1>5. id \in ReqIds /\ leaseOf[id] = l /\ l \in LiveLeases /\ LiveLeases' = LiveLeases
  BY <1>0, <1>4 DEF Registered, RegistryInv, RegistryLinked, LiveLeases
<1>6. RegistryType' /\ CapacityExact' /\ SessionOwned'
  BY <1>0, <1>1, <1>4, <1>5 DEF RegistryType, RegistryInv, CapacityExact, SessionOwned
<1>7. ASSUME NEW m \in Leases PROVE (m \in LiveLeases)' <=> Registered(m)'
  BY <1>0, <1>4, <1>5 DEF Registered, RegistryInv, RegistryLinked
<1>8. ASSUME NEW i \in ReqIds
      PROVE  /\ leaseOf'[i] # NoLease => lease'[leaseOf'[i]].id = i
             /\ sessOf'[i] = IF leaseOf'[i] = NoLease THEN NoSession
                             ELSE lease'[leaseOf'[i]].session
  BY <1>0, <1>4, <1>5, ConstantsAssumption DEF RegistryInv, RegistryLinked, RegistryType
<1>9. sessions' = {t \in Sessions : lease'[t[1]].session = t}
  BY <1>0, <1>1, <1>4, ConstantsAssumption DEF RegistryInv, RegistryLinked, Sessions
<1>10. RegistryInv'
  BY <1>6, <1>7, <1>8, <1>9 DEF RegistryInv, RegistryLinked
<1>11. sess'[s] = r /\ \A t \in Sessions : t # s => sess'[t] = sess[t]
  BY <1>0, <1>1 DEF TaskType
<1>12. TaskType' /\ SessionsOK'
  BY <1>0, <1>1, <1>2, <1>11 DEF TaskType, SessionsOK, IndInv
<1>13. r.rt = "running" /\ r.canceller = "none"
  BY DEF r, UnusedSession
<1>14. NoOrphanRuntime'
  <2>1. ASSUME NEW t \in Sessions, t # s, sess[t].rt = "running"
        PROVE  Linked(t)'
    <3>1. Linked(t) /\ t[1] \in Leases
      BY <2>1 DEF IndInv, NoOrphanRuntime, Linked, Sessions
    <3>2. t[1] # l
      BY <3>1, <2>1, <1>0, ConstantsAssumption DEF Linked, Sessions
    <3> QED BY <3>1, <3>2, <1>0, <1>4 DEF Linked, Registered
  <2>2. Linked(s)'
    BY <1>0, <1>1, <1>4, <1>5 DEF Linked, Registered
  <2> QED BY <2>1, <2>2, <1>11 DEF NoOrphanRuntime, Linked
<1>15. ReleasingInv'
  <2>1. \A t \in Sessions : t[1] \in Leases /\ lease'[t[1]].releasing = lease[t[1]].releasing
    BY <1>4 DEF Sessions
  <2> QED BY <2>1, <1>0, <1>1, <1>11, <1>13 DEF ReleasingInv, IndInv
<1> QED BY <1>10, <1>12, <1>14, <1>15 DEF IndInv

(* A release that needs no await keeps the invariant: the attempt it drops *)
(* has ended or is being cancelled.                                        *)
LEMMA ReleaseNowKeeps ==
    ASSUME IndInv, NEW l \in Leases, ReleaseNow(l)
    PROVE  IndInv'
<1> DEFINE s == lease[l].session
<1>0. /\ Registered(l) /\ ReleaseLeaseLocked(l) /\ UNCHANGED <<closed, closer>>
      /\ TaskType /\ RegistryInv /\ lease \in [Leases -> LeaseType]
  BY DEF ReleaseNow, MayRelease, IndInv, RegistryInv, RegistryType
<1>1. RegistryInv'
  BY <1>0, ReleaseLeaseLockedKeeps
<1>2. \A t \in Sessions : t # s /\ Linked(t) => Linked(t)'
  BY <1>0, ReleaseLeaseLockedLinks
<1>3. \A m \in Leases : lease'[m].releasing = lease[m].releasing
  BY <1>0 DEF ReleaseLeaseLocked, LeaseType
<1>4. CASE s = NoSession \/ (s # NoSession /\ (sess[s].iterTerm \/ sess[s].cancelCalled))
  <2>1. sess' = sess
    BY <1>4 DEF ReleaseNow
  <2>2. ASSUME NEW t \in Sessions, sess[t].rt = "running" PROVE t # s
    <3>1. SessionOK(sess[t])
      BY DEF IndInv, SessionsOK
    <3> QED BY <3>1, <1>4, <2>2, ConstantsAssumption DEF SessionOK, Sessions
  <2> QED BY <2>1, <2>2, <1>0, <1>1, <1>2, <1>3, SameSessions DEF TaskType
<1>5. CASE s # NoSession /\ ~sess[s].iterTerm /\ ~sess[s].cancelCalled
  <2>1. s \in Sessions
    BY <1>5, <1>0 DEF LeaseType
  <2>2. sess' = CancelledAtOnce(s, "application_cancelled") /\ sess[s].rt # "running"
    BY <1>5 DEF ReleaseNow
  <2> HIDE DEF s
  <2> DEFINE r == AtOnceRec(s, "application_cancelled")
  <2>3. /\ sess' = [sess EXCEPT ![s] = r]
        /\ r \in SessionType /\ SessionOK(r) /\ r.rt # "running"
        /\ r.canceller = sess[s].canceller
    BY <2>1, <2>2, <1>5, CancelledAtOnceOK DEF CancelReasons
  <2> HIDE DEF r
  <2> QED BY <2>1, <2>3, <1>0, <1>1, <1>2, <1>3, OneSessionKeeps DEF TaskType
<1> QED BY <1>4, <1>5 DEF ReleaseNow

(* A release that has to cancel keeps the invariant: from here on the      *)
(* lease gets no further attempt.                                          *)
LEMMA ReleaseCancelsKeeps ==
    ASSUME IndInv, NEW l \in Leases, ReleaseCancels(l)
    PROVE  IndInv'
<1> DEFINE s == lease[l].session
           r == StartedRec(s, "application_cancelled", "release")
<1>0. /\ RegistryInv /\ lease \in [Leases -> LeaseType] /\ TaskType
      /\ s # NoSession /\ ~sess[s].iterTerm /\ sess[s].rt = "running"
      /\ sess' = CancelStarted(s, "application_cancelled", "release")
      /\ UNCHANGED <<closed, inFlight, drained, leaseOf, sessOf, sessions, closer>>
  BY DEF ReleaseCancels, IndInv, RegistryInv, RegistryType
<1>1. s \in Sessions /\ s[1] = l
  BY <1>0 DEF LeaseType, RegistryInv, SessionOwned
<1>2. lease' = [lease EXCEPT ![l] = [lease[l] EXCEPT !.releasing = TRUE]]
  BY <1>0 DEF ReleaseCancels
<1>3. /\ lease' \in [Leases -> LeaseType]
      /\ \A m \in Leases : /\ lease'[m].state = lease[m].state
                           /\ lease'[m].id = lease[m].id
                           /\ lease'[m].session = lease[m].session
      /\ lease'[l].releasing
      /\ \A m \in Leases : m # l => lease'[m].releasing = lease[m].releasing
  BY <1>0, <1>2 DEF LeaseType
<1>4. RegistryInv'
  BY <1>0, <1>3, MarkingKeeps
<1>5. \A t \in Sessions : Linked(t) => Linked(t)'
  BY <1>0, <1>3 DEF Linked, Registered, Sessions
<1> HIDE DEF s
<1>6. /\ sess' = [sess EXCEPT ![s] = r]
      /\ r \in SessionType /\ SessionOK(r) /\ r.rt = "cancelling" /\ r.canceller = "release"
  BY <1>0, <1>1, CancelStartedOK DEF CancelReasons, Cancellers
<1> HIDE DEF r
<1>7. sess'[s] = r /\ \A t \in Sessions : t # s => sess'[t] = sess[t]
  BY <1>0, <1>1, <1>6 DEF TaskType
<1>8. TaskType' /\ SessionsOK'
  BY <1>0, <1>1, <1>6, <1>7 DEF TaskType, SessionsOK, IndInv
<1>9. NoOrphanRuntime'
  BY <1>5, <1>6, <1>7 DEF NoOrphanRuntime, Linked, IndInv
<1>10. ReleasingInv'
  <2>1. ASSUME NEW t \in Sessions, t # s, t[1] = l PROVE sess[t].rt # "running"
    BY <2>1 DEF IndInv, NoOrphanRuntime, s
  <2>2. \A t \in Sessions : t[1] \in Leases
    BY DEF Sessions
  <2> QED BY <2>1, <2>2, <1>1, <1>3, <1>6, <1>7 DEF ReleasingInv, IndInv
<1> QED BY <1>4, <1>8, <1>9, <1>10 DEF IndInv

-----------------------------------------------------------------------------
(* close().                                                                *)

(* Every step of close() keeps the invariant.                              *)
LEMMA CloserStepKeeps ==
    ASSUME IndInv, NEW c \in Closers, CloserStep(c)
    PROVE  IndInv'
<1>0. /\ RegistryInv /\ lease \in [Leases -> LeaseType] /\ TaskType
      /\ closer[c] \in CloserType /\ sessions \in SUBSET Sessions
  BY DEF IndInv, RegistryInv, RegistryType, TaskType
<1>1. ASSUME NEW reason \in CloseReasons, CloseBegins(c, reason)
      PROVE  IndInv'
  <2>0. reason \in {"server_shutdown", "model_switch"} /\ reason \in Reasons
    BY ConstantsAssumption DEF Reasons, CancelReasons
  <2>1. CASE closed /\ inFlight = 0
    <3>1. /\ UNCHANGED <<closed, registry, sess>>
          /\ closer' = [closer EXCEPT ![c] = [closer[c] EXCEPT !.pc = "done"]]
      BY <1>0, <1>1, <2>1 DEF CloseBegins, registry, TaskType
    <3>2. closer' \in [Closers -> CloserType]
      BY <1>0, <3>1 DEF TaskType, CloserType
    <3>3. RegistryInv' /\ \A t \in Sessions : Linked(t) => Linked(t)'
      BY <1>0, <3>1, UnchangedKeeps
    <3> QED BY <1>0, <3>1, <3>2, <3>3, SameSessions DEF TaskType, registry
  <2>2. CASE ~(closed /\ inFlight = 0)
    <3>1. /\ closed' = TRUE
          /\ closer' = [closer EXCEPT ![c] = [pc |-> "cancelling", pending |-> sessions,
                                              reason |-> reason]]
          /\ UNCHANGED <<inFlight, drained, leaseOf, sessOf, sessions, sess>>
          /\ lease' = [l \in Leases |->
                            IF Registered(l)
                            THEN [lease[l] EXCEPT
                                    !.reason = FirstReason(lease[l].reason, reason),
                                    !.terminated = TRUE]
                            ELSE lease[l]]
      BY <1>1, <2>2 DEF CloseBegins
    <3>2. closer' \in [Closers -> CloserType]
      BY <1>0, <2>0, <3>1 DEF TaskType, CloserType
    <3>3. closed' \in BOOLEAN
      BY <3>1, Zenon
    <3>4. ASSUME NEW l \in Leases
          PROVE  /\ lease'[l] \in LeaseType
                 /\ lease'[l].state = lease[l].state /\ lease'[l].id = lease[l].id
                 /\ lease'[l].session = lease[l].session
                 /\ lease'[l].releasing = lease[l].releasing
      <4>1. CASE ~Registered(l)
        BY <1>0, <3>1, <4>1
      <4>2. CASE Registered(l)
        <5>1. FirstReason(lease[l].reason, reason) \in Reasons /\ lease[l] \in LeaseType
          BY <1>0, <2>0 DEF FirstReason, LeaseType
        <5>2. lease'[l] = [lease[l] EXCEPT !.reason = FirstReason(lease[l].reason, reason),
                                           !.terminated = TRUE]
          BY <3>1, <4>2
        <5> QED BY <5>1, <5>2 DEF LeaseType
      <4> QED BY <4>1, <4>2
    <3>5. lease' \in [Leases -> LeaseType]
      BY <3>1, <3>4
    <3> QED BY <3>1, <3>2, <3>3, <3>4, <3>5, MarkingStep
  <2> QED BY <2>1, <2>2
<1>2. ASSUME NEW s \in Sessions, CloseCancels(c, s)
      PROVE  IndInv'
  <2>1. closer' = [closer EXCEPT ![c] = [closer[c] EXCEPT !.pending = @ \ {s}]]
    BY <1>0, <1>2 DEF CloseCancels, TaskType
  <2>2. closer' \in [Closers -> CloserType] /\ closed' \in BOOLEAN
    BY <1>0, <1>2, <2>1 DEF CloseCancels, TaskType, CloserType
  <2>3. CASE UNCHANGED <<sess, registry>>
    <3>1. RegistryInv' /\ \A t \in Sessions : Linked(t) => Linked(t)'
      BY <1>0, <2>3, UnchangedKeeps
    <3> QED BY <2>2, <2>3, <3>1, SameSessions DEF registry
  <2>4. CASE CancelCall(s, closer[c].reason, c)
    <3>1. closer[c].reason \in CancelReasons /\ c \in Cancellers \ {"release"}
      BY <1>0, ConstantsAssumption DEF CloserType, CancelReasons, Cancellers
    <3> QED BY <2>2, <2>4, <3>1, CancelCallKeeps
  <2> QED BY <1>2, <2>3, <2>4 DEF CloseCancels
<1>3. ASSUME CloseGathered(c) \/ CloseReturns(c)
      PROVE  IndInv'
  <2>1. /\ UNCHANGED <<closed, registry, sess>>
        /\ \E p \in {"draining", "done"} :
              closer' = [closer EXCEPT ![c] = [closer[c] EXCEPT !.pc = p]]
    BY <1>0, <1>3 DEF CloseGathered, CloseReturns, TaskType
  <2>2. closer' \in [Closers -> CloserType]
    BY <1>0, <2>1 DEF TaskType, CloserType
  <2>3. RegistryInv' /\ \A t \in Sessions : Linked(t) => Linked(t)'
    BY <1>0, <2>1, UnchangedKeeps
  <2> QED BY <1>0, <2>1, <2>2, <2>3, SameSessions DEF TaskType, registry
<1> QED BY <1>1, <1>2, <1>3 DEF CloserStep

-----------------------------------------------------------------------------
(* The invariant, and what it means.                                       *)

(* The initial state satisfies the invariant.                              *)
LEMMA InitIndInv == Init => IndInv
<1> SUFFICES ASSUME Init PROVE IndInv
  OBVIOUS
<1>1. UnusedLease \in LeaseType
  BY ConstantsAssumption DEF UnusedLease, LeaseType, Reasons
<1>2. UnusedSession \in SessionType
  BY DEF UnusedSession, SessionType, Reasons
<1>3. RegistryType
  BY <1>1 DEF Init, RegistryType
<1>4. TaskType
  BY <1>2 DEF Init, TaskType, CloserType
<1>5. LiveLeases = {} /\ \A l \in Leases : ~Registered(l) /\ lease[l] = UnusedLease
  BY ConstantsAssumption DEF Init, LiveLeases, Registered, UnusedLease
<1>6. CapacityExact
  BY <1>5, FS_EmptySet, ConstantsAssumption DEF CapacityExact, Init
<1>7. SessionOwned
  BY <1>5 DEF SessionOwned, UnusedLease
<1>8. RegistryLinked
  <2>1. sessions = {s \in Sessions : lease[s[1]].session = s}
    BY <1>5, ConstantsAssumption DEF Init, Sessions, UnusedLease
  <2> QED BY <1>5, <2>1 DEF RegistryLinked, Init
<1>9. \A s \in Sessions : sess[s] = UnusedSession
  BY DEF Init
<1>10. SessionsOK
  BY <1>9 DEF SessionsOK, SessionOK, UnusedSession, RuntimeReasons
<1>11. NoOrphanRuntime
  BY <1>9 DEF NoOrphanRuntime, UnusedSession
<1>12. ReleasingInv
  BY <1>9 DEF ReleasingInv, UnusedSession
<1> QED BY <1>3, <1>4, <1>6, <1>7, <1>8, <1>10, <1>11, <1>12 DEF IndInv, RegistryInv

(* Every step keeps the invariant.                                         *)
LEMMA NextIndInv == IndInv /\ [Next]_vars => IndInv'
<1> SUFFICES ASSUME IndInv, [Next]_vars PROVE IndInv'
  OBVIOUS
<1>1. ASSUME NEW l \in Leases, LeaseStep(l) PROVE IndInv'
  <2>1. CASE \E id \in ReqIds : Acquire(l, id)
    BY <2>1, AcquireKeeps
  <2>2. CASE DeadlinePasses(l) \/ SubmitLate(l)
    <3>1. lease[l].state # "unused"  =>  \E id \in ReqIds : TRUE
      <4>1. l \in LiveLeases \/ lease[l].id \in ReqIds => \E id \in ReqIds : TRUE
        BY DEF IndInv, RegistryInv, RegistryLinked, Registered
      <4> QED BY <2>2, <4>1 DEF DeadlinePasses, SubmitLate, MaySubmit, Registered, LiveLeases
    <3>2. \E id \in ReqIds : TRUE
      BY <2>2, <3>1 DEF DeadlinePasses, SubmitLate, MaySubmit, Registered
    <3> QED BY <2>2, <3>2, LeaseMarksKeep
  <2>3. CASE \E final \in BOOLEAN : Submit(l, final)
    BY <2>3, SubmitKeeps
  <2> QED BY <1>1, <2>1, <2>2, <2>3, ReleaseNowKeeps, ReleaseCancelsKeeps DEF LeaseStep
<1>2. ASSUME NEW id \in ReqIds, InjectText(id) PROVE IndInv'
  <2>1. leaseOf[id] \in Leases
    BY <1>2 DEF InjectText, IndInv, RegistryInv, RegistryType
  <2> QED BY <1>2, <2>1, LeaseMarksKeep
<1>3. ASSUME UNCHANGED vars PROVE IndInv'
  <2>1. RegistryInv' /\ \A t \in Sessions : Linked(t) => Linked(t)'
    BY <1>3, UnchangedKeeps DEF IndInv, vars
  <2> QED BY <1>3, <2>1, SameSessions DEF vars, registry, IndInv, TaskType
<1> QED
  BY <1>1, <1>2, <1>3, SessionStepKeeps, CloserStepKeeps DEF Next

(* The configuration does not change.                                      *)
LEMMA TimeoutFixed == [Next]_vars => timeout' = timeout
<1> SUFFICES ASSUME [Next]_vars PROVE timeout' = timeout
  OBVIOUS
<1>1. ASSUME NEW l \in Leases, LeaseStep(l) PROVE timeout' = timeout
  BY <1>1 DEF LeaseStep, Acquire, DeadlinePasses, SubmitLate, Submit, ReleaseNow, ReleaseCancels
<1>2. ASSUME NEW id \in ReqIds, InjectText(id) PROVE timeout' = timeout
  BY <1>2 DEF InjectText
<1>3. ASSUME NEW s \in Sessions, SessionStep(s) PROVE timeout' = timeout
  BY <1>3 DEF SessionStep, NextAfterDeadline, NextBegins, NextReturns, NextTaskDone,
              NextTaskDelivered, DeadlineFires, TaskCancelled, DirectTaskCancelled,
              UnwindEnds, ClientCancel, CancelReturns, CancelRaises
<1>4. ASSUME NEW c \in Closers, CloserStep(c) PROVE timeout' = timeout
  BY <1>4 DEF CloserStep, CloseBegins, CloseCancels, CloseGathered, CloseReturns
<1>5. ASSUME UNCHANGED vars PROVE timeout' = timeout
  BY <1>5 DEF vars
<1> QED BY <1>1, <1>2, <1>3, <1>4, <1>5 DEF Next

(* The types of the controller's state are kept: in particular the         *)
(* in-flight counter never becomes negative, which _release_lease_locked   *)
(* only guards with a defensive exception.                                 *)
THEOREM TypeCorrect == Spec => []TypeOK
<1>1. IndInv /\ timeout \in BOOLEAN => TypeOK
  BY DEF IndInv, RegistryInv, RegistryType, TaskType, TypeOK
<1>2. Init => timeout \in BOOLEAN
  BY ConstantsAssumption DEF Init
<1>3. timeout \in BOOLEAN /\ [Next]_vars => (timeout \in BOOLEAN)'
  BY TimeoutFixed
<1> QED BY <1>1, <1>2, <1>3, InitIndInv, NextIndInv, PTL DEF Spec

(* The in-flight counter counts exactly the leases that hold a slot, stays *)
(* within the capacity, and agrees with the drained event.                 *)
THEOREM CapacityCorrect == Spec => []CapacityExact
<1>1. IndInv => CapacityExact
  BY DEF IndInv, RegistryInv
<1> QED BY <1>1, InitIndInv, NextIndInv, PTL DEF Spec

(* The registries of leases and sessions agree with the leases.            *)
THEOREM RegistryCorrect == Spec => []RegistryLinked
<1>1. IndInv => RegistryLinked
  BY DEF IndInv, RegistryInv
<1> QED BY <1>1, InitIndInv, NextIndInv, PTL DEF Spec

(* No path of __anext__, cancel, release or close gives a slot back and    *)
(* leaves the runtime job running unasked.                                 *)
THEOREM NoOrphanCorrect == Spec => []NoOrphanRuntime
<1>1. IndInv => NoOrphanRuntime
  BY DEF IndInv
<1> QED BY <1>1, InitIndInv, NextIndInv, PTL DEF Spec

(* The recorded terminal reason tells whether the attempt was cancelled.   *)
THEOREM ReasonCorrect == Spec => []ReasonMatchesOutcome
<1>1. IndInv => ReasonMatchesOutcome
  BY DEF IndInv, SessionsOK, SessionOK, ReasonMatchesOutcome
<1> QED BY <1>1, InitIndInv, NextIndInv, PTL DEF Spec

-----------------------------------------------------------------------------
(* The model manager.                                                      *)

PoolType == [closed : BOOLEAN, free : 0..LaneCount]
BundleType == [model : Models, runtime : {"loading", "live", "closed", "left"},
               admits : BOOLEAN, drained : BOOLEAN, pool : PoolType]
AdminType == [pc : {"idle", "queued", "done"} \cup Holding, op : Ops, model : Models,
              victim : 0..MaxBundles, err : BOOLEAN]
SubType == [pc : {"idle", "session", "done"} \cup Submitting, b : 0..MaxBundles,
            cancelled : BOOLEAN]

(* Positions of a task that is tearing a bundle down.                      *)
Closing == {"controller", "quiesce", "runtime"}
(* Positions of a task whose request holds a lease of a controller.        *)
Leasing == Submitting \cup {"session"}

(* The types that the argument uses: a lease and a teardown are of a       *)
(* bundle that was built.                                                  *)
TypeInv ==
    /\ state \in States
    /\ bundles \in Seq(BundleType) /\ Len(bundles) \in Bundles
    /\ bundle \in {0} \cup Built
    /\ adm \in [Admins -> AdminType]
    /\ sub \in [Subs -> SubType]
    /\ \A s \in Subs : sub[s].pc \in Leasing => sub[s].b \in Built
    /\ \A a \in Admins : adm[a].pc \in Closing => adm[a].victim \in Built

(* The transition lock has one holder, and while it is held the manager    *)
(* neither is ready nor can be loaded.                                     *)
LockInv ==
    /\ \A a, c \in Admins : adm[a].pc \in Holding /\ adm[c].pc \in Holding => a = c
    /\ \A a \in Admins : adm[a].pc \in Holding => state \notin {"READY", "UNLOADED", "ERROR"}

Owned(b) == bundles[b].runtime \in {"loading", "live"}

(* Who answers for the runtime that is there: the task that tears its      *)
(* bundle down, the one that builds it, or the manager.                    *)
CloserOwns(a) ==
    /\ bundle \in {0, adm[a].victim}
    /\ bundles[adm[a].victim].runtime = "live"
    /\ ~bundles[adm[a].victim].admits
    /\ adm[a].pc = "runtime" => bundles[adm[a].victim].pool.closed
    /\ \A b \in Built : Owned(b) => b = adm[a].victim

BuilderOwns ==
    /\ bundle = 0
    /\ bundles[Len(bundles)].runtime = "loading"
    /\ bundles[Len(bundles)].admits /\ ~bundles[Len(bundles)].pool.closed
    /\ \A b \in Built : Owned(b) => b = Len(bundles)

ManagerOwns == \A b \in Built : Owned(b) => b = bundle

(* What the manager promises of its bundle, whoever holds the lock.        *)
BundleInv ==
    /\ bundle # 0 => bundles[bundle].runtime = "live"
    /\ state = "UNLOADED" => bundle = 0
    /\ state = "READY" => /\ bundle # 0
                          /\ bundles[bundle].admits /\ ~bundles[bundle].pool.closed

OwnerInv ==
    /\ (\A a \in Admins : adm[a].pc \notin Holding) => ManagerOwns
    /\ \A a \in Admins : adm[a].pc \in Closing => CloserOwns(a)
    /\ \A a \in Admins : adm[a].pc = "build" => BuilderOwns
    /\ BundleInv

(* What a leased bundle still has.                                         *)
LeaseInv ==
    /\ \A s \in Subs : sub[s].pc \in Submitting =>
          bundles[sub[s].b].runtime = "live" /\ ~bundles[sub[s].b].pool.closed
    /\ \A s \in Subs : sub[s].pc \in Leasing => ~bundles[sub[s].b].drained
    /\ \A b \in Built : bundles[b].drained => ~bundles[b].admits

Inside == {s \in Subs : sub[s].pc \in Submitting}
CountInv == active = Cardinality(Inside)

Busy(b) == {s \in Subs : sub[s].pc = "rendering" /\ sub[s].b = b}
LanesExact(b) ==
    IF bundles[b].pool.closed THEN Busy(b) = {} /\ bundles[b].pool.free = 0
    ELSE bundles[b].pool.free + Cardinality(Busy(b)) = LaneCount
PoolInv == \A b \in Built : LanesExact(b)

(* The inductive invariant.                                                *)
ManagerInv == TypeInv /\ LockInv /\ OwnerInv /\ LeaseInv /\ CountInv /\ PoolInv

-----------------------------------------------------------------------------
(* Replacing one bundle replaces that bundle only.                         *)
LEMMA BundleReplaced ==
    ASSUME TypeInv, NEW b \in Built, NEW r \in BundleType,
           bundles' = [bundles EXCEPT ![b] = r]
    PROVE  /\ bundles' \in Seq(BundleType) /\ Len(bundles') = Len(bundles)
           /\ bundles'[b] = r
           /\ \A c \in Built : c # b => bundles'[c] = bundles[c]
<1>1. b \in 1..Len(bundles) /\ bundles \in Seq(BundleType)
  BY DEF TypeInv, Built
<1> QED
  BY <1>1 DEF Built

(* A bundle that is built comes last and leaves the others as they were.   *)
LEMMA BundleBuilt ==
    ASSUME TypeInv, NEW s \in Seq(BundleType), NEW r \in BundleType
    PROVE  /\ Append(s, r) \in Seq(BundleType) /\ Len(Append(s, r)) = Len(s) + 1
           /\ Append(s, r)[Len(s) + 1] = r
           /\ \A c \in 1..Len(s) : Append(s, r)[c] = s[c]
  OBVIOUS

(* What is unaffected by a step of a submission that at most moves lanes.  *)
LEMMA OwnerKept ==
    ASSUME ManagerInv, UNCHANGED <<state, bundle, adm>>, Len(bundles') = Len(bundles),
           \A b \in Built : /\ bundles'[b].runtime = bundles[b].runtime
                            /\ bundles'[b].admits = bundles[b].admits
                            /\ bundles'[b].pool.closed = bundles[b].pool.closed
    PROVE  LockInv' /\ OwnerInv'
<1>1. LockInv'
  BY DEF ManagerInv, LockInv
<1>2. \A b \in Built : Owned(b)' <=> Owned(b)
  BY DEF Owned
<1>3. Len(bundles) \in Built
  BY DEF ManagerInv, TypeInv, Built, Bundles
<1>4. /\ \A a \in Admins : adm[a].pc \in Closing /\ CloserOwns(a) => CloserOwns(a)'
      /\ BuilderOwns => BuilderOwns'
      /\ ManagerOwns => ManagerOwns'
      /\ BundleInv => BundleInv'
  BY <1>2, <1>3 DEF ManagerInv, TypeInv, Built, CloserOwns, BuilderOwns, ManagerOwns, BundleInv
<1>5. OwnerInv'
  BY <1>4 DEF ManagerInv, OwnerInv
<1> QED
  BY <1>1, <1>5

(* The tasks inside the manager are counted one by one.                    *)
LEMMA InsideCounted ==
    ASSUME ManagerInv, NEW s \in Subs, sub' = [sub EXCEPT ![s] = sub'[s]],
           active' = IF sub[s].pc \in Submitting
                     THEN IF sub'[s].pc \in Submitting THEN active ELSE active - 1
                     ELSE IF sub'[s].pc \in Submitting THEN active + 1 ELSE active
    PROVE  CountInv'
<1>1. \A r \in Subs : r # s => sub'[r] = sub[r]
  BY DEF ManagerInv, TypeInv
<1>2. IsFiniteSet(Inside) /\ Cardinality(Inside) \in Nat
  BY FS_Subset, FS_CardinalityType, ManagerAssumption DEF Inside
<1>3. CASE sub[s].pc \in Submitting /\ sub'[s].pc \in Submitting
  <2>1. Inside' = Inside
    BY <1>1, <1>3 DEF Inside
  <2> QED
    BY <1>3, <2>1 DEF ManagerInv, CountInv
<1>4. CASE sub[s].pc \in Submitting /\ sub'[s].pc \notin Submitting
  <2>1. s \in Inside /\ Inside' = Inside \ {s}
    BY <1>1, <1>4 DEF Inside
  <2>2. Cardinality(Inside') = Cardinality(Inside) - 1
    BY <1>2, <2>1, FS_RemoveElement
  <2> QED
    BY <1>4, <2>2 DEF ManagerInv, CountInv
<1>5. CASE sub[s].pc \notin Submitting /\ sub'[s].pc \in Submitting
  <2>1. s \notin Inside /\ Inside' = Inside \cup {s}
    BY <1>1, <1>5 DEF Inside
  <2>2. Cardinality(Inside') = Cardinality(Inside) + 1
    BY <1>2, <2>1, FS_AddElement
  <2> QED
    BY <1>5, <2>2 DEF ManagerInv, CountInv
<1>6. CASE sub[s].pc \notin Submitting /\ sub'[s].pc \notin Submitting
  <2>1. Inside' = Inside
    BY <1>1, <1>6 DEF Inside
  <2> QED
    BY <1>6, <2>1 DEF ManagerInv, CountInv
<1> QED
  BY <1>3, <1>4, <1>5, <1>6

(* Nobody is inside the manager once the count is zero.                    *)
LEMMA QuiescedIsEmpty ==
    ASSUME ManagerInv, active = 0
    PROVE  \A s \in Subs : sub[s].pc \notin Submitting
<1>1. IsFiniteSet(Inside)
  BY FS_Subset, ManagerAssumption DEF Inside
<1>2. Inside = {}
  BY <1>1, FS_EmptySet DEF ManagerInv, CountInv
<1> QED
  BY <1>2 DEF Inside

(* A submission that touches no lane.                                      *)
LEMMA SubMoves ==
    ASSUME ManagerInv, NEW s \in Subs, UNCHANGED <<state, bundle, bundles, adm>>,
           sub' = [sub EXCEPT ![s] = sub'[s]], sub'[s] \in SubType, CountInv',
           sub'[s].pc = "rendering" <=> sub[s].pc = "rendering",
           sub[s].pc = "rendering" => sub'[s].b = sub[s].b,
           sub'[s].pc \in Submitting =>
               /\ sub'[s].b \in Built
               /\ bundles[sub'[s].b].runtime = "live" /\ ~bundles[sub'[s].b].pool.closed,
           sub'[s].pc \in Leasing => sub'[s].b \in Built /\ ~bundles[sub'[s].b].drained
    PROVE  ManagerInv'
<1>1. \A r \in Subs : r # s => sub'[r] = sub[r]
  BY DEF ManagerInv, TypeInv
<1>2. TypeInv'
  BY <1>1 DEF ManagerInv, TypeInv, Leasing, Built
<1>3. LockInv' /\ OwnerInv'
  BY OwnerKept
<1>4. LeaseInv'
  BY <1>1 DEF ManagerInv, TypeInv, LeaseInv, Leasing, Built
<1>5. \A b \in Built : Busy(b)' = Busy(b)
  BY <1>1 DEF Busy
<1>6. PoolInv'
  BY <1>5 DEF ManagerInv, PoolInv, LanesExact, Built
<1> QED
  BY <1>2, <1>3, <1>4, <1>6 DEF ManagerInv

(* A submission that takes or gives back a lane of its bundle.             *)
LEMMA LaneMoves ==
    ASSUME ManagerInv, NEW s \in Subs, UNCHANGED <<state, bundle, adm>>,
           sub[s].pc \in Submitting,
           sub' = [sub EXCEPT ![s] = sub'[s]], sub'[s] \in SubType, CountInv',
           sub'[s].pc \in Submitting \cup {"done"}, sub'[s].b = sub[s].b,
           NEW r \in PoolType, ~r.closed,
           bundles' = [bundles EXCEPT ![sub[s].b].pool = r],
           r.free + Cardinality(Busy(sub[s].b)') = LaneCount
    PROVE  ManagerInv'
<1> DEFINE b == sub[s].b
<1>1. b \in Built /\ bundles[b] \in BundleType
  BY DEF ManagerInv, TypeInv, Leasing, Built
<1>2. [bundles[b] EXCEPT !.pool = r] \in BundleType
  BY <1>1 DEF BundleType
<1>3. bundles' = [bundles EXCEPT ![b] = [bundles[b] EXCEPT !.pool = r]]
  OBVIOUS
<1>4. /\ bundles' \in Seq(BundleType) /\ Len(bundles') = Len(bundles)
      /\ bundles'[b] = [bundles[b] EXCEPT !.pool = r]
      /\ \A c \in Built : c # b => bundles'[c] = bundles[c]
  BY <1>1, <1>2, <1>3, BundleReplaced DEF ManagerInv
<1>5. bundles'[b].pool = r /\ bundles'[b].runtime = bundles[b].runtime
      /\ bundles'[b].admits = bundles[b].admits /\ bundles'[b].drained = bundles[b].drained
  BY <1>1, <1>4 DEF BundleType
<1>6. ~bundles[b].pool.closed /\ bundles[b].runtime = "live"
  BY DEF ManagerInv, LeaseInv
<1>7. \A c \in Built : /\ bundles'[c].runtime = bundles[c].runtime
                       /\ bundles'[c].admits = bundles[c].admits
                       /\ bundles'[c].drained = bundles[c].drained
                       /\ bundles'[c].pool.closed = bundles[c].pool.closed
  <2> TAKE c \in Built
  <2>1. ~r.closed <=> ~bundles[b].pool.closed
    BY <1>6
  <2>2. r.closed \in BOOLEAN /\ bundles[b].pool.closed \in BOOLEAN
    BY <1>1 DEF PoolType, BundleType
  <2> QED
    BY <1>4, <1>5, <2>1, <2>2
<1>8. \A q \in Subs : q # s => sub'[q] = sub[q]
  BY DEF ManagerInv, TypeInv
<1>9. TypeInv'
  BY <1>1, <1>4, <1>8 DEF ManagerInv, TypeInv, Leasing, Submitting, Built
<1>10. LockInv' /\ OwnerInv'
  BY <1>4, <1>7, OwnerKept
<1>11. LeaseInv'
  <2>1. \A q \in Subs : sub'[q].b = sub[q].b /\ (sub'[q].pc \in Submitting => sub[q].pc \in Submitting)
                        /\ (sub'[q].pc \in Leasing => sub[q].pc \in Leasing)
    BY <1>8 DEF Leasing, Submitting
  <2>2. \A q \in Subs : sub[q].pc \in Leasing => sub[q].b \in Built
    BY DEF ManagerInv, TypeInv
  <2> QED
    BY <1>4, <1>7, <2>1, <2>2 DEF ManagerInv, LeaseInv, Leasing, Built
<1>12. \A c \in Built : c # b => Busy(c)' = Busy(c)
  BY <1>8 DEF Busy
<1>13. PoolInv'
  <2> SUFFICES ASSUME NEW c \in Built PROVE LanesExact(c)'
    BY <1>4 DEF PoolInv, Built
  <2>1. CASE c = b
    BY <1>5, <2>1 DEF LanesExact
  <2>2. CASE c # b
    BY <1>4, <1>12, <2>2 DEF LanesExact, ManagerInv, PoolInv
  <2> QED
    BY <2>1, <2>2
<1> QED
  BY <1>9, <1>10, <1>11, <1>13 DEF ManagerInv

(* The steps of a submission.                                              *)
LEMMA SubStep ==
    ASSUME ManagerInv, NEW s \in Subs,
           \/ AcquireLease(s) \/ SubRuns(s) \/ SubCancelled(s) \/ SessionEnds(s)
    PROVE  ManagerInv'
<1> USE DEF Submitting
<1>0. /\ sub \in [Subs -> SubType] /\ bundle \in {0} \cup Built
      /\ sub[s].pc \in Leasing => sub[s].b \in Built /\ ~bundles[sub[s].b].drained
      /\ sub[s].pc \in Submitting =>
            bundles[sub[s].b].runtime = "live" /\ ~bundles[sub[s].b].pool.closed
  BY DEF ManagerInv, TypeInv, LeaseInv
<1>00. Built \subseteq 0..MaxBundles /\ 0 \in 0..MaxBundles
  BY ManagerAssumption DEF ManagerInv, TypeInv, Built, Bundles
<1>000. \A b \in Built : bundles[b] \in BundleType
  BY DEF ManagerInv, TypeInv, Built
<1>1. CASE AcquireLease(s)
  <2>1. CASE /\ MayAcquire /\ Acquired
             /\ sub' = [sub EXCEPT ![s] = [@ EXCEPT !.pc = "lane", !.b = bundle]]
    <3>1. sub'[s] = [sub[s] EXCEPT !.pc = "lane", !.b = bundle]
      BY <1>0, <2>1
    <3>2. sub'[s] \in SubType /\ sub'[s].pc = "lane" /\ sub'[s].b = bundle
      BY <1>0, <1>00, <3>1 DEF SubType
    <3>3. sub[s].pc = "idle"
      BY <1>1 DEF AcquireLease
    <3>4. CountInv'
      BY <2>1, <3>1, <3>2, <3>3, InsideCounted DEF Acquired
    <3>5. /\ bundle \in Built /\ bundles[bundle].runtime = "live"
          /\ ~bundles[bundle].pool.closed /\ ~bundles[bundle].drained
      BY <1>0, <2>1 DEF MayAcquire, ManagerInv, OwnerInv, BundleInv, LeaseInv
    <3> QED
      BY <1>1, <2>1, <3>1, <3>2, <3>3, <3>4, <3>5, SubMoves DEF AcquireLease, Leasing
  <2>2. CASE sub' = [sub EXCEPT ![s].pc = "done"] /\ UNCHANGED active
    <3>1. /\ sub'[s] = [sub[s] EXCEPT !.pc = "done"] /\ sub'[s] \in SubType
          /\ sub'[s].pc = "done" /\ sub[s].pc = "idle"
      BY <1>0, <1>1, <2>2 DEF SubType, AcquireLease
    <3>2. CountInv'
      BY <2>2, <3>1, InsideCounted
    <3> QED
      BY <1>1, <2>2, <3>1, <3>2, SubMoves DEF AcquireLease, Leasing
  <2> QED
    BY <1>1, <2>1, <2>2 DEF AcquireLease
<1>2. CASE TakeLane(s)
  <2> DEFINE pool == bundles[sub[s].b].pool
  <2>1. /\ sub'[s] = [sub[s] EXCEPT !.pc = "rendering"] /\ sub'[s] \in SubType
        /\ sub'[s].pc = "rendering" /\ sub[s].pc = "lane" /\ sub'[s].b = sub[s].b
    BY <1>0, <1>2 DEF SubType, TakeLane
  <2>2. CountInv'
    BY <1>2, <2>1, InsideCounted DEF TakeLane
  <2>3. sub[s].b \in Built /\ pool \in PoolType /\ ~pool.closed
    BY <1>0, <1>000, <2>1 DEF Leasing, BundleType
  <2>4. Leased(pool) \in PoolType /\ ~Leased(pool).closed /\ Leased(pool).free = pool.free - 1
    BY <1>2, <2>3, LaneAssumption DEF TakeLane, Leased, CanLease, PoolType
  <2>5. s \notin Busy(sub[s].b) /\ Busy(sub[s].b)' = Busy(sub[s].b) \cup {s}
    BY <1>0, <1>2, <2>1 DEF Busy, TakeLane
  <2>6. IsFiniteSet(Busy(sub[s].b)) /\ Cardinality(Busy(sub[s].b)) \in Nat
    BY FS_Subset, FS_CardinalityType, ManagerAssumption DEF Busy
  <2>7. Cardinality(Busy(sub[s].b)') = Cardinality(Busy(sub[s].b)) + 1
    BY <2>5, <2>6, FS_AddElement
  <2>8. pool.free + Cardinality(Busy(sub[s].b)) = LaneCount
    BY <2>3 DEF ManagerInv, PoolInv, LanesExact
  <2>9. Leased(pool).free + Cardinality(Busy(sub[s].b)') = LaneCount
    BY <2>3, <2>4, <2>6, <2>7, <2>8 DEF PoolType
  <2>10. bundles' = [bundles EXCEPT ![sub[s].b].pool = Leased(pool)]
    BY <1>2 DEF TakeLane
  <2> HIDE DEF pool
  <2> QED
    BY <1>2, <2>1, <2>2, <2>4, <2>9, <2>10, LaneMoves DEF TakeLane
<1>3. ASSUME NEW more \in BOOLEAN, RenderDone(s, more) PROVE ManagerInv'
  <2> DEFINE pool == bundles[sub[s].b].pool
  <2>1. /\ sub' = [sub EXCEPT ![s] = sub'[s]] /\ sub'[s] \in SubType
        /\ sub'[s].pc \in {"submitting", "done"} /\ sub[s].pc = "rendering"
        /\ sub'[s].b = sub[s].b
    BY <1>0, <1>3 DEF SubType, RenderDone
  <2>2. CountInv'
    <3>1. active' = IF sub'[s].pc \in Submitting THEN active ELSE active - 1
      BY <1>0, <1>3 DEF RenderDone, Released, SubType
    <3> QED
      BY <2>1, <3>1, InsideCounted
  <2>3. sub[s].b \in Built /\ pool \in PoolType /\ ~pool.closed
    BY <1>0, <1>000, <2>1 DEF Leasing, BundleType
  <2>5. s \in Busy(sub[s].b) /\ Busy(sub[s].b)' = Busy(sub[s].b) \ {s}
    BY <1>0, <2>1 DEF Busy
  <2>6. IsFiniteSet(Busy(sub[s].b)) /\ Cardinality(Busy(sub[s].b)) \in Nat
    BY FS_Subset, FS_CardinalityType, ManagerAssumption DEF Busy
  <2>7. /\ Cardinality(Busy(sub[s].b)') = Cardinality(Busy(sub[s].b)) - 1
        /\ Cardinality(Busy(sub[s].b)) # 0
    BY <2>5, <2>6, FS_RemoveElement, FS_EmptySet
  <2>8. pool.free + Cardinality(Busy(sub[s].b)) = LaneCount
    BY <2>3 DEF ManagerInv, PoolInv, LanesExact
  <2>4. Returned(pool) \in PoolType /\ ~Returned(pool).closed /\ Returned(pool).free = pool.free + 1
    BY <2>3, <2>6, <2>7, <2>8, LaneAssumption DEF Returned, PoolType
  <2>9. Returned(pool).free + Cardinality(Busy(sub[s].b)') = LaneCount
    BY <2>3, <2>4, <2>6, <2>7, <2>8 DEF PoolType
  <2>10. bundles' = [bundles EXCEPT ![sub[s].b].pool = Returned(pool)]
    BY <1>3 DEF RenderDone
  <2> HIDE DEF pool
  <2> QED
    BY <1>3, <2>1, <2>2, <2>4, <2>9, <2>10, LaneMoves DEF RenderDone
<1>4. ASSUME NEW ok \in BOOLEAN, SubmitDone(s, ok) PROVE ManagerInv'
  <2>1. /\ sub' = [sub EXCEPT ![s] = sub'[s]] /\ sub'[s] \in SubType
        /\ sub'[s].pc \in {"session", "done"} /\ sub[s].pc = "submitting"
        /\ sub'[s].b = sub[s].b
    BY <1>0, <1>4 DEF SubType, SubmitDone
  <2>2. CountInv'
    BY <1>4, <2>1, InsideCounted DEF SubmitDone, Released
  <2> QED
    BY <1>0, <1>4, <2>1, <2>2, SubMoves DEF SubmitDone, Leasing
<1>5. CASE SubCancelled(s)
  <2>1. /\ sub' = [sub EXCEPT ![s] = sub'[s]] /\ sub'[s] \in SubType
        /\ sub'[s].b = sub[s].b /\ sub[s].pc \in Submitting
        /\ sub'[s].pc = IF sub[s].pc = "rendering" THEN "rendering" ELSE "done"
    <3>1. CASE sub[s].pc = "rendering"
      <4>1. sub' = [sub EXCEPT ![s].cancelled = TRUE]
        BY <1>5, <3>1 DEF SubCancelled
      <4> QED
        BY <1>0, <3>1, <4>1 DEF SubType
    <3>2. CASE sub[s].pc # "rendering"
      <4>1. sub' = [sub EXCEPT ![s].pc = "done"] /\ sub[s].pc \in Submitting
        BY <1>5, <3>2 DEF SubCancelled
      <4> QED
        BY <1>0, <3>2, <4>1 DEF SubType
    <3> QED
      BY <3>1, <3>2
  <2>2. CountInv'
    <3>1. active' = IF sub[s].pc = "rendering" THEN active ELSE active - 1
      BY <1>5 DEF SubCancelled, Released
    <3> QED
      BY <2>1, <3>1, InsideCounted
  <2> QED
    BY <1>0, <1>5, <2>1, <2>2, SubMoves DEF SubCancelled, Leasing
<1>6. CASE SessionEnds(s)
  <2>1. /\ sub' = [sub EXCEPT ![s] = sub'[s]] /\ sub'[s] \in SubType
        /\ sub'[s].pc = "done" /\ sub[s].pc = "session"
    BY <1>0, <1>6 DEF SubType, SessionEnds
  <2>2. CountInv'
    BY <1>6, <2>1, InsideCounted DEF SessionEnds
  <2> QED
    BY <1>6, <2>1, <2>2, SubMoves DEF SessionEnds, Leasing
<1> QED
  BY <1>1, <1>2, <1>3, <1>4, <1>5, <1>6 DEF SubRuns

(* What a step of a transition has to be checked for: who owns the runtime *)
(* afterwards, and that a bundle in use keeps its runtime and its lanes.   *)
LEMMA TransitionStep ==
    ASSUME ManagerInv, NEW a \in Admins, UNCHANGED <<sub, active>>,
           adm' = [adm EXCEPT ![a] = adm'[a]], adm'[a] \in AdminType,
           \A c \in Admins : c # a => adm[c].pc \notin Holding,
           state' \in States, bundles' \in Seq(BundleType), Len(bundles') \in Bundles,
           Len(bundles) <= Len(bundles'), bundle' \in {0} \cup Built',
           adm'[a].pc \in Closing => adm'[a].victim \in Built',
           adm'[a].pc \in Holding => state' \notin {"READY", "UNLOADED", "ERROR"},
           adm'[a].pc \notin Holding => ManagerOwns',
           adm'[a].pc \in Closing => CloserOwns(a)',
           adm'[a].pc = "build" => BuilderOwns',
           BundleInv',
           \A b \in Built :
              \/ /\ bundles'[b].runtime = bundles[b].runtime
                 /\ bundles'[b].pool = bundles[b].pool
              \/ /\ \A s \in Subs : sub[s].pc \in Submitting => sub[s].b # b
                 /\ bundles'[b].pool \in {bundles[b].pool, PoolClosed(bundles[b].pool)},
           \A b \in Built : bundles'[b].drained =>
              bundles[b].drained \/ LeasesOf(b) = {},
           \A b \in Built' : bundles'[b].drained => ~bundles'[b].admits,
           \A b \in Built' \ Built : bundles'[b].pool = NewPool
    PROVE  ManagerInv'
<1>1. \A c \in Admins : c # a => adm'[c] = adm[c]
  BY DEF ManagerInv, TypeInv
<1>2. Built \subseteq Built'
  BY DEF ManagerInv, TypeInv, Built, Bundles
<1>3. TypeInv'
  <2>1. \A c \in Admins : adm'[c].pc \in Closing => adm'[c].victim \in Built'
    BY <1>1 DEF Closing, Holding
  <2>2. \A s \in Subs : sub'[s].pc \in Leasing => sub'[s].b \in Built'
    BY <1>2 DEF ManagerInv, TypeInv
  <2>3. adm' \in [Admins -> AdminType] /\ sub' \in [Subs -> SubType]
    BY DEF ManagerInv, TypeInv
  <2> QED
    BY <2>1, <2>2, <2>3 DEF TypeInv
<1>4. LockInv'
  BY <1>1 DEF LockInv
<1>5. OwnerInv'
  <2>1. \A c \in Admins : c # a => adm'[c].pc \notin Holding
    BY <1>1
  <2>2. Closing \subseteq Holding /\ "build" \in Holding
    BY DEF Closing, Holding
  <2> QED
    BY <2>1, <2>2 DEF OwnerInv
<1>6. LeaseInv'
  <2>1. \A s \in Subs : sub[s].pc \in Leasing => sub[s].b \in Built
    BY DEF ManagerInv, TypeInv
  <2>2. ASSUME NEW s \in Subs, sub[s].pc \in Submitting
        PROVE  bundles'[sub[s].b].runtime = "live" /\ ~bundles'[sub[s].b].pool.closed
    BY <2>1, <2>2 DEF Leasing, ManagerInv, LeaseInv
  <2>3. ASSUME NEW s \in Subs, sub[s].pc \in Leasing
        PROVE  ~bundles'[sub[s].b].drained
    BY <2>1, <2>3 DEF Leasing, ManagerInv, LeaseInv, LeasesOf
  <2> QED
    BY <2>2, <2>3 DEF LeaseInv
<1>7. CountInv'
  BY DEF ManagerInv, CountInv, Inside
<1>8. PoolInv'
  <2> SUFFICES ASSUME NEW b \in Built' PROVE LanesExact(b)'
    BY DEF PoolInv
  <2>0. Busy(b)' = Busy(b)
    BY DEF Busy
  <2>1. CASE b \in Built /\ bundles'[b].pool = bundles[b].pool
    BY <2>0, <2>1 DEF LanesExact, ManagerInv, PoolInv
  <2>2. CASE b \in Built /\ bundles'[b].pool # bundles[b].pool
    <3>1. bundles'[b].pool = PoolClosed(bundles[b].pool) /\ Busy(b) = {}
      BY <2>2 DEF Busy, Submitting
    <3> QED
      BY <2>0, <3>1 DEF LanesExact, PoolClosed
  <2>3. CASE b \notin Built
    <3>1. Busy(b) = {}
      BY <2>3 DEF Busy, ManagerInv, TypeInv, Leasing, Submitting
    <3>2. bundles'[b].pool = NewPool
      BY <2>3
    <3> QED
      BY <2>0, <3>1, <3>2, FS_EmptySet, LaneAssumption DEF LanesExact, NewPool
  <2> QED
    BY <2>1, <2>2, <2>3
<1> QED
  BY <1>3, <1>4, <1>5, <1>6, <1>7, <1>8 DEF ManagerInv

(* A task that does not hold the lock, before or after the step.           *)
LEMMA WaiterStep ==
    ASSUME ManagerInv, NEW a \in Admins, UNCHANGED <<state, bundle, bundles, active, sub>>,
           adm' = [adm EXCEPT ![a] = adm'[a]], adm'[a] \in AdminType,
           adm[a].pc \notin Holding, adm'[a].pc \notin Holding
    PROVE  ManagerInv'
<1>1. \A c \in Admins : c # a => adm'[c] = adm[c]
  BY DEF ManagerInv, TypeInv
<1>2. /\ \A c \in Admins : (adm'[c].pc \in Holding <=> adm[c].pc \in Holding)
      /\ \A c \in Admins : adm'[c].pc \in Holding => adm'[c] = adm[c]
  BY <1>1
<1>3. Closing \subseteq Holding /\ "build" \in Holding
  BY DEF Closing, Holding
<1>4. TypeInv'
  BY <1>2, <1>3 DEF ManagerInv, TypeInv, Built
<1>5. LockInv'
  BY <1>2 DEF ManagerInv, LockInv
<1>6. /\ \A c \in Admins : adm'[c].pc \in Closing /\ CloserOwns(c) => CloserOwns(c)'
      /\ BuilderOwns => BuilderOwns'
      /\ ManagerOwns => ManagerOwns'
      /\ BundleInv => BundleInv'
  BY <1>2, <1>3 DEF CloserOwns, BuilderOwns, ManagerOwns, BundleInv, Owned, Built
<1>7. OwnerInv'
  BY <1>2, <1>3, <1>6 DEF ManagerInv, OwnerInv
<1>8. LeaseInv' /\ CountInv' /\ PoolInv'
  BY DEF ManagerInv, LeaseInv, CountInv, PoolInv, Inside, Busy, LanesExact, Built
<1> QED
  BY <1>4, <1>5, <1>7, <1>8 DEF ManagerInv

-----------------------------------------------------------------------------
(* The steps of a transition, one lemma for each that changes the bundles. *)

(* A load has its turn, with no bundle in its way.                         *)
LEMMA LoadBeginsStep ==
    ASSUME ManagerInv, NEW a \in Admins, LoadBegins(a)
    PROVE  ManagerInv'
<1> DEFINE new == NewBundle(adm[a].model, "loading")
<1>1. /\ \A c \in Admins : adm[c].pc \notin Holding
      /\ MayLoad /\ state' = "LOADING" /\ bundle' = 0 /\ UNCHANGED <<active, sub>>
      /\ Len(bundles) < MaxBundles /\ bundles' = Append(bundles, new)
      /\ adm' = [adm EXCEPT ![a].pc = "build"]
  BY DEF LoadBegins, HasTurn, Starts, BuildStarts
<1>2. /\ adm'[a] = [adm[a] EXCEPT !.pc = "build"] /\ adm'[a] \in AdminType
      /\ adm'[a].pc = "build"
  BY <1>1 DEF ManagerInv, TypeInv, AdminType, Holding
<1>3. bundle = 0 /\ ManagerOwns
  BY <1>1 DEF MayLoad, ManagerInv, OwnerInv, BundleInv
<1>4. new \in BundleType
  BY LaneAssumption DEF NewBundle, BundleType, PoolType, NewPool, ManagerInv, TypeInv, AdminType
<1>5. /\ bundles \in Seq(BundleType) /\ Len(bundles) \in Bundles
  BY DEF ManagerInv, TypeInv
<1>6. /\ bundles' \in Seq(BundleType) /\ Len(bundles') = Len(bundles) + 1
      /\ bundles'[Len(bundles')] = new
      /\ \A b \in Built : bundles'[b] = bundles[b]
  BY <1>1, <1>4, <1>5, BundleBuilt DEF Built, ManagerInv
<1>7. Len(bundles') \in Bundles /\ Len(bundles) <= Len(bundles')
      /\ Built' = Built \cup {Len(bundles')} /\ Len(bundles') \notin Built
  BY <1>1, <1>5, <1>6, ManagerAssumption DEF Bundles, Built
<1>8. /\ new.runtime = "loading" /\ new.admits /\ ~new.drained /\ new.pool = NewPool
      /\ ~NewPool.closed
  BY DEF NewBundle, NewPool
<1> HIDE DEF new
<1>9. BuilderOwns'
  <2>1. \A b \in Built : ~Owned(b)'
    <3>1. \A b \in Built : ~Owned(b)
      BY <1>3 DEF ManagerOwns, Built
    <3> QED
      BY <1>6, <3>1 DEF Owned
  <2> QED
    BY <1>1, <1>6, <1>7, <1>8, <2>1 DEF BuilderOwns
<1>10. \A b \in Built' : bundles'[b].drained => ~bundles'[b].admits
  BY <1>6, <1>7, <1>8 DEF ManagerInv, LeaseInv
<1>11. BundleInv'
  BY <1>1 DEF BundleInv
<1>12. state' \in States
  BY <1>1 DEF States
<1> QED
  BY <1>1, <1>2, <1>6, <1>7, <1>8, <1>9, <1>10, <1>11, <1>12, TransitionStep
     DEF Closing, Holding

(* A switch, an unload or the final close has its turn.                    *)
LEMMA CloseBeginsStep ==
    ASSUME ManagerInv, NEW a \in Admins, ManagerCloses(a)
    PROVE  ManagerInv'
<1>1. /\ \A c \in Admins : adm[c].pc \notin Holding
      /\ adm[a].op \in {"switch", "unload", "close"}
      /\ Starts(a) /\ state' = TransitionState(adm[a].op)
      /\ bundle' = IF adm[a].op = "close" THEN 0 ELSE bundle
      /\ UNCHANGED <<active, sub>>
  BY DEF ManagerCloses, HasTurn, Ops, ManagerInv, TypeInv, AdminType
<1>2. state' \in {"SWITCHING", "UNLOADING", "CLOSED"}
  BY <1>1 DEF TransitionState
<1>3. ManagerOwns /\ BundleInv
  BY <1>1 DEF ManagerInv, OwnerInv
<1>4. state' \in States
  BY <1>2 DEF States
<1>5. /\ bundles \in Seq(BundleType) /\ Len(bundles) \in Bundles
      /\ bundle \in {0} \cup Built /\ adm \in [Admins -> AdminType]
  BY DEF ManagerInv, TypeInv
<1>6. CASE bundle = 0
  <2>1. /\ adm' = [adm EXCEPT ![a].pc = "done"] /\ UNCHANGED bundles /\ bundle' = 0
    BY <1>1, <1>6 DEF ManagerCloses
  <2>2. /\ adm' = [adm EXCEPT ![a] = adm'[a]] /\ adm'[a] \in AdminType
        /\ adm'[a].pc = "done"
    BY <1>5, <2>1 DEF AdminType
  <2>3. ManagerOwns' /\ BundleInv'
    BY <1>2, <1>3, <1>6, <2>1 DEF ManagerOwns, BundleInv, Owned, Built
  <2>4. \A b \in Built : bundles[b].drained => ~bundles[b].admits
    BY DEF ManagerInv, LeaseInv
  <2>5. Built' = Built /\ Len(bundles) <= Len(bundles) /\ bundle' \in {0} \cup Built
    BY <1>5, <2>1 DEF Built, Bundles
  <2> QED
    BY <1>1, <1>4, <1>5, <2>1, <2>2, <2>3, <2>4, <2>5, TransitionStep DEF Closing, Holding
<1>7. CASE bundle # 0
  <2> DEFINE r == [bundles[bundle] EXCEPT !.admits = FALSE]
  <2>1. /\ bundles' = [bundles EXCEPT ![bundle] = r] /\ bundle \in Built
        /\ adm' = [adm EXCEPT ![a] = [@ EXCEPT !.pc = "controller", !.victim = bundle]]
    BY <1>5, <1>7 DEF ManagerCloses
  <2>2. bundles[bundle] \in BundleType /\ bundle \in 0..MaxBundles
    BY <1>5, <2>1, ManagerAssumption DEF Built, Bundles
  <2>3. /\ r \in BundleType /\ r.runtime = bundles[bundle].runtime /\ ~r.admits
        /\ r.drained = bundles[bundle].drained /\ r.pool = bundles[bundle].pool
    BY <2>2 DEF BundleType
  <2>4. /\ adm' = [adm EXCEPT ![a] = adm'[a]] /\ adm'[a] \in AdminType
        /\ adm'[a].pc = "controller" /\ adm'[a].victim = bundle
    BY <1>5, <2>1, <2>2 DEF AdminType, Holding
  <2> HIDE DEF r
  <2>5. /\ bundles' \in Seq(BundleType) /\ Len(bundles') = Len(bundles)
        /\ bundles'[bundle] = r
        /\ \A c \in Built : c # bundle => bundles'[c] = bundles[c]
    BY <2>1, <2>3, BundleReplaced DEF ManagerInv
  <2>6. Built' = Built /\ Len(bundles) <= Len(bundles') /\ bundle' \in {0} \cup Built
        /\ Len(bundles') \in Bundles
    BY <1>1, <1>5, <2>5 DEF Built, Bundles
  <2>7. \A b \in Built : Owned(b)' <=> Owned(b)
    BY <2>3, <2>5 DEF Owned
  <2>8. CloserOwns(a)'
    <3>1. \A b \in Built' : Owned(b)' => b = bundle
      BY <1>3, <2>6, <2>7 DEF ManagerOwns
    <3>2. bundles'[bundle].runtime = "live" /\ ~bundles'[bundle].admits
      BY <1>3, <1>7, <2>3, <2>5 DEF BundleInv
    <3> QED
      BY <1>1, <2>4, <3>1, <3>2 DEF CloserOwns
  <2>9. BundleInv'
    BY <1>1, <1>2, <1>3, <1>7, <2>3, <2>5 DEF BundleInv
  <2>10. \A b \in Built : bundles'[b].drained => ~bundles'[b].admits
    BY <2>3, <2>5 DEF ManagerInv, LeaseInv
  <2>11. \A b \in Built : bundles'[b].drained => bundles[b].drained
    BY <2>3, <2>5
  <2>12. \A b \in Built : /\ bundles'[b].runtime = bundles[b].runtime
                          /\ bundles'[b].pool = bundles[b].pool
    BY <2>3, <2>5
  <2>13. \A c \in Admins : c # a => adm[c].pc \notin Holding
    BY <1>1
  <2>14. adm'[a].pc \in Holding /\ adm'[a].pc # "build" /\ adm'[a].victim \in Built'
    BY <2>1, <2>4, <2>6 DEF Holding
  <2>15. state' \notin {"READY", "UNLOADED", "ERROR"}
    BY <1>2
  <2> QED
    BY <1>1, <1>4, <2>4, <2>5, <2>6, <2>8, <2>9, <2>10, <2>11, <2>12, <2>13, <2>14, <2>15,
       TransitionStep
<1> QED
  BY <1>6, <1>7

(* What a task that tears a bundle down, or builds one, may rely on.       *)
LEMMA HolderKnows ==
    ASSUME ManagerInv, NEW a \in Admins, adm[a].pc \in Holding
    PROVE  /\ \A c \in Admins : c # a => adm[c].pc \notin Holding
           /\ state \in States \ {"READY", "UNLOADED", "ERROR"}
           /\ bundles \in Seq(BundleType) /\ Len(bundles) \in Bundles
           /\ adm \in [Admins -> AdminType] /\ bundle \in {0} \cup Built
           /\ \A b \in Built : bundles[b] \in BundleType
           /\ \A b \in Built : bundles[b].drained => ~bundles[b].admits
           /\ adm[a].pc \in Closing => adm[a].victim \in Built /\ CloserOwns(a)
           /\ adm[a].pc = "build" => Len(bundles) \in Built /\ BuilderOwns
<1>1. /\ \A c \in Admins : c # a => adm[c].pc \notin Holding
      /\ state \in States \ {"READY", "UNLOADED", "ERROR"}
  BY DEF ManagerInv, LockInv, TypeInv
<1>2. bundles \in Seq(BundleType) /\ Len(bundles) \in Bundles
  BY DEF ManagerInv, TypeInv
<1>3. /\ \A b \in Built : bundles[b] \in BundleType
      /\ Len(bundles) \in Built
  BY <1>2 DEF Built, Bundles
<1> QED
  BY <1>1, <1>2, <1>3 DEF ManagerInv, TypeInv, LeaseInv, OwnerInv

(* A step of a teardown that leaves the runtime of its bundle loaded.      *)
LEMMA TeardownContinues ==
    ASSUME ManagerInv, NEW a \in Admins, adm[a].pc \in Closing,
           UNCHANGED <<sub, active, state, bundle>>,
           adm' = [adm EXCEPT ![a] = adm'[a]], adm'[a] \in AdminType,
           adm'[a].pc \in Closing, adm'[a].victim = adm[a].victim,
           NEW r \in BundleType, bundles' = [bundles EXCEPT ![adm[a].victim] = r],
           r.runtime = bundles[adm[a].victim].runtime, ~r.admits,
           \/ r.pool = bundles[adm[a].victim].pool
           \/ /\ \A s \in Subs : sub[s].pc \notin Submitting
              /\ r.pool = PoolClosed(bundles[adm[a].victim].pool),
           adm'[a].pc = "runtime" => r.pool.closed,
           r.drained => LeasesOf(adm[a].victim) = {}
    PROVE  ManagerInv'
<1> DEFINE v == adm[a].victim
<1>0. Closing \subseteq Holding /\ "build" \notin Closing
  BY DEF Closing, Holding
<1>1. /\ \A c \in Admins : c # a => adm[c].pc \notin Holding
      /\ state \in States \ {"READY", "UNLOADED", "ERROR"}
      /\ bundles \in Seq(BundleType) /\ Len(bundles) \in Bundles /\ bundle \in {0} \cup Built
      /\ \A b \in Built : bundles[b].drained => ~bundles[b].admits
      /\ v \in Built /\ CloserOwns(a)
  BY <1>0, HolderKnows
<1>2. /\ bundles' \in Seq(BundleType) /\ Len(bundles') = Len(bundles)
      /\ bundles'[v] = r
      /\ \A c \in Built : c # v => bundles'[c] = bundles[c]
  BY <1>1, BundleReplaced DEF ManagerInv
<1>3. Built' = Built /\ Len(bundles) <= Len(bundles')
  BY <1>1, <1>2 DEF Built, Bundles
<1> HIDE DEF v
<1>4. \A b \in Built : Owned(b)' <=> Owned(b)
  BY <1>2 DEF Owned, v
<1>5. CloserOwns(a)'
  BY <1>1, <1>2, <1>3, <1>4 DEF CloserOwns, v
<1>6. BundleInv'
  BY <1>1, <1>2 DEF ManagerInv, OwnerInv, BundleInv, v
<1>7. \A b \in Built' : bundles'[b].drained => ~bundles'[b].admits
  BY <1>1, <1>2, <1>3
<1>8. \A b \in Built : bundles'[b].drained => bundles[b].drained \/ LeasesOf(b) = {}
  BY <1>2 DEF v
<1>9. \A b \in Built :
              \/ /\ bundles'[b].runtime = bundles[b].runtime
                 /\ bundles'[b].pool = bundles[b].pool
              \/ /\ \A s \in Subs : sub[s].pc \in Submitting => sub[s].b # b
                 /\ bundles'[b].pool \in {bundles[b].pool, PoolClosed(bundles[b].pool)}
  BY <1>2 DEF v
<1>10. adm'[a].victim \in Built' /\ adm'[a].pc \in Holding /\ adm'[a].pc # "build"
  BY <1>0, <1>1, <1>3 DEF v
<1> QED
  BY <1>1, <1>2, <1>3, <1>5, <1>6, <1>7, <1>8, <1>9, <1>10, TransitionStep

(* The controller has drained the victim's leases, or raised.              *)
LEMMA ControllerClosedStep ==
    ASSUME ManagerInv, NEW a \in Admins, NEW err \in BOOLEAN, ControllerClosed(a, err)
    PROVE  ManagerInv'
<1> DEFINE v == adm[a].victim
           r == [bundles[v] EXCEPT !.drained = ~err]
<1>1. /\ adm[a].pc = "controller" /\ (err \/ LeasesOf(v) = {})
      /\ UNCHANGED <<state, bundle, active, sub>>
      /\ adm' = [adm EXCEPT ![a] = [@ EXCEPT !.pc = "quiesce", !.err = err]]
      /\ bundles' = [bundles EXCEPT ![v] = r]
  BY DEF ControllerClosed
<1>2. adm[a].pc \in Closing /\ adm[a].pc \in Holding
  BY <1>1 DEF Closing, Holding
<1>3. adm \in [Admins -> AdminType] /\ v \in Built /\ bundles[v] \in BundleType /\ CloserOwns(a)
  BY <1>2, HolderKnows
<1>4. /\ r \in BundleType /\ r.runtime = bundles[v].runtime /\ r.admits = bundles[v].admits
      /\ r.pool = bundles[v].pool /\ r.drained = ~err
  BY <1>3 DEF BundleType
<1>5. /\ adm' = [adm EXCEPT ![a] = adm'[a]] /\ adm'[a] \in AdminType
      /\ adm'[a].pc = "quiesce" /\ adm'[a].victim = v
  BY <1>1, <1>3 DEF AdminType, Holding
<1>6. ~bundles[v].admits /\ adm'[a].pc \in Closing
  BY <1>3, <1>5 DEF CloserOwns, Closing
<1> HIDE DEF r
<1> QED
  BY <1>1, <1>2, <1>4, <1>5, <1>6, TeardownContinues

(* No lane is rendering: the renderer pool is closed.                      *)
LEMMA QuiescedStep ==
    ASSUME ManagerInv, NEW a \in Admins, Quiesced(a)
    PROVE  ManagerInv'
<1> DEFINE v == adm[a].victim
           r == [bundles[v] EXCEPT !.pool = PoolClosed(@)]
<1>1. /\ adm[a].pc = "quiesce" /\ active = 0
      /\ UNCHANGED <<state, bundle, active, sub>>
      /\ adm' = [adm EXCEPT ![a].pc = "runtime"]
      /\ bundles' = [bundles EXCEPT ![v] = r]
  BY DEF Quiesced
<1>2. adm[a].pc \in Closing /\ adm[a].pc \in Holding
  BY <1>1 DEF Closing, Holding
<1>3. adm \in [Admins -> AdminType] /\ v \in Built /\ bundles[v] \in BundleType /\ CloserOwns(a)
  BY <1>2, HolderKnows
<1>4. /\ r \in BundleType /\ r.runtime = bundles[v].runtime /\ r.admits = bundles[v].admits
      /\ r.pool = PoolClosed(bundles[v].pool) /\ r.drained = bundles[v].drained
  <2>1. PoolClosed(bundles[v].pool) \in PoolType
    BY LaneAssumption DEF PoolClosed, PoolType
  <2> QED
    BY <1>3, <2>1 DEF BundleType
<1>5. /\ adm' = [adm EXCEPT ![a] = adm'[a]] /\ adm'[a] \in AdminType
      /\ adm'[a].pc = "runtime" /\ adm'[a].victim = v
  BY <1>1, <1>3 DEF AdminType, Holding
<1>6. ~bundles[v].admits /\ adm'[a].pc \in Closing
  BY <1>3, <1>5 DEF CloserOwns, Closing
<1>7. \A s \in Subs : sub[s].pc \notin Submitting
  BY <1>1, QuiescedIsEmpty
<1>8. r.pool.closed
  BY <1>4 DEF PoolClosed
<1>9. r.drained => LeasesOf(v) = {}
  BY <1>3, <1>4 DEF ManagerInv, LeaseInv, LeasesOf, Leasing
<1> HIDE DEF r
<1> QED
  BY <1>1, <1>2, <1>4, <1>5, <1>6, <1>7, <1>8, <1>9, TeardownContinues

(* The runtime is closed, and a switch goes on to build.                   *)
LEMMA RuntimeClosedStep ==
    ASSUME ManagerInv, NEW a \in Admins, RuntimeClosed(a)
    PROVE  ManagerInv'
<1> DEFINE v == adm[a].victim
           r == [bundles[v] EXCEPT !.runtime = "closed"]
           gone == [bundles EXCEPT ![v] = r]
           new == NewBundle(adm[a].model, "loading")
           goesOn == adm[a].op = "switch" /\ ~adm[a].err
<1>1. /\ adm[a].pc = "runtime" /\ bundle' = 0 /\ UNCHANGED <<active, sub>>
      /\ goesOn => Len(bundles) < MaxBundles
      /\ bundles' = IF goesOn THEN Append(gone, new) ELSE gone
      /\ state' \in {state, "ERROR", "UNLOADED"} /\ (goesOn => state' = state)
      /\ adm' = [adm EXCEPT ![a].pc = IF goesOn THEN "build" ELSE "done"]
  BY DEF RuntimeClosed
<1>2. adm[a].pc \in Closing /\ adm[a].pc \in Holding
  BY <1>1 DEF Closing, Holding
<1>3. /\ \A c \in Admins : c # a => adm[c].pc \notin Holding
      /\ state \in States \ {"READY", "UNLOADED", "ERROR"}
      /\ bundles \in Seq(BundleType) /\ Len(bundles) \in Bundles
      /\ adm \in [Admins -> AdminType]
      /\ \A b \in Built : bundles[b].drained => ~bundles[b].admits
      /\ v \in Built /\ bundles[v] \in BundleType /\ CloserOwns(a)
  BY <1>2, HolderKnows
<1>4. /\ r \in BundleType /\ r.runtime = "closed" /\ r.admits = bundles[v].admits
      /\ r.pool = bundles[v].pool /\ r.drained = bundles[v].drained
  BY <1>3 DEF BundleType
<1>5. /\ adm' = [adm EXCEPT ![a] = adm'[a]] /\ adm'[a] \in AdminType
      /\ adm'[a].pc = IF goesOn THEN "build" ELSE "done"
  BY <1>1, <1>3 DEF AdminType, Holding
<1>6. new \in BundleType
  BY <1>3, LaneAssumption DEF NewBundle, BundleType, PoolType, NewPool, AdminType
<1>7. /\ new.runtime = "loading" /\ new.admits /\ ~new.drained /\ new.pool = NewPool
      /\ ~NewPool.closed
  BY DEF NewBundle, NewPool
<1>8. ASSUME NEW s \in Subs, sub[s].pc \in Submitting
      PROVE  sub[s].b # v
  BY <1>1, <1>3, <1>8 DEF CloserOwns, ManagerInv, LeaseInv
<1> HIDE DEF r, v, new
<1>9. /\ gone \in Seq(BundleType) /\ Len(gone) = Len(bundles)
      /\ gone[v] = r /\ \A c \in Built : c # v => gone[c] = bundles[c]
  BY <1>3, <1>4 DEF Built
<1>10. \A b \in Built : gone[b].runtime \notin {"loading", "live"}
  BY <1>3, <1>4, <1>9 DEF CloserOwns, Owned, v
<1>11. \A b \in Built : /\ gone[b].pool = bundles[b].pool /\ gone[b].drained = bundles[b].drained
                        /\ gone[b].admits = bundles[b].admits
                        /\ b # v => gone[b].runtime = bundles[b].runtime
  BY <1>4, <1>9
<1>12. BundleInv'
  BY <1>1, <1>3 DEF BundleInv
<1>13. CASE goesOn
  <2>1. /\ bundles' \in Seq(BundleType) /\ Len(bundles') = Len(bundles) + 1
        /\ bundles'[Len(bundles')] = new
        /\ \A b \in Built : bundles'[b] = gone[b]
    BY <1>1, <1>6, <1>9, <1>13, BundleBuilt DEF Built, ManagerInv
  <2>2. /\ Len(bundles') \in Bundles /\ Len(bundles) <= Len(bundles')
        /\ Built' = Built \cup {Len(bundles')} /\ Len(bundles') \notin Built
    BY <1>1, <1>3, <1>13, <2>1, ManagerAssumption DEF Bundles, Built
  <2>3. BuilderOwns'
    BY <1>1, <1>7, <1>10, <2>1, <2>2 DEF BuilderOwns, Owned
  <2>4. \A b \in Built' : bundles'[b].drained => ~bundles'[b].admits
    BY <1>3, <1>7, <1>11, <2>1, <2>2
  <2>5. \A b \in Built :
              \/ /\ bundles'[b].runtime = bundles[b].runtime
                 /\ bundles'[b].pool = bundles[b].pool
              \/ /\ \A s \in Subs : sub[s].pc \in Submitting => sub[s].b # b
                 /\ bundles'[b].pool \in {bundles[b].pool, PoolClosed(bundles[b].pool)}
    BY <1>8, <1>11, <2>1
  <2>6. \A b \in Built : bundles'[b].drained => bundles[b].drained \/ LeasesOf(b) = {}
    BY <1>11, <2>1
  <2>7. \A b \in Built' \ Built : bundles'[b].pool = NewPool
    BY <1>7, <2>1, <2>2
  <2>8. adm'[a].pc = "build" /\ adm'[a].pc \in Holding /\ adm'[a].pc \notin Closing
    BY <1>5, <1>13 DEF Holding, Closing
  <2>9. state' \in States \ {"READY", "UNLOADED", "ERROR"} /\ bundle' \in {0} \cup Built'
    BY <1>1, <1>3, <1>13
  <2> QED
    BY <1>1, <1>3, <1>5, <1>12, <2>1, <2>2, <2>3, <2>4, <2>5, <2>6, <2>7, <2>8, <2>9,
       TransitionStep
<1>14. CASE ~goesOn
  <2>1. bundles' = gone /\ Built' = Built
    BY <1>1, <1>9, <1>14 DEF Built
  <2>2. Len(bundles') \in Bundles /\ Len(bundles) <= Len(bundles')
    BY <1>3, <1>9, <2>1 DEF Bundles
  <2>3. ManagerOwns'
    BY <1>10, <2>1 DEF ManagerOwns, Owned
  <2>4. \A b \in Built' : bundles'[b].drained => ~bundles'[b].admits
    BY <1>3, <1>11, <2>1
  <2>5. \A b \in Built :
              \/ /\ bundles'[b].runtime = bundles[b].runtime
                 /\ bundles'[b].pool = bundles[b].pool
              \/ /\ \A s \in Subs : sub[s].pc \in Submitting => sub[s].b # b
                 /\ bundles'[b].pool \in {bundles[b].pool, PoolClosed(bundles[b].pool)}
    BY <1>8, <1>11, <2>1
  <2>6. \A b \in Built : bundles'[b].drained => bundles[b].drained \/ LeasesOf(b) = {}
    BY <1>11, <2>1
  <2>7. adm'[a].pc # "build" /\ adm'[a].pc \notin Holding /\ adm'[a].pc \notin Closing
    BY <1>5, <1>14 DEF Holding, Closing
  <2>8. state' \in States /\ bundle' \in {0} \cup Built'
    BY <1>1, <1>3 DEF States
  <2> QED
    BY <1>1, <1>3, <1>5, <1>9, <1>12, <2>1, <2>2, <2>3, <2>4, <2>5, <2>6, <2>7, <2>8,
       TransitionStep
<1> QED
  BY <1>13, <1>14

(* The victim could not be closed and stays the bundle.                    *)
LEMMA CloseFailsStep ==
    ASSUME ManagerInv, NEW a \in Admins, CloseFails(a)
    PROVE  ManagerInv'
<1> DEFINE v == adm[a].victim
<1>1. /\ adm[a].pc \in {"quiesce", "runtime"} /\ bundle' = v /\ UNCHANGED <<bundles, active, sub>>
      /\ state' \in {state, "ERROR"}
      /\ adm' = [adm EXCEPT ![a].pc = "done"]
  BY DEF CloseFails
<1>2. adm[a].pc \in Closing /\ adm[a].pc \in Holding
  BY <1>1 DEF Closing, Holding
<1>3. /\ \A c \in Admins : c # a => adm[c].pc \notin Holding
      /\ state \in States \ {"READY", "UNLOADED", "ERROR"}
      /\ bundles \in Seq(BundleType) /\ Len(bundles) \in Bundles
      /\ adm \in [Admins -> AdminType]
      /\ \A b \in Built : bundles[b].drained => ~bundles[b].admits
      /\ v \in Built /\ CloserOwns(a)
  BY <1>2, HolderKnows
<1>4. /\ adm' = [adm EXCEPT ![a] = adm'[a]] /\ adm'[a] \in AdminType
      /\ adm'[a].pc = "done"
  BY <1>1, <1>3 DEF AdminType
<1>5. Built' = Built /\ Len(bundles) <= Len(bundles)
  BY <1>1, <1>3 DEF Built, Bundles
<1>6. ManagerOwns'
  BY <1>1, <1>3, <1>5 DEF ManagerOwns, CloserOwns, Owned
<1>7. BundleInv'
  BY <1>1, <1>3 DEF BundleInv, CloserOwns
<1>8. adm'[a].pc # "build" /\ adm'[a].pc \notin Holding /\ adm'[a].pc \notin Closing
  BY <1>4 DEF Holding, Closing
<1>9. state' \in States /\ bundle' \in {0} \cup Built'
  BY <1>1, <1>3, <1>5 DEF States
<1> QED
  BY <1>1, <1>3, <1>4, <1>5, <1>6, <1>7, <1>8, <1>9, TransitionStep

(* The end of a build, r being what it leaves.                             *)
LEMMA BuildEnds ==
    ASSUME ManagerInv, NEW a \in Admins, adm[a].pc = "build", UNCHANGED <<active, sub>>,
           NEW r \in BundleType, bundles' = [bundles EXCEPT ![Len(bundles)] = r],
           adm' = [adm EXCEPT ![a].pc = "done"],
           \/ /\ r.runtime = "live" /\ r.admits /\ r.pool = bundles[Len(bundles)].pool
              /\ bundle' = Len(bundles) /\ state' = "READY"
           \/ /\ r.runtime \in {"left", "closed"} /\ ~r.admits
              /\ r.pool = PoolClosed(bundles[Len(bundles)].pool)
              /\ bundle' = 0 /\ state' = "ERROR",
           r.drained = bundles[Len(bundles)].drained
    PROVE  ManagerInv'
<1> DEFINE v == Len(bundles)
<1>1. adm[a].pc \in Holding
  BY DEF Holding
<1>2. /\ \A c \in Admins : c # a => adm[c].pc \notin Holding
      /\ bundles \in Seq(BundleType) /\ Len(bundles) \in Bundles
      /\ adm \in [Admins -> AdminType]
      /\ \A b \in Built : bundles[b].drained => ~bundles[b].admits
      /\ v \in Built /\ BuilderOwns
  BY <1>1, HolderKnows
<1>3. /\ adm' = [adm EXCEPT ![a] = adm'[a]] /\ adm'[a] \in AdminType
      /\ adm'[a].pc = "done"
  BY <1>2 DEF AdminType
<1>4. /\ bundles' \in Seq(BundleType) /\ Len(bundles') = Len(bundles)
      /\ bundles'[v] = r
      /\ \A c \in Built : c # v => bundles'[c] = bundles[c]
  BY <1>2, BundleReplaced DEF ManagerInv
<1>5. Built' = Built /\ Len(bundles) <= Len(bundles')
  BY <1>2, <1>4 DEF Built, Bundles
<1>6. /\ bundles[v].admits /\ ~bundles[v].drained /\ ~bundles[v].pool.closed
      /\ bundles[v].runtime = "loading"
  BY <1>2 DEF BuilderOwns
<1>7. \A s \in Subs : sub[s].pc \in Submitting => sub[s].b # v
  BY <1>6 DEF ManagerInv, LeaseInv
<1>8. \A b \in Built : b # v => ~Owned(b)'
  BY <1>2, <1>4 DEF BuilderOwns, Owned
<1> HIDE DEF v
<1>9. ManagerOwns'
  BY <1>4, <1>5, <1>8 DEF ManagerOwns, Owned, v
<1>10. BundleInv'
  BY <1>2, <1>4, <1>6 DEF BundleInv, v, Built
<1>11. \A b \in Built' : bundles'[b].drained => ~bundles'[b].admits
  BY <1>2, <1>4, <1>5, <1>6 DEF v
<1>12. \A b \in Built :
              \/ /\ bundles'[b].runtime = bundles[b].runtime
                 /\ bundles'[b].pool = bundles[b].pool
              \/ /\ \A s \in Subs : sub[s].pc \in Submitting => sub[s].b # b
                 /\ bundles'[b].pool \in {bundles[b].pool, PoolClosed(bundles[b].pool)}
  BY <1>4, <1>7 DEF v
<1>13. \A b \in Built : bundles'[b].drained => bundles[b].drained \/ LeasesOf(b) = {}
  BY <1>4 DEF v
<1>14. adm'[a].pc # "build" /\ adm'[a].pc \notin Holding /\ adm'[a].pc \notin Closing
  BY <1>3 DEF Holding, Closing
<1>15. state' \in States /\ bundle' \in {0} \cup Built'
  BY <1>2, <1>5 DEF States, v
<1> QED
  BY <1>2, <1>3, <1>4, <1>5, <1>9, <1>10, <1>11, <1>12, <1>13, <1>14, <1>15, TransitionStep

(* The builder returns and the bundle is published.                        *)
LEMMA BuildReturnsStep ==
    ASSUME ManagerInv, NEW a \in Admins, BuildReturns(a)
    PROVE  ManagerInv'
<1> DEFINE v == Len(bundles)
           r == [bundles[v] EXCEPT !.runtime = "live"]
<1>1. /\ adm[a].pc = "build" /\ bundle' = v /\ state' = "READY" /\ UNCHANGED <<active, sub>>
      /\ bundles' = [bundles EXCEPT ![v] = r]
      /\ adm' = [adm EXCEPT ![a].pc = "done"]
  BY DEF BuildReturns
<1>2. bundles[v] \in BundleType /\ BuilderOwns
  BY <1>1, HolderKnows DEF Holding
<1>3. /\ r \in BundleType /\ r.runtime = "live" /\ r.pool = bundles[v].pool
      /\ r.admits = bundles[v].admits /\ r.drained = bundles[v].drained
  BY <1>2 DEF BundleType
<1>4. r.admits
  BY <1>2, <1>3 DEF BuilderOwns
<1> HIDE DEF r
<1> QED
  BY <1>1, <1>3, <1>4, BuildEnds

(* The builder raises and rolls back what it had built.                    *)
LEMMA BuildFailsStep ==
    ASSUME ManagerInv, NEW a \in Admins, NEW left \in BOOLEAN, BuildFails(a, left)
    PROVE  ManagerInv'
<1> DEFINE v == Len(bundles)
           r == [bundles[v] EXCEPT !.runtime = IF left THEN "left" ELSE "closed",
                                   !.admits = FALSE, !.pool = PoolClosed(bundles[v].pool)]
<1>1. /\ adm[a].pc = "build" /\ bundle' = 0 /\ state' = "ERROR" /\ UNCHANGED <<active, sub>>
      /\ adm' = [adm EXCEPT ![a].pc = "done"]
  BY DEF BuildFails
<1>2. bundles[v] \in BundleType
  BY <1>1, HolderKnows DEF Holding
<1>5. bundles' = [bundles EXCEPT ![v] = r]
  BY DEF BuildFails
<1>3. PoolClosed(bundles[v].pool) \in PoolType
  BY LaneAssumption DEF PoolClosed, PoolType
<1>4. /\ r \in BundleType /\ r.runtime \in {"left", "closed"} /\ ~r.admits
      /\ r.pool = PoolClosed(bundles[v].pool) /\ r.drained = bundles[v].drained
  BY <1>2, <1>3 DEF BundleType
<1> HIDE DEF r
<1> QED
  BY <1>1, <1>4, <1>5, BuildEnds

-----------------------------------------------------------------------------
(* The server starts with one live bundle and nobody inside.               *)
LEMMA InitInv == ManagerInit => ManagerInv
<1> SUFFICES ASSUME ManagerInit PROVE ManagerInv
  OBVIOUS
<1>1. PICK m \in Models : bundles = <<NewBundle(m, "live")>>
  BY DEF ManagerInit
<1>2. /\ NewBundle(m, "live") \in BundleType /\ NewPool.free = LaneCount /\ ~NewPool.closed
      /\ NewBundle(m, "live").runtime = "live" /\ NewBundle(m, "live").admits
      /\ ~NewBundle(m, "live").drained /\ NewBundle(m, "live").pool = NewPool
  BY LaneAssumption DEF NewBundle, NewPool, BundleType, PoolType
<1>3. /\ bundles \in Seq(BundleType) /\ Len(bundles) = 1 /\ Built = {1}
      /\ bundles[1] = NewBundle(m, "live")
  BY <1>1, <1>2 DEF Built
<1>4. /\ \A a \in Admins : adm[a].pc = "idle"
      /\ \A s \in Subs : sub[s].pc = "idle"
      /\ state = "READY" /\ bundle = 1 /\ active = 0
  BY DEF ManagerInit
<1>5. adm \in [Admins -> AdminType] /\ sub \in [Subs -> SubType]
  BY ManagerAssumption DEF ManagerInit, AdminType, SubType, Ops
<1>6. TypeInv
  BY <1>3, <1>4, <1>5, ManagerAssumption
     DEF TypeInv, States, Bundles, Leasing, Submitting, Closing
<1>7. LockInv /\ OwnerInv
  BY <1>2, <1>3, <1>4 DEF LockInv, OwnerInv, ManagerOwns, BundleInv, Holding, Closing
<1>8. LeaseInv
  BY <1>2, <1>3, <1>4 DEF LeaseInv, Leasing, Submitting
<1>9. Inside = {} /\ Busy(1) = {}
  BY <1>4 DEF Inside, Busy, Submitting
<1>10. CountInv /\ PoolInv
  <2>1. CountInv
    BY <1>4, <1>9, FS_EmptySet DEF CountInv
  <2>2. LanesExact(1)
    <3>1. Cardinality(Busy(1)) = 0
      BY <1>9, FS_EmptySet
    <3>2. bundles[1].pool.free = LaneCount /\ ~bundles[1].pool.closed
      BY <1>2, <1>3
    <3> QED
      BY <3>1, <3>2, LaneAssumption DEF LanesExact
  <2> QED
    BY <1>3, <2>1, <2>2 DEF PoolInv
<1> QED
  BY <1>6, <1>7, <1>8, <1>10 DEF ManagerInv

(* Every step preserves the inductive invariant.                           *)
LEMMA StepInv == ManagerInv /\ [ManagerNext]_managerVars => ManagerInv'
<1> SUFFICES ASSUME ManagerInv, [ManagerNext]_managerVars PROVE ManagerInv'
  OBVIOUS
<1>1. ASSUME NEW s \in Subs, AcquireLease(s) \/ SubRuns(s) \/ SubCancelled(s) \/ SessionEnds(s)
      PROVE  ManagerInv'
  BY <1>1, SubStep
<1>2. ASSUME NEW a \in Admins, NEW op \in Ops, NEW m \in Models, Begin(a, op, m)
      PROVE  ManagerInv'
  <2>1. /\ adm' = [adm EXCEPT ![a] = adm'[a]] /\ adm'[a] \in AdminType
        /\ adm[a].pc = "idle" /\ adm'[a].pc = "queued"
    BY <1>2 DEF Begin, ManagerInv, TypeInv, AdminType
  <2> QED
    BY <1>2, <2>1, WaiterStep DEF Begin, Holding
<1>3. ASSUME NEW a \in Admins, QueueCancelled(a) \/ Refused(a) PROVE ManagerInv'
  <2>1. /\ adm' = [adm EXCEPT ![a] = adm'[a]] /\ adm'[a] \in AdminType
        /\ adm[a].pc = "queued" /\ adm'[a].pc = "done"
    BY <1>3, ZenonT(60) DEF QueueCancelled, Refused, HasTurn, ManagerInv, TypeInv, AdminType
  <2> QED
    BY <1>3, <2>1, WaiterStep DEF QueueCancelled, Refused, Holding
<1>4. ASSUME NEW a \in Admins, LoadBegins(a) PROVE ManagerInv'
  BY <1>4, LoadBeginsStep
<1>5. ASSUME NEW a \in Admins, ManagerCloses(a) PROVE ManagerInv'
  BY <1>5, CloseBeginsStep
<1>6. ASSUME NEW a \in Admins, NEW err \in BOOLEAN, ControllerClosed(a, err) PROVE ManagerInv'
  BY <1>6, ControllerClosedStep
<1>7. ASSUME NEW a \in Admins, Quiesced(a) PROVE ManagerInv'
  BY <1>7, QuiescedStep
<1>8. ASSUME NEW a \in Admins, RuntimeClosed(a) PROVE ManagerInv'
  BY <1>8, RuntimeClosedStep
<1>9. ASSUME NEW a \in Admins, BuildReturns(a) PROVE ManagerInv'
  BY <1>9, BuildReturnsStep
<1>10. ASSUME NEW a \in Admins, NEW left \in BOOLEAN, BuildFails(a, left) PROVE ManagerInv'
  BY <1>10, BuildFailsStep
<1>11. ASSUME NEW a \in Admins, CloseFails(a) PROVE ManagerInv'
  BY <1>11, CloseFailsStep
<1>12. ASSUME UNCHANGED managerVars PROVE ManagerInv'
  BY <1>12 DEF managerVars, ManagerInv, TypeInv, LockInv, OwnerInv, CloserOwns, BuilderOwns, ManagerOwns,
     BundleInv, Owned, LeaseInv, CountInv, PoolInv, Inside, LanesExact, Busy, Built
<1> QED
  BY <1>1, <1>2, <1>3, <1>4, <1>5, <1>6, <1>7, <1>8, <1>9, <1>10, <1>11, <1>12
     DEF ManagerNext, TransitionRuns

(* Induction over the behaviour.                                           *)
LEMMA Invariance == ManagerSpec => []ManagerInv
<1> QED
  BY InitInv, StepInv, PTL DEF ManagerSpec

(* For any number of transitions and requests, whatever fails or is        *)
(* cancelled: no request waits for a lane, renders or is submitted on a    *)
(* bundle whose lanes or runtime are gone, and none is left generating on  *)
(* one whose controller closed (_close_bundle_resources).                  *)
THEOREM TeardownCorrect == ManagerSpec => []TeardownIsSafe
<1>1. ManagerInv => TeardownIsSafe
  <2> SUFFICES ASSUME ManagerInv, NEW s \in Subs PROVE
               /\ sub[s].pc \in Submitting =>
                     bundles[sub[s].b].runtime = "live" /\ ~bundles[sub[s].b].pool.closed
               /\ sub[s].pc = "session" => ~bundles[sub[s].b].drained
    BY DEF TeardownIsSafe
  <2> QED
    BY DEF ManagerInv, LeaseInv, Leasing
<1> QED
  BY <1>1, Invariance, PTL

(* For any number of transitions, requests and lanes: the submissions and  *)
(* the lanes a teardown waits for are counted exactly, at most one runtime *)
(* is loaded or loading, and a ready manager serves from a live bundle     *)
(* that nobody closes (_active_submissions, RendererLanePool, _bundle).    *)
THEOREM OwnershipCorrect == ManagerSpec => []OwnershipIsExact
<1>1. ManagerInv => OwnershipIsExact
  <2> SUFFICES ASSUME ManagerInv PROVE OwnershipIsExact
    OBVIOUS
  <2>1. active = Cardinality({s \in Subs : sub[s].pc \in Submitting})
    BY DEF ManagerInv, CountInv, Inside
  <2>2. \A b \in Built :
          IF bundles[b].pool.closed THEN Busy(b) = {} /\ bundles[b].pool.free = 0
          ELSE bundles[b].pool.free + Cardinality(Busy(b)) = LaneCount
    BY DEF ManagerInv, PoolInv, LanesExact
  <2>3. PICK x : \A b \in Built : Owned(b) => b = x
    <3>1. CASE \E a \in Admins : adm[a].pc \in Holding
      <4>1. PICK a \in Admins : adm[a].pc \in Holding
        BY <3>1
      <4>2. CASE adm[a].pc \in Closing
        BY <4>2 DEF ManagerInv, OwnerInv, CloserOwns
      <4>3. CASE adm[a].pc = "build"
        BY <4>3 DEF ManagerInv, OwnerInv, BuilderOwns
      <4> QED
        BY <4>1, <4>2, <4>3 DEF Holding, Closing
    <3>2. CASE \A a \in Admins : adm[a].pc \notin Holding
      BY <3>2 DEF ManagerInv, OwnerInv, ManagerOwns
    <3> QED
      BY <3>1, <3>2
  <2>4. Cardinality({b \in Built : bundles[b].runtime \in {"loading", "live"}}) <= 1
    <3> DEFINE L == {b \in Built : bundles[b].runtime \in {"loading", "live"}}
    <3>1. L \subseteq {x}
      BY <2>3 DEF Owned
    <3>2. L = {} \/ L = {x}
      BY <3>1
    <3>3. Cardinality({}) = 0 /\ Cardinality({x}) = 1
      BY FS_EmptySet, FS_Singleton
    <3>4. Cardinality(L) \in {0, 1}
      BY <3>2, <3>3
    <3> HIDE DEF L
    <3>5. Cardinality(L) <= 1
      BY <3>4
    <3> QED
      BY <3>5 DEF L
  <2>5. state = "READY" => /\ bundle # 0
                           /\ bundles[bundle].runtime = "live"
                           /\ bundles[bundle].admits /\ ~bundles[bundle].pool.closed
    BY DEF ManagerInv, OwnerInv, BundleInv
  <2> QED
    BY <2>1, <2>2, <2>4, <2>5 DEF OwnershipIsExact, Busy
<1> QED
  BY <1>1, Invariance, PTL
=============================================================================
