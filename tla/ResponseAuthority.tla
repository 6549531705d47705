------------------------- MODULE ResponseAuthority -------------------------
(***************************************************************************)
(* state/response_authority.py over the two stores, driven by the requests *)
(* of protocol/openai/api.py: POST /v1/responses (streaming or not),       *)
(* POST /v1/responses/input_tokens, GET /v1/responses/{id} and             *)
(* POST /v1/responses/{id}/cancel, with client disconnects and expiry.     *)
(*                                                                         *)
(* A request and the response id it mints are the same value.  A step runs *)
(* from one real suspension to the next: an uncontended asyncio lock never *)
(* suspends, so every store operation is atomic; what suspends is waiting  *)
(* for a response's transition lock, the shielded commit task of finish()  *)
(* and session.cancel() inside cancel().                                   *)
(***************************************************************************)
EXTENDS ResponseStore, TLC

CONSTANTS
  Requests,        \* requests, each with the response id it mints
  StateCap,        \* max_records of the state store
  WireCap,         \* max_records of the lifecycle store
  CancelMayFail,   \* whether session.cancel() may raise
  BytesMayRefuse,  \* whether a record may exceed what its byte budget can free
  StoreChoices,    \* values of "store" clients ask for
  Statuses,        \* terminals sessions produce
  MaxCancels       \* bound on the number of cancel calls

ASSUME CapAssumption == StateCap \in Nat \ {0} /\ WireCap \in Nat \ {0}

None == "none"
Terminals == {"completed", "incomplete", "failed", "cancelled"}

ASSUME InputAssumption ==
  /\ CancelMayFail \in BOOLEAN /\ BytesMayRefuse \in BOOLEAN
  /\ StoreChoices \subseteq BOOLEAN
  /\ Statuses \subseteq Terminals /\ MaxCancels \in Nat

VARIABLES
  pc,        \* where the request task is
  cpc,       \* where the cancel call for this response is
  store,     \* the request asked for store = true
  chain,     \* the response and its ancestors
  lock,      \* holder of the response's transition lock
  status,    \* terminal status the request brings to finish()
  carried,   \* requests whose finish() popped a staged record
  pending,   \* _pending_records
  winner,    \* _terminal_winners
  active,    \* _active of the lifecycle store
  wire,      \* ids of _retained
  wireStatus,\* status of each retained response
  wirePins,  \* _pins of the lifecycle store
  state,     \* ids of _records of the state store
  statePins, \* _pins of the state store
  held,      \* _continuation_pins: the chain each owner has pinned
  told,      \* what finish() let the request publish
  toldCancel \* what cancel() returned

vars == <<pc, cpc, store, chain, lock, status, carried, pending, winner,
          active, wire, wireStatus, wirePins, state, statePins, held, told, toldCancel>>

plan == <<store, chain>>
stores == <<wire, wireStatus, wirePins, state, statePins>>
registry == <<pending, winner, active>>
answers == <<told, toldCancel>>

Registered == {"running", "putting", "finishing", "committing", "committed", "refused", "leaving"}

TypeOK ==
  /\ pc \in [Requests -> {"idle", "resolving", "counting", "submitting", "done", "lost"}
                         \cup Registered]
  /\ cpc \in [Requests -> {"idle", "cancelling", "done"}]
  /\ store \in [Requests -> BOOLEAN]
  /\ chain \in [Requests -> SUBSET Requests]
  /\ lock \in [Requests -> {"free", "request", "cancel"}]
  /\ status \in [Requests -> Terminals \cup {None}]
  /\ carried \subseteq Requests /\ pending \subseteq Requests /\ active \subseteq Requests
  /\ winner \in [Requests -> Terminals \cup {None}]
  /\ wire \subseteq Requests /\ state \subseteq Requests
  /\ wireStatus \in [Requests -> Terminals \cup {None}]
  /\ wirePins \in [Requests -> Nat] /\ statePins \in [Requests -> Nat]
  /\ held \in [Requests -> SUBSET Requests]
  /\ told \in [Requests -> Terminals \cup {None, "refused"}]
  /\ toldCancel \in [Requests -> Terminals \cup {None, "refused"}]

Init ==
  /\ pc = [r \in Requests |-> "idle"]
  /\ cpc = [r \in Requests |-> "idle"]
  /\ store = [r \in Requests |-> FALSE]
  /\ chain = [r \in Requests |-> {r}]
  /\ lock = [r \in Requests |-> "free"]
  /\ status = [r \in Requests |-> None]
  /\ carried = {} /\ pending = {} /\ active = {}
  /\ winner = [r \in Requests |-> None]
  /\ wire = {} /\ state = {}
  /\ wireStatus = [r \in Requests |-> None]
  /\ wirePins = [r \in Requests |-> 0]
  /\ statePins = [r \in Requests |-> 0]
  /\ held = [r \in Requests |-> {}]
  /\ told = [r \in Requests |-> None]
  /\ toldCancel = [r \in Requests |-> None]

----------------------------------------------------------------------------
(* Store updates.                                                          *)

Ancestors(r) == chain[r] \ {r}

SetState(ids, pins) ==
  /\ state' = ids
  /\ statePins' = DropPins(pins, ids)

SetWire(ids, statuses, pins) ==
  /\ wire' = ids
  /\ wireStatus' = [r \in Requests |-> IF r \in ids THEN statuses[r] ELSE None]
  /\ wirePins' = DropPins(pins, ids)

(* _release_continuation_pins(): both chains of an owner are unpinned, and  *)
(* the owner holds nothing any more.                                       *)
Released(pins, owner) == Unpin(pins, held[owner])

ReleasePins(owner) ==
  /\ held' = [held EXCEPT ![owner] = {}]
  /\ wirePins' = Released(wirePins, owner)
  /\ statePins' = Released(statePins, owner)

(* _retained_chain_is_consistent(): the walk from r to the root stops at    *)
(* the first ancestor that is not completed in both stores.                *)
Inconsistent(ids, wids, statuses, r) ==
  {c \in chain[r] : c \notin ids \/ c \notin wids \/ statuses[c] # "completed"}

FirstInconsistent(ids, wids, statuses, r) ==
  CHOOSE c \in Inconsistent(ids, wids, statuses, r) :
    Inconsistent(ids, wids, statuses, r) \subseteq chain[c]

(* What the failed walk leaves in the state store and in the wire store: a *)
(* missing record drops r and what was walked below it, a bad resource     *)
(* drops that ancestor with its descendants in both stores.                *)
StateAfterWalk(ids, wids, statuses, r) ==
  LET c == FirstInconsistent(ids, wids, statuses, r)
  IN  RemoveSubtree(ids, chain, IF c \notin ids THEN r ELSE c)

WireAfterWalk(ids, wids, statuses, r) ==
  LET c == FirstInconsistent(ids, wids, statuses, r)
      walked == {d \in chain[r] : c \in Ancestors(d)}
  IN  RemoveSubtrees(wids, chain, IF c \notin ids THEN walked ELSE walked \cup {c})

----------------------------------------------------------------------------
(* The request: POST /v1/responses and POST /v1/responses/input_tokens.    *)

(* Ids a client has seen: they are minted by the server and first shown    *)
(* once the response is registered.                                        *)
Known(r) == pc[r] \in Registered \cup {"done", "lost"}

(* The response r continues.                                               *)
Previous(r) == CHOOSE p \in Ancestors(r) : chain[p] = Ancestors(r)

(* A request without previous_response_id has nothing to resolve.          *)
BeginFresh(r, keep) ==
  /\ pc[r] = "idle"
  /\ pc' = [pc EXCEPT ![r] = "submitting"]
  /\ store' = [store EXCEPT ![r] = keep]
  /\ UNCHANGED <<cpc, chain, lock, status, carried, registry, stores, held, answers>>

(* resolve_previous(): _pin_continuation() pins the chain in both stores   *)
(* or in neither; an unknown chain is answered 404.                        *)
BeginContinuation(r, p, keep) ==
  /\ pc[r] = "idle" /\ p # r /\ Known(p)
  /\ IF chain[p] \subseteq wire /\ chain[p] \subseteq state
       THEN /\ pc' = [pc EXCEPT ![r] = "resolving"]
            /\ store' = [store EXCEPT ![r] = keep]
            /\ chain' = [chain EXCEPT ![r] = chain[p] \cup {r}]
            /\ held' = [held EXCEPT ![r] = chain[p]]
            /\ wirePins' = Pin(wirePins, chain[p])
            /\ statePins' = Pin(statePins, chain[p])
       ELSE /\ pc' = [pc EXCEPT ![r] = "done"]
            /\ UNCHANGED <<plan, held, wirePins, statePins>>
  /\ UNCHANGED <<cpc, lock, status, carried, registry, wire, wireStatus, state, answers>>

(* What resolve_previous() leaves of the stores when it fails.             *)
ResolvedState(p) ==
  IF p \notin wire THEN RemoveSubtree(state, chain, p)
  ELSE IF wireStatus[p] # "completed" \/ Inconsistent(state, wire, wireStatus, p) = {}
    THEN state
  ELSE StateAfterWalk(state, wire, wireStatus, p)

ResolvedWire(p) ==
  IF p \notin wire \/ wireStatus[p] # "completed"
       \/ Inconsistent(state, wire, wireStatus, p) = {}
    THEN wire
  ELSE IF p \notin state THEN RemoveSubtree(wire, chain, p)
  ELSE WireAfterWalk(state, wire, wireStatus, p)

(* The rest of resolve_previous(), under the transition lock of the parent: *)
(* both stores must hold the completed chain; otherwise the pins go and    *)
(* the request is answered 404.                                            *)
Resolve(r, next) ==
  /\ pc[r] = "resolving"
  /\ LET p == Previous(r)
         resolved == p \in wire /\ Inconsistent(state, wire, wireStatus, p) = {}
     IN  /\ lock[p] = "free"
         /\ pc' = [pc EXCEPT ![r] = IF resolved THEN next ELSE "done"]
         /\ held' = [held EXCEPT ![r] = IF resolved THEN @ ELSE {}]
         /\ SetState(ResolvedState(p), IF resolved THEN statePins ELSE Released(statePins, r))
         /\ SetWire(ResolvedWire(p), wireStatus,
                    IF resolved THEN wirePins ELSE Released(wirePins, r))
         /\ pending' = IF p \in wire THEN pending ELSE pending \ {p}
  /\ UNCHANGED <<cpc, plan, lock, status, carried, winner, active, answers>>

(* The request ends before it is registered: tokens counted, submission    *)
(* refused, or the client gone; release_continuation().                    *)
SetupEnds(r) ==
  /\ pc[r] \in {"resolving", "counting", "submitting"}
  /\ pc' = [pc EXCEPT ![r] = "done"]
  /\ ReleasePins(r)
  /\ UNCHANGED <<cpc, plan, lock, status, carried, registry, wire, wireStatus, state, answers>>

(* register_active().                                                      *)
Register(r) ==
  /\ pc[r] = "submitting" /\ lock[r] = "free"
  /\ pc' = [pc EXCEPT ![r] = "running"]
  /\ active' = active \cup {r}
  /\ winner' = [winner EXCEPT ![r] = None]
  /\ UNCHANGED <<cpc, plan, lock, status, carried, pending, stores, held, answers>>

(* The session yields its terminal event.  A completed generation, cut by  *)
(* the output limit (incomplete) or not, is first staged when the response *)
(* is stored.                                                              *)
SessionEnds(r, s) ==
  /\ pc[r] = "running"
  /\ status' = [status EXCEPT ![r] = s]
  /\ pc' = [pc EXCEPT ![r] = IF store[r] /\ s \in {"completed", "incomplete"}
                               THEN "putting" ELSE "finishing"]
  /\ UNCHANGED <<cpc, plan, lock, carried, registry, stores, held, answers>>

(* put(): stage the record until the terminal commits.                     *)
Put(r) ==
  /\ pc[r] = "putting" /\ lock[r] = "free"
  /\ pending' = pending \cup {r}
  /\ pc' = [pc EXCEPT ![r] = "finishing"]
  /\ UNCHANGED <<cpc, plan, lock, status, carried, winner, active, stores, held, answers>>

(* Faulty variant: the late arrival publishes its own status.              *)
BugFinishProjects(r) ==
  /\ pc[r] = "finishing" /\ lock[r] = "free" /\ winner[r] # None
  /\ pc' = [pc EXCEPT ![r] = "leaving"]
  /\ pending' = pending \ {r}
  /\ told' = [told EXCEPT ![r] = status[r]]
  /\ ReleasePins(r)
  /\ UNCHANGED <<cpc, plan, lock, status, carried, winner, active, wire, wireStatus,
                 state, toldCancel>>

(* finish() when an earlier terminal has won: the response becomes it.     *)
FinishProjects(r) ==
  /\ pc[r] = "finishing" /\ lock[r] = "free" /\ winner[r] # None
  /\ pc' = [pc EXCEPT ![r] = "leaving"]
  /\ pending' = pending \ {r}
  /\ told' = [told EXCEPT ![r] = winner[r]]
  /\ ReleasePins(r)
  /\ UNCHANGED <<cpc, plan, lock, status, carried, winner, active, wire, wireStatus,
                 state, toldCancel>>

(* finish() of a response that is not stored.                              *)
FinishTransient(r) ==
  /\ pc[r] = "finishing" /\ lock[r] = "free" /\ winner[r] = None /\ ~store[r]
  /\ pc' = [pc EXCEPT ![r] = "leaving"]
  /\ pending' = pending \ {r}
  /\ active' = active \ {r}
  /\ winner' = [winner EXCEPT ![r] = status[r]]
  /\ told' = [told EXCEPT ![r] = status[r]]
  /\ held' = [held EXCEPT ![r] = {}]
  /\ wirePins' = Released(wirePins, r)
  /\ SetState(RemoveSubtree(state, chain, r), Released(statePins, r))
  /\ UNCHANGED <<cpc, plan, lock, status, carried, wire, wireStatus, toldCancel>>

(* finish() of a stored response: the lock is held while the shielded task *)
(* commits.                                                                *)
FinishBegins(r) ==
  /\ pc[r] = "finishing" /\ lock[r] = "free" /\ winner[r] = None /\ store[r]
  /\ pc' = [pc EXCEPT ![r] = "committing"]
  /\ lock' = [lock EXCEPT ![r] = "request"]
  /\ carried' = carried \cup (pending \cap {r})
  /\ pending' = pending \ {r}
  /\ UNCHANGED <<cpc, plan, status, winner, active, stores, held, answers>>

----------------------------------------------------------------------------
(* _commit_retained_terminal(): one uninterrupted run of the commit task.  *)

(* The wire store can make room for r: its ancestors are retained, and     *)
(* some victims suffice.                                                   *)
WireRooms(r) ==
  IF Ancestors(r) \subseteq wire
    THEN Evictions(wire \cup {r}, chain,
                   WireEvictable(wire \cup {r}, chain, wirePins, chain[r]), WireCap)
    ELSE {}

StateRooms(r) ==
  IF Ancestors(r) \subseteq state
    THEN Evictions(state \cup {r}, chain,
                   StateEvictable(state \cup {r}, chain, statePins, chain[r]), StateCap)
    ELSE {}

(* Retention is refused: no room, a missing ancestor, nothing staged, or   *)
(* too large for a byte budget.                                            *)
CommitRefused(r) ==
  /\ pc[r] = "committing"
  /\ \/ BytesMayRefuse \/ WireRooms(r) = {}
     \/ status[r] = "completed" /\ (r \notin carried \/ StateRooms(r) = {})
  /\ pc' = [pc EXCEPT ![r] = "refused"]
  /\ active' = active \ {r}
  /\ SetState(RemoveSubtree(state, chain, r), statePins)
  /\ SetWire(RemoveSubtree(wire, chain, r), wireStatus, wirePins)
  /\ UNCHANGED <<cpc, plan, lock, status, carried, pending, winner, held, answers>>

(* A completed response enters the state store, then the wire store; each  *)
(* store forgets what the other evicted, and the whole chain must be there *)
(* at the end.  A response that is no longer active is not retained.       *)
CommitCompleted(r, leftS, leftW) ==
  /\ pc[r] = "committing" /\ status[r] = "completed" /\ r \in carried
  /\ WireRooms(r) # {}
  /\ LET ids  == RemoveSubtrees(leftS, chain, wire \ leftW)
         wids == RemoveSubtrees(leftW, chain, state \ leftS)
         statuses == [wireStatus EXCEPT ![r] = IF r \in active THEN "completed" ELSE @]
         ok == Inconsistent(ids, wids, statuses, r) = {}
     IN  /\ pc' = [pc EXCEPT ![r] = IF ok THEN "committed" ELSE "refused"]
         /\ winner' = [winner EXCEPT ![r] = IF ok THEN "completed" ELSE None]
         /\ SetState(IF ok THEN ids
                     ELSE RemoveSubtree(StateAfterWalk(ids, wids, statuses, r), chain, r),
                     statePins)
         /\ SetWire(IF ok THEN wids
                    ELSE RemoveSubtree(WireAfterWalk(ids, wids, statuses, r), chain, r),
                    statuses, wirePins)
  /\ active' = active \ {r}
  /\ pending' = pending \ {r}
  /\ UNCHANGED <<cpc, plan, lock, status, carried, held, answers>>

(* Faulty variant: a completed response is retained in the wire store only *)
(* as well.                                                                *)
BugCommitOther(r, leftW) ==
  /\ pc[r] = "committing"
  /\ WireRooms(r) # {}
  /\ pc' = [pc EXCEPT ![r] = "committed"]
  /\ winner' = [winner EXCEPT ![r] = status[r]]
  /\ active' = active \ {r}
  /\ SetState(RemoveSubtrees(RemoveSubtree(state, chain, r), chain, wire \ leftW), statePins)
  /\ SetWire(leftW, [wireStatus EXCEPT ![r] = status[r]], wirePins)
  /\ UNCHANGED <<cpc, plan, lock, status, carried, pending, held, answers>>

(* Any other terminal is retained in the wire store only.                  *)
CommitOther(r, leftW) ==
  /\ pc[r] = "committing" /\ status[r] # "completed"
  /\ WireRooms(r) # {}
  /\ pc' = [pc EXCEPT ![r] = "committed"]
  /\ winner' = [winner EXCEPT ![r] = status[r]]
  /\ active' = active \ {r}
  /\ SetState(RemoveSubtrees(RemoveSubtree(state, chain, r), chain, wire \ leftW), statePins)
  /\ SetWire(leftW, [wireStatus EXCEPT ![r] = status[r]], wirePins)
  /\ UNCHANGED <<cpc, plan, lock, status, carried, pending, held, answers>>

(* finish_with_evictions() retains r when it is active, or when it was     *)
(* retained as cancelled and is cancelled again.                           *)
Retains(r) ==
  r \in active \/ (r \in wire /\ wireStatus[r] = "cancelled" /\ status[r] = "cancelled")

Commit(r) ==
  \E leftW \in IF Retains(r) THEN WireRooms(r) ELSE {wire} :
    \/ \E leftS \in StateRooms(r) : CommitCompleted(r, leftS, leftW)
    \/ CommitOther(r, leftW)

(* finish() goes on after the commit task.                                 *)
FinishResumes(r) ==
  /\ pc[r] \in {"committed", "refused"}
  /\ told' = [told EXCEPT ![r] = IF pc[r] = "committed" THEN status[r] ELSE "refused"]
  /\ pc' = [pc EXCEPT ![r] = "leaving"]
  /\ lock' = [lock EXCEPT ![r] = "free"]
  /\ carried' = carried \ {r}
  /\ ReleasePins(r)
  /\ UNCHANGED <<cpc, plan, status, registry, wire, wireStatus, state, toldCancel>>

(* The client is gone while finish() waits for the lock or for the commit, *)
(* which completes first.                                                  *)
FinishInterrupted(r) ==
  /\ pc[r] \in {"finishing", "committed", "refused"}
  /\ pc' = [pc EXCEPT ![r] = "leaving"]
  /\ lock' = [lock EXCEPT ![r] = IF pc[r] = "finishing" THEN @ ELSE "free"]
  /\ carried' = carried \ {r}
  /\ ReleasePins(r)
  /\ UNCHANGED <<cpc, plan, status, registry, wire, wireStatus, state, answers>>

(* The client is gone before finish().                                     *)
Disconnect(r) ==
  /\ pc[r] \in {"running", "putting"}
  /\ pc' = [pc EXCEPT ![r] = "leaving"]
  /\ UNCHANGED <<cpc, plan, lock, status, carried, registry, stores, held, answers>>

(* abandon(): an established terminal only loses its tombstone, anything   *)
(* else is discarded everywhere.                                           *)
Abandon(r) ==
  /\ pc[r] = "leaving" /\ lock[r] = "free"
  /\ pc' = [pc EXCEPT ![r] = "done"]
  /\ pending' = pending \ {r}
  /\ winner' = [winner EXCEPT ![r] = None]
  /\ held' = [held EXCEPT ![r] = {}]
  /\ active' = IF winner[r] # None THEN active ELSE active \ {r}
  /\ SetState(IF winner[r] # None THEN state ELSE RemoveSubtree(state, chain, r),
              Released(statePins, r))
  /\ SetWire(IF winner[r] # None THEN wire ELSE RemoveSubtree(wire, chain, r),
             wireStatus, Released(wirePins, r))
  /\ status' = [status EXCEPT ![r] = None]
  /\ UNCHANGED <<cpc, plan, lock, carried, answers>>

(* The session of a request whose client left raises from cancel(): the    *)
(* exception leaves the finally block before abandon() is reached.         *)
LeaveFails(r) ==
  /\ CancelMayFail
  /\ pc[r] = "leaving" /\ lock[r] = "free"
  /\ winner[r] = None /\ status[r] = None /\ cpc[r] = "idle"
  /\ pc' = [pc EXCEPT ![r] = "lost"]
  /\ UNCHANGED <<cpc, plan, lock, status, carried, registry, stores, held, answers>>

----------------------------------------------------------------------------
(* POST /v1/responses/{id}/cancel.                                         *)

(* A client that knows the id calls cancel(), and gets the lock.           *)
MayCancel(r) ==
  /\ Known(r) /\ cpc[r] = "idle" /\ lock[r] = "free"
  /\ Cardinality({o \in Requests : cpc[o] # "idle"}) < MaxCancels

(* cancel() of a response that is not active: a winner is returned, the    *)
(* others are answered 404 or 400.  Either way its pins are released.      *)
CancelLate(r) ==
  /\ MayCancel(r)
  /\ winner[r] # None \/ r \notin active
  /\ cpc' = [cpc EXCEPT ![r] = "done"]
  /\ toldCancel' = [toldCancel EXCEPT ![r] = winner[r]]
  /\ ReleasePins(r)
  /\ UNCHANGED <<pc, plan, lock, status, carried, registry, wire, wireStatus, state, told>>

(* prepare_cancel(), then session.cancel() with the lock held.             *)
CancelBegins(r) ==
  /\ MayCancel(r)
  /\ winner[r] = None /\ r \in active
  /\ cpc' = [cpc EXCEPT ![r] = "cancelling"]
  /\ lock' = [lock EXCEPT ![r] = "cancel"]
  /\ UNCHANGED <<pc, plan, status, carried, registry, stores, held, answers>>

(* _commit_prepared_cancel(): cancelled becomes the terminal, retained if  *)
(* the response is stored.                                                 *)
CancelCommits(r, leftW) ==
  /\ cpc[r] = "cancelling"
  /\ cpc' = [cpc EXCEPT ![r] = "done"]
  /\ lock' = [lock EXCEPT ![r] = "free"]
  /\ toldCancel' = [toldCancel EXCEPT ![r] = "cancelled"]
  /\ winner' = [winner EXCEPT ![r] = "cancelled"]
  /\ pending' = pending \ {r}
  /\ active' = active \ {r}
  /\ held' = [held EXCEPT ![r] = {}]
  /\ SetState(RemoveSubtrees(RemoveSubtree(state, chain, r), chain, wire \ leftW),
              Released(statePins, r))
  /\ SetWire(leftW, [wireStatus EXCEPT ![r] = "cancelled"], Released(wirePins, r))
  /\ UNCHANGED <<pc, plan, status, carried, told>>

(* The cancelled resource does not fit: 500 response_store_refused, and no *)
(* terminal is recorded.                                                   *)
CancelRefused(r) ==
  /\ cpc[r] = "cancelling" /\ store[r]
  /\ BytesMayRefuse \/ WireRooms(r) = {}
  /\ cpc' = [cpc EXCEPT ![r] = "done"]
  /\ lock' = [lock EXCEPT ![r] = "free"]
  /\ toldCancel' = [toldCancel EXCEPT ![r] = "refused"]
  /\ pending' = pending \ {r}
  /\ active' = active \ {r}
  /\ held' = [held EXCEPT ![r] = {}]
  /\ SetState(RemoveSubtree(state, chain, r), Released(statePins, r))
  /\ wirePins' = Released(wirePins, r)
  /\ UNCHANGED <<pc, plan, status, carried, winner, wire, wireStatus, told>>

(* session.cancel() raises: nothing is committed, the pins are released.   *)
CancelFails(r) ==
  /\ CancelMayFail
  /\ cpc[r] = "cancelling"
  /\ cpc' = [cpc EXCEPT ![r] = "done"]
  /\ lock' = [lock EXCEPT ![r] = "free"]
  /\ ReleasePins(r)
  /\ UNCHANGED <<pc, plan, status, carried, registry, wire, wireStatus, state, answers>>

CancelEnds(r) ==
  \/ \E leftW \in IF store[r] THEN WireRooms(r) ELSE {wire} : CancelCommits(r, leftW)
  \/ CancelRefused(r)
  \/ CancelFails(r)

----------------------------------------------------------------------------
(* GET /v1/responses/{id}: an active stored response is shown as it is; a  *)
(* completed one only if its whole chain is in both stores.                *)
Retrieve(r) ==
  /\ Known(r) /\ lock[r] = "free"
  /\ LET shown == r \in active /\ store[r]
         missing == ~shown /\ r \notin wire
         broken == /\ ~shown /\ ~missing /\ wireStatus[r] = "completed"
                   /\ Inconsistent(state, wire, wireStatus, r) # {}
     IN  /\ pending' = IF missing \/ broken THEN pending \ {r} ELSE pending
         /\ winner' = [winner EXCEPT ![r] = IF broken THEN None ELSE @]
         /\ active' = IF broken THEN active \ {r} ELSE active
         /\ SetState(IF missing THEN RemoveSubtree(state, chain, r)
                     ELSE IF broken
                       THEN RemoveSubtree(StateAfterWalk(state, wire, wireStatus, r), chain, r)
                     ELSE state, statePins)
         /\ SetWire(IF broken
                      THEN RemoveSubtree(WireAfterWalk(state, wire, wireStatus, r), chain, r)
                    ELSE wire, wireStatus, wirePins)
  /\ UNCHANGED <<pc, cpc, plan, lock, status, carried, held, answers>>

(* A record of the state store expires and is purged with its subtree.     *)
ExpireState(r) ==
  /\ StateExpirable(state, statePins, r)
  /\ SetState(RemoveSubtree(state, chain, r), statePins)
  /\ UNCHANGED <<pc, cpc, plan, lock, status, carried, registry, wire, wireStatus,
                 wirePins, held, answers>>

(* A retained resource expires and is purged with its subtree.             *)
ExpireWire(r) ==
  /\ WireExpirable(wire, chain, wirePins, r)
  /\ SetWire(RemoveSubtree(wire, chain, r), wireStatus, wirePins)
  /\ UNCHANGED <<pc, cpc, plan, lock, status, carried, registry, state, statePins,
                 held, answers>>

----------------------------------------------------------------------------
RequestStep(r) ==
  \/ \E next \in {"counting", "submitting"} : Resolve(r, next)
  \/ Register(r)
  \/ \E s \in Statuses : SessionEnds(r, s)
  \/ Put(r)
  \/ FinishProjects(r) \/ FinishTransient(r) \/ FinishBegins(r)
  \/ CommitRefused(r) \/ Commit(r)
  \/ FinishResumes(r)
  \/ Abandon(r)

Next ==
  \E r \in Requests :
    \/ \E keep \in StoreChoices : BeginFresh(r, keep)
    \/ \E p \in Requests, keep \in StoreChoices : BeginContinuation(r, p, keep)
    \/ RequestStep(r)
    \/ SetupEnds(r) \/ Disconnect(r) \/ FinishInterrupted(r) \/ LeaveFails(r)
    \/ CancelLate(r) \/ CancelBegins(r) \/ CancelEnds(r)
    \/ Retrieve(r)
    \/ ExpireState(r) \/ ExpireWire(r)

Spec == Init /\ [][Next]_vars

----------------------------------------------------------------------------
(* A continuation's context is never pulled from under it: while an owner  *)
(* holds the pins of resolve_previous(), no expiry, eviction, discard or   *)
(* cross-store synchronisation removes a record of that chain from either  *)
(* store.  The pin counts of both stores are exactly the owners that hold  *)
(* them, so that no record stays pinned for ever and no owner takes        *)
(* another's pin.  Nothing of a request outlives it: once it is done and   *)
(* no cancel is in progress, its registration, its tombstone, its staged   *)
(* record and its pins are gone, in whatever order finish(), cancel(),     *)
(* retrieve() and the disconnect came, and a transition lock is held only  *)
(* by a task that will give it back, also after session.cancel() raised.   *)
PinsAreExact ==
  /\ \A o \in Requests : held[o] \subseteq wire \cap state
  /\ \A r \in Requests :
       LET owners == Cardinality({o \in Requests : r \in held[o]})
       IN  wirePins[r] = owners /\ statePins[r] = owners
  /\ \A r \in Requests :
       /\ (pc[r] = "done" /\ cpc[r] # "cancelling") =>
             r \notin active /\ r \notin pending /\ winner[r] = None /\ held[r] = {}
       /\ lock[r] = "cancel" => cpc[r] = "cancelling"
       /\ lock[r] = "request" => pc[r] \in {"committing", "committed", "refused"}

(* Both stores stay within their budgets and closed under ancestors, so a  *)
(* chain is never half there, whatever was evicted, expired or discarded.  *)
(* And one terminal identity per response: finish() and cancel() never     *)
(* report two different outcomes, what is retained carries the outcome     *)
(* reported, and only a completed response can be continued.               *)
StoresTellTheTruth ==
  /\ Cardinality(wire) <= WireCap /\ Cardinality(state) <= StateCap
  /\ \A r \in wire : chain[r] \subseteq wire
  /\ \A r \in state : chain[r] \subseteq state
  /\ \A r \in Requests :
    /\ (told[r] \in Terminals /\ toldCancel[r] \in Terminals) => told[r] = toldCancel[r]
    /\ (r \in wire /\ told[r] # None) => wireStatus[r] = told[r]
    /\ (r \in wire /\ toldCancel[r] # None) => wireStatus[r] = toldCancel[r]
    /\ (r \in state /\ told[r] # None) => told[r] = "completed"
    /\ (r \in state /\ toldCancel[r] # None) => toldCancel[r] = "completed"

(* "Complete one retained cross-store mutation" (response_authority.py): a *)
(* stored response whose terminal commits is retained with that status in  *)
(* the same step, unless a cancel that found no room was answered as       *)
(* refused and dropped its registration before; and one committed as       *)
(* completed can be continued at once: it and all its ancestors are        *)
(* completed in the wire store and present in the state store.             *)
CommittedIsRetained ==
  [][\A r \in Requests :
       (store[r] /\ winner[r] = None /\ winner'[r] # None) =>
         /\ (r \in wire' /\ wireStatus'[r] = winner'[r]) \/ toldCancel[r] = "refused"
         /\ winner'[r] = "completed" =>
              /\ chain[r] \subseteq wire' /\ chain[r] \subseteq state'
              /\ \A c \in chain[r] : wireStatus'[c] = "completed"]_vars
============================================================================
