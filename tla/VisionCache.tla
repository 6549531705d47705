----------------------------- MODULE VisionCache -----------------------------
(***************************************************************************)
(* The cache of image embeddings (runtime/vision_cache.py) and the worker  *)
(* threads that use it while they render prompts (the image part of        *)
(* _ExLlamaV3PromptRenderer.render in runtime/exllamav3.py), each with the *)
(* cancellation its event-loop task may set at any moment                  *)
(* (serving/preprocessing.py, _PreprocessingCancellation).                 *)
(*                                                                         *)
(* These are threads, so a step is what runs under one lock.  An embedding *)
(* is a number, new for every computation; counters for the statistics are *)
(* left out, and so are get, peek and put, which rendering does not use.   *)
(***************************************************************************)
EXTENDS Naturals, Sequences, FiniteSets, SequencesExt

CONSTANTS
    Keys,       \* digests of images
    Size,       \* retained bytes of a key's embedding; Unsafe if it may not be cached
    Unsafe,
    Budget,     \* max_retained_bytes
    Threads,    \* renderer lanes
    Nobody,     \* no thread
    MaxRenders  \* bound: prompts with images that are rendered

ASSUME VisionAssumption ==
    /\ Budget \in Nat /\ MaxRenders \in Nat
    /\ Unsafe \notin Nat /\ Nobody \notin Threads
    /\ Size \in [Keys -> Nat \cup {Unsafe}]

VARIABLES
    order,     \* the keys of _entries, oldest first
    emb,       \* the embedding cached for a key, 0 for none
    retained,  \* _retained_tensor_bytes
    last,      \* the request of _last_request: its keys and its protected prefix
    holder,    \* the holder of vision_transaction_lock
    th,        \* the threads
    made,      \* embeddings computed so far
    renders    \* renders begun

cache == <<order, emb, retained, last>>
cacheVars == <<cache, holder, th, made, renders>>

(* Requests name every image once.                                         *)
Requests == {q \in UNION {[1..n -> Keys] : n \in 1..Cardinality(Keys)} :
               \A i, j \in DOMAIN q : q[i] = q[j] => i = j}

Places == {"idle", "waiting", "resolving", "guarded", "refused", "leaving"}

(* The types of all variables.                                             *)
CacheTypes ==
    /\ Range(order) \subseteq Keys
    /\ emb \in [Keys -> Nat] /\ retained \in Nat
    /\ holder \in Threads \cup {Nobody}
    /\ th \in [Threads -> [pc : Places, keys : Requests \cup {<<>>},
                           resolved : [Keys -> Nat], cancelled : BOOLEAN]]
    /\ made \in Nat /\ renders \in 0..MaxRenders

IdleThread == [pc |-> "idle", keys |-> <<>>, resolved |-> [k \in Keys |-> 0], cancelled |-> FALSE]

CacheInit ==
    /\ order = <<>> /\ emb = [k \in Keys |-> 0] /\ retained = 0
    /\ last = [keys |-> <<>>, prefix |-> 0]
    /\ holder = Nobody /\ th = [t \in Threads |-> IdleThread]
    /\ made = 0 /\ renders = 0

-----------------------------------------------------------------------------
(* commit_request.                                                         *)

Fits(k, used) == Size[k] # Unsafe /\ used + Size[k] <= Budget

(* The keys that fit one after the other, without those skipped.           *)
Greedy(keys, skipped, used) ==
    FoldLeft(LAMBDA acc, k : IF k \notin skipped /\ Fits(k, acc.used)
                             THEN [kept |-> Append(acc.kept, k), used |-> acc.used + Size[k]]
                             ELSE acc,
             [kept |-> <<>>, used |-> used], keys)

(* The longest beginning of the request that fits.                         *)
PrefixScan(keys) ==
    FoldLeft(LAMBDA acc, k : IF acc.open /\ Fits(k, acc.used)
                             THEN [n |-> acc.n + 1, used |-> acc.used + Size[k], open |-> TRUE]
                             ELSE [acc EXCEPT !.open = FALSE],
             [n |-> 0, used |-> 0, open |-> TRUE], keys)

ProtectedPrefix(keys) == PrefixScan(keys).n

(* The images of the request that stay: the prefix, then what still fits.  *)
RetainedCurrent(keys) == Greedy(keys, {}, 0)

(* Faulty variant: the room that the request takes is not deducted.        *)
BugSelectedOld(keys, used) == Greedy(Reverse(order), Range(keys), 0)

(* The older entries that still fit, the newest first.                     *)
SelectedOld(keys, used) == Greedy(Reverse(order), Range(keys), used)

Bytes(keys) == FoldLeft(LAMBDA n, k : n + Size[k], 0, keys)

CommitRequest(t) ==
    LET keys == th[t].keys
        cur == RetainedCurrent(keys)
        old == SelectedOld(keys, cur.used)
        new == Reverse(old.kept) \o cur.kept
    IN /\ order' = new
       /\ emb' = [k \in Keys |-> IF k \in Range(cur.kept) THEN th[t].resolved[k]
                               ELSE IF k \in Range(old.kept) THEN emb[k] ELSE 0]
       /\ retained' = Bytes(new)
       /\ last' = [keys |-> keys, prefix |-> ProtectedPrefix(keys)]

-----------------------------------------------------------------------------
(* The images of the thread's request.                                     *)
Asked(t) == {th[t].keys[i] : i \in DOMAIN th[t].keys}

(* A lane is leased and its thread starts rendering a prompt with images.  *)
RenderBegins(t, keys) ==
    /\ th[t].pc = "idle" /\ renders < MaxRenders
    /\ renders' = renders + 1
    /\ th' = [th EXCEPT ![t] = [IdleThread EXCEPT !.pc = "waiting", !.keys = keys]]
    /\ UNCHANGED <<cache, holder, made>>

(* Faulty variant: the transaction lock is not taken.                      *)
BugSnapshotRequest(t) ==
    /\ th[t].pc = "waiting"
    /\ holder' = t
    /\ th' = [th EXCEPT ![t].pc = "resolving",
                        ![t].resolved = [k \in Keys |-> IF k \in Asked(t) THEN emb[k] ELSE 0]]
    /\ UNCHANGED <<cache, made, renders>>

(* It takes vision_transaction_lock and the cached embeddings.             *)
SnapshotRequest(t) ==
    /\ th[t].pc = "waiting" /\ holder = Nobody
    /\ holder' = t
    /\ th' = [th EXCEPT ![t].pc = "resolving",
                        ![t].resolved = [k \in Keys |-> IF k \in Asked(t) THEN emb[k] ELSE 0]]
    /\ UNCHANGED <<cache, made, renders>>

(* get_image_embeddings for the next image that was not cached.            *)
Resolve(t, k) ==
    /\ th[t].pc = "resolving"
    /\ \E i \in DOMAIN th[t].keys :
         /\ th[t].keys[i] = k /\ th[t].resolved[k] = 0
         /\ \A j \in 1..(i - 1) : th[t].resolved[th[t].keys[j]] # 0
    /\ made' = made + 1
    /\ th' = [th EXCEPT ![t].resolved[k] = made + 1]
    /\ UNCHANGED <<cache, holder, renders>>

(* Decoding, embedding or encoding may raise; the lock is left.            *)
RenderFails(t) ==
    /\ th[t].pc = "resolving"
    /\ holder' = Nobody
    /\ th' = [th EXCEPT ![t].pc = "leaving"]
    /\ UNCHANGED <<cache, made, renders>>

(* commit_guard: the cancellation's lock is taken and its flag is read.    *)
CommitGuard(t) ==
    /\ th[t].pc = "resolving" /\ \A k \in Asked(t) : th[t].resolved[k] # 0
    /\ th' = [th EXCEPT ![t].pc = IF th[t].cancelled THEN "refused" ELSE "guarded"]
    /\ UNCHANGED <<cache, holder, made, renders>>

(* The request is committed or, when it was cancelled, not; then the       *)
(* guard and the transaction lock are left.                                *)
Commit(t) ==
    /\ th[t].pc \in {"guarded", "refused"}
    /\ IF th[t].pc = "guarded" THEN CommitRequest(t) ELSE UNCHANGED cache
    /\ holder' = Nobody
    /\ th' = [th EXCEPT ![t].pc = "leaving"]
    /\ UNCHANGED <<made, renders>>

(* Faulty variant: the flag is set without the lock.                       *)
BugCancel(t) ==
    /\ th[t].pc # "idle" /\ ~th[t].cancelled
    /\ th' = [th EXCEPT ![t].cancelled = TRUE]
    /\ UNCHANGED <<cache, holder, made, renders>>

(* The task that waits for the render is cancelled: set() takes the lock   *)
(* of the guard.                                                           *)
Cancel(t) ==
    /\ th[t].pc \in {"waiting", "resolving", "leaving"} /\ ~th[t].cancelled
    /\ th' = [th EXCEPT ![t].cancelled = TRUE]
    /\ UNCHANGED <<cache, holder, made, renders>>

(* The thread exits and the lane is given back.                            *)
RenderEnds(t) ==
    /\ th[t].pc = "leaving"
    /\ th' = [th EXCEPT ![t] = IdleThread]
    /\ UNCHANGED <<cache, holder, made, renders>>

(* close() of the runtime, once no lane is leased, clears the cache.       *)
Clear ==
    /\ \A t \in Threads : th[t].pc = "idle"
    /\ order' = <<>> /\ emb' = [k \in Keys |-> 0] /\ retained' = 0
    /\ last' = [keys |-> <<>>, prefix |-> 0]
    /\ UNCHANGED <<holder, th, made, renders>>

Works(t) ==
    \/ SnapshotRequest(t) \/ (\E k \in Keys : Resolve(t, k))
    \/ CommitGuard(t) \/ Commit(t) \/ RenderEnds(t)

CacheNext ==
    \/ \E t \in Threads : \/ \E keys \in Requests : RenderBegins(t, keys)
                          \/ Works(t) \/ RenderFails(t) \/ Cancel(t)
    \/ Clear

CacheSpec == CacheInit /\ [][CacheNext]_cacheVars

-----------------------------------------------------------------------------
Cached == {k \in Keys : emb[k] # 0}

(* The bytes accounted for are exactly those of the entries, every key has *)
(* one entry, and the budget is kept, whatever was committed before        *)
(* (_retained_tensor_bytes after commit_request and clear); and after a    *)
(* commit the longest beginning of the request's images that fits the      *)
(* budget is cached: a repeated prompt finds its prefix again.             *)
CacheIsExact ==
    /\ Range(order) = Cached /\ Len(order) = Cardinality(Cached)
    /\ \A k \in Cached : Size[k] # Unsafe
    /\ retained = Bytes(order)
    /\ retained <= Budget
    /\ \A i \in 1..last.prefix : emb[last.keys[i]] # 0
    /\ \A n \in DOMAIN last.keys :
         n > last.prefix =>
           \/ \E i \in 1..n : Size[last.keys[i]] = Unsafe
           \/ Bytes(SubSeq(last.keys, 1, n)) > Budget

(* A thread inside its transaction works on the embeddings that are still  *)
(* cached: what it took from the cache, or computed because it was not     *)
(* there, is never overtaken by another thread's commit, so one image has  *)
(* one embedding for all prompts that share it.                            *)
SnapshotIsCurrent ==
    \A t \in Threads : th[t].pc \in {"resolving", "guarded", "refused"} =>
       \A k \in Keys : emb[k] # 0 /\ k \in Asked(t) => th[t].resolved[k] = emb[k]

(* Once set() of a render's cancellation has returned, that render no      *)
(* longer publishes anything in the cache.                                 *)
NoPublishAfterCancel ==
    [][\A t \in Threads : th[t].pc = "guarded" /\ th'[t].pc = "leaving" => ~th[t].cancelled]_cacheVars
=============================================================================
