---------------------------- MODULE CachingStore ----------------------------
(* caching_store_wrapper.js over an asynchronous persistent store, for one data
   kind.  Writes go through the update queue (module UpdateQueue); reads do not,
   so a read may be on its way while a write starts, is stored and calls back.

   The persistent store answers in any order, and may fail as redis_feature_store.js
   does (module RedisStore): a read that fails looks like one that finds nothing, an
   init() that fails is reported as done, an upsert reports the item it left in the
   store or an error that says nothing of whether the write happened, and it may
   overwrite an item it could not read.  This process is its only writer.

   A read that hits a cache changes no state, so only misses are actions.
   Operators named <name>_<variant> are mistakes the runs must detect.       *)
EXTENDS UpdateQueue

CONSTANTS
  Key,        \* keys of the data kind
  Item,       \* item values, tombstones included
  Reader,     \* slots for reads in flight
  NotFound,   \* null: the store has no such item
  Miss,       \* undefined: the cache has no such entry
  Upserts,    \* [key, item] records that upsert() and delete() may be called with
  Datasets,   \* data sets that init() may be called with
  CacheOn     \* ttl is not zero

ASSUME CachingAssumption ==
  /\ Key # {}
  /\ Item \subseteq [version : Nat, deleted : BOOLEAN]
  /\ NotFound \notin Item /\ Miss \notin Item /\ NotFound # Miss
  /\ Upserts \subseteq [key : Key, item : Item]
  /\ Datasets \subseteq [Key -> Item \cup {NotFound}]
  /\ Miss \notin [Key -> Item \cup {NotFound}]
  /\ NotFound \notin [Key -> Item \cup {NotFound}]
  /\ CacheOn \in BOOLEAN

VARIABLES
  store,          \* the items in the persistent store
  storeInited,    \* initInternal has been performed
  request,        \* the arguments of every unfinished update
  writeState,     \* how far the store is with every update's call
  writeResult,    \* updatedItem of a stored upsert
  itemCache,      \* cacheKey(kind, key) entries
  allCache,       \* the allCacheKey(kind) entry
  checkedInit,    \* the initializedKey entry is present
  initialized,    \* the wrapper's flag
  fetch,          \* the store call of every reader
  itemDoubtful,   \* history: entry set by a read that failed or that a write had
                  \* overtaken, or by a lost write
  allDoubtful,    \* history: the same for the allCacheKey entry
  initDoubtful    \* history: the same for what initialized() remembers

storeVars == <<store, storeInited>>
cacheVars == <<itemCache, allCache, checkedInit, initialized>>
historyVars == <<itemDoubtful, allDoubtful, initDoubtful>>
writeVars == <<request, writeState, writeResult>>
vars == <<queueVars, storeVars, writeVars, cacheVars, fetch, historyVars>>

Data == [Key -> Item \cup {NotFound}]
NoRequest == [op |-> "none"]
Fetch(op, k, stage) ==
  [op |-> op, key |-> k, stage |-> stage, result |-> NotFound, doubtful |-> FALSE]
Idle == Fetch("none", CHOOSE k \in Key : TRUE, "idle")

Init ==
  /\ QueueInit
  /\ store = [k \in Key |-> NotFound] /\ storeInited = FALSE
  /\ request = [u \in Updates |-> NoRequest]
  /\ writeState = [u \in Updates |-> "none"]
  /\ writeResult = [u \in Updates |-> NotFound]
  /\ itemCache = [k \in Key |-> Miss] /\ allCache = Miss
  /\ checkedInit = FALSE /\ initialized = FALSE
  /\ fetch = [r \in Reader |-> Idle]
  /\ itemDoubtful = [k \in Key |-> FALSE] /\ allDoubtful = FALSE /\ initDoubtful = FALSE

-----------------------------------------------------------------------------
(* Writes *)

\* The updates this step invokes.
Started == {u \in Updates : inProgress'[u] > inProgress[u]}

\* An upsert flushes the "all" entry of every kind before it calls the store.
FlushedBy_Nothing(started) == FALSE
FlushedBy(started) == \E u \in started : request'[u].op = "upsert"

StartWrites ==
  /\ writeState' = [u \in Updates |-> IF u \in Started THEN "sent" ELSE writeState[u]]
  /\ allCache' = IF FlushedBy(Started) THEN Miss ELSE allCache
  /\ UNCHANGED <<storeVars, writeResult, itemCache, checkedInit, initialized, fetch,
                 historyVars>>

\* upsert(), delete() and init() enqueue an update.
Submit(req) ==
  /\ Enqueue
  /\ request' = [request EXCEPT ![submitted'] = req]
  /\ StartWrites

RunNextUpdate ==
  /\ ExecutePendingUpdates
  /\ UNCHANGED request
  /\ StartWrites

\* What the cache stores for the key after an upsert that left result in the store.
CachedAfter_NewItem(u) == request[u].item
CachedAfter(u) == writeResult[u]

UpsertCallback(u) ==
  /\ IF CacheOn /\ writeState[u] = "stored"
       THEN /\ itemCache' = [itemCache EXCEPT ![request[u].key] = CachedAfter(u)]
            /\ itemDoubtful' = [itemDoubtful EXCEPT ![request[u].key] = FALSE]
       ELSE UNCHANGED <<itemCache, itemDoubtful>>
  /\ UNCHANGED <<allCache, checkedInit, initialized, allDoubtful, initDoubtful>>

\* afterInit is not told of errors: whether the store took the data set or not, it flushes
\* the whole cache and fills it with the data set.
AfterInit_FillsOnly(u) ==
  /\ allCache' = IF CacheOn THEN request[u].data ELSE allCache
  /\ UNCHANGED <<initialized, checkedInit, itemCache, historyVars>>
AfterInit(u) ==
  /\ initialized' = TRUE
  /\ initDoubtful' = (writeState[u] = "lost")
  /\ IF CacheOn
       THEN /\ checkedInit' = FALSE
            /\ allCache' = request[u].data
            /\ itemCache' = [k \in Key |-> IF request[u].data[k] = NotFound
                                             THEN Miss ELSE request[u].data[k]]
            /\ itemDoubtful' = [k \in Key |-> writeState[u] = "lost"]
            /\ allDoubtful' = (writeState[u] = "lost")
       ELSE UNCHANGED <<checkedInit, allCache, itemCache, itemDoubtful, allDoubtful>>

\* The queue moves on whether the store reports success or an error.
Answered_OnlyOnSuccess(u) == writeState[u] = "stored"
Answered(u) == writeState[u] \in {"stored", "failed", "lost"}

\* The store calls back: the caches are set, then the queue moves on.
WriteCallback(u) ==
  /\ Answered(u)
  /\ NewCb(u)
  /\ writeState' = [writeState EXCEPT ![u] = "none"]
  /\ writeResult' = [writeResult EXCEPT ![u] = NotFound]
  /\ request' = [request EXCEPT ![u] = NoRequest]
  /\ \/ request[u].op = "upsert" /\ UpsertCallback(u)
     \/ request[u].op = "init" /\ AfterInit(u)
  /\ UNCHANGED <<storeVars, fetch>>

-----------------------------------------------------------------------------
(* Reads that miss the cache *)

CanCall(r) == fetch[r].stage = "idle"

Call(r, op, k) ==
  /\ fetch' = [fetch EXCEPT ![r] = Fetch(op, k, "sent")]
  /\ UNCHANGED <<queueVars, storeVars, writeVars, cacheVars, historyVars>>

Get(r, k) ==
  /\ CanCall(r)
  /\ ~(CacheOn /\ itemCache[k] # Miss)
  /\ Call(r, "get", k)

All(r) ==
  /\ CanCall(r)
  /\ ~(CacheOn /\ allCache # Miss)
  /\ Call(r, "all", Idle.key)

Initialized(r) ==
  /\ CanCall(r)
  /\ ~initialized
  /\ ~(CacheOn /\ checkedInit)
  /\ Call(r, "initialized", Idle.key)

\* get() and all() hide the items marked deleted.
Shown(item) == IF item # NotFound /\ ~item.deleted THEN item ELSE NotFound

Visible_Everything(data) == data
Visible(data) == [k \in Key |-> Shown(data[k])]

GetReply(r) ==
  /\ IF CacheOn
       THEN /\ itemCache' = [itemCache EXCEPT ![fetch[r].key] = fetch[r].result]
            /\ itemDoubtful' = [itemDoubtful EXCEPT ![fetch[r].key] = fetch[r].doubtful]
       ELSE UNCHANGED <<itemCache, itemDoubtful>>
  /\ UNCHANGED <<allCache, checkedInit, initialized, allDoubtful, initDoubtful>>

\* The store has been sent an upsert it has not performed: what all() is about to
\* cache will be old, and the flush for that upsert is already over.
UpsertPending == \E u \in Updates : writeState[u] = "sent" /\ request[u].op = "upsert"

AllReply_CachesNothing(r) ==
  /\ IF CacheOn
       THEN /\ allCache' = IF fetch[r].result = NotFound THEN NotFound
                                                       ELSE Visible(fetch[r].result)
            /\ allDoubtful' = (fetch[r].doubtful \/ UpsertPending)
       ELSE UNCHANGED <<allCache, allDoubtful>>
  /\ UNCHANGED <<itemCache, checkedInit, initialized, itemDoubtful, initDoubtful>>
AllReply(r) ==
  /\ IF CacheOn /\ fetch[r].result # NotFound
       THEN /\ allCache' = Visible(fetch[r].result)
            /\ allDoubtful' = (fetch[r].doubtful \/ UpsertPending)
       ELSE UNCHANGED <<allCache, allDoubtful>>
  /\ UNCHANGED <<itemCache, checkedInit, initialized, itemDoubtful, initDoubtful>>

\* Only the answer no is put into the cache.
InitializedReply(r) ==
  /\ initialized' = fetch[r].result
  /\ checkedInit' = (checkedInit \/ (CacheOn /\ ~fetch[r].result))
  /\ initDoubtful' = fetch[r].doubtful
  /\ UNCHANGED <<itemCache, allCache, itemDoubtful, allDoubtful>>

ReadCallback(r) ==
  /\ fetch[r].stage = "read"
  /\ \/ fetch[r].op = "get" /\ GetReply(r)
     \/ fetch[r].op = "all" /\ AllReply(r)
     \/ fetch[r].op = "initialized" /\ InitializedReply(r)
  /\ fetch' = [fetch EXCEPT ![r] = Idle]
  /\ UNCHANGED <<queueVars, storeVars, writeVars>>

-----------------------------------------------------------------------------
(* The time to live of the cache's entries *)

ExpireItem_Never(k) == FALSE /\ UNCHANGED vars
ExpireItem(k) ==
  /\ itemCache[k] # Miss
  /\ itemCache' = [itemCache EXCEPT ![k] = Miss]
  /\ UNCHANGED <<queueVars, storeVars, writeVars, allCache, checkedInit, initialized,
                 fetch, historyVars>>

ExpireAll ==
  /\ allCache # Miss
  /\ allCache' = Miss
  /\ UNCHANGED <<queueVars, storeVars, writeVars, itemCache, checkedInit, initialized,
                 fetch, historyVars>>

ExpireCheckedInit ==
  /\ checkedInit
  /\ checkedInit' = FALSE
  /\ UNCHANGED <<queueVars, storeVars, writeVars, itemCache, allCache, initialized,
                 fetch, historyVars>>

-----------------------------------------------------------------------------
(* The persistent store *)

\* upsertInternal's version rule.
Newer(item, old) == old = NotFound \/ old.version < item.version

\* A read whose answer update u may change.
Overtakes(u, call) ==
  /\ call.stage = "read"
  /\ request[u].op = "init" \/ call.op = "all" \/ (call.op = "get" /\ call.key = request[u].key)

\* The reads that have been performed and not delivered are now out of date.
OvertakeReads(u) ==
  fetch' = [r \in Reader |->
              IF Overtakes(u, fetch[r]) THEN [fetch[r] EXCEPT !.doubtful = TRUE] ELSE fetch[r]]

\* The old item decides, unless the read of it came back with nothing.
StoreUpserts(u) ==
  /\ writeState[u] = "sent" /\ request[u].op = "upsert"
  /\ LET k == request[u].key
         item == request[u].item
     IN  \E final \in {item, IF Newer(item, store[k]) THEN item ELSE store[k]},
            outcome \in {"stored", "failed"} :    \* failed: the answer is lost
           /\ store' = [store EXCEPT ![k] = final]
           /\ writeResult' = [writeResult EXCEPT ![u] = final]
           /\ writeState' = [writeState EXCEPT ![u] = outcome]
           /\ itemDoubtful' = [itemDoubtful EXCEPT ![k] = @ \/ outcome = "failed"]
  /\ OvertakeReads(u)
  /\ UNCHANGED <<queueVars, request, storeInited, cacheVars, allDoubtful, initDoubtful>>

\* Nothing is written, and the callback says so of an upsert, not of an init().
StoreRefuses(u) ==
  /\ writeState[u] = "sent"
  /\ writeState' =
       [writeState EXCEPT ![u] = IF request[u].op = "upsert" THEN "failed" ELSE "lost"]
  /\ UNCHANGED <<queueVars, request, writeResult, storeVars, cacheVars, fetch, historyVars>>

StoreInits(u) ==
  /\ writeState[u] = "sent" /\ request[u].op = "init"
  /\ store' = request[u].data /\ storeInited' = TRUE
  /\ writeState' = [writeState EXCEPT ![u] = "stored"]
  /\ OvertakeReads(u)
  /\ UNCHANGED <<queueVars, request, writeResult, cacheVars, historyVars>>

\* What the call finds, and whether that is less than there is.
Reading(r, result, wrong) ==
  fetch' = [fetch EXCEPT ![r].stage = "read", ![r].result = result, ![r].doubtful = wrong]

\* A read that fails, or that is made while the connection is down, finds nothing; all()
\* does not cache that.  A store may also hide a deleted item by itself.
StoreReads(r) ==
  /\ fetch[r].stage = "sent"
  /\ LET item == store[fetch[r].key]
     IN  \/ fetch[r].op = "get" /\ Reading(r, item, FALSE)
         \/ fetch[r].op = "get" /\ Reading(r, NotFound, Shown(item) # NotFound)
         \/ fetch[r].op = "all" /\ Reading(r, store, FALSE)
         \/ fetch[r].op = "all" /\ Reading(r, NotFound, FALSE)
         \/ fetch[r].op = "initialized" /\ Reading(r, storeInited, FALSE)
         \/ fetch[r].op = "initialized" /\ Reading(r, FALSE, storeInited)
  /\ UNCHANGED <<queueVars, storeVars, writeVars, cacheVars, historyVars>>

-----------------------------------------------------------------------------

Requests ==
  {[op |-> "upsert", key |-> u.key, item |-> u.item] : u \in Upserts}
    \cup {[op |-> "init", data |-> d] : d \in Datasets}

Next ==
  \/ \E req \in Requests : Submit(req)
  \/ RunNextUpdate
  \/ \E u \in Updates :
       StoreUpserts(u) \/ StoreRefuses(u) \/ StoreInits(u) \/ WriteCallback(u)
  \/ \E r \in Reader :
       \/ \E k \in Key : Get(r, k)
       \/ All(r) \/ Initialized(r)
       \/ StoreReads(r) \/ ReadCallback(r)
  \/ \E k \in Key : ExpireItem(k)
  \/ ExpireAll
  \/ ExpireCheckedInit

\* The event loop runs what is scheduled, the store answers every call, and what
\* stays in the cache expires.  Nobody has to read or write.
Fairness ==
  /\ WF_vars(RunNextUpdate)
  /\ \A u \in Updates :
       /\ WF_vars(StoreUpserts(u) \/ StoreRefuses(u) \/ StoreInits(u))
       /\ WF_vars(WriteCallback(u))
  /\ \A r \in Reader : WF_vars(StoreReads(r)) /\ WF_vars(ReadCallback(r))
  /\ \A k \in Key : WF_vars(ExpireItem(k))
  /\ WF_vars(ExpireAll) /\ WF_vars(ExpireCheckedInit)

Spec == Init /\ [][Next]_vars /\ Fairness

-----------------------------------------------------------------------------
(* Properties *)

Cached == Item \cup {NotFound, Miss}

\* The calls of a reader that wait for the store or for their callback.
Calls(op, results) ==
  [op : {op}, key : Key, stage : {"sent", "read"}, result : results \cup {NotFound},
   doubtful : BOOLEAN]
Fetches ==
  {Idle} \cup Calls("get", Item) \cup Calls("all", Data) \cup Calls("initialized", BOOLEAN)

\* Every variable keeps its type.
TypeOK ==
  /\ QueueTypeOK
  /\ store \in Data /\ storeInited \in BOOLEAN
  /\ request \in [Updates -> Requests \cup {NoRequest}]
  /\ writeState \in [Updates -> {"none", "sent", "stored", "failed", "lost"}]
  /\ writeResult \in [Updates -> Item \cup {NotFound}]
  /\ itemCache \in [Key -> Cached] /\ allCache \in Data \cup {Miss}
  /\ checkedInit \in BOOLEAN /\ initialized \in BOOLEAN
  /\ fetch \in [Reader -> Fetches]
  /\ itemDoubtful \in [Key -> BOOLEAN] /\ allDoubtful \in BOOLEAN
  /\ initDoubtful \in BOOLEAN

\* The store has accepted an update that touches key k and has yet to call back.
Unreported(k) ==
  \E u \in Updates :
    /\ writeState[u] = "stored"
    /\ request[u].op = "init" \/ request[u].key = k

\* What get() answers from the cache is what the store would show, unless the store's
\* answer to a write of that key is on its way, or the entry is doubtful: set by a read
\* that failed or that a write overtook, by an init() that the store refused, or left
\* by an upsert that was reported as an error although it had happened.  In every other
\* circumstance the cache and the store agree after every upsert, whichever version won,
\* and after every init.
ItemCoherent ==
  \A k \in Key :
    itemCache[k] # Miss /\ ~itemDoubtful[k] =>
      Shown(itemCache[k]) = Shown(store[k]) \/ Unreported(k)

\* The same for the entry that holds all items, which an upsert flushes instead of
\* refreshing: reads that overlap an upsert and an init() that the store refused are the
\* only ways for it to be stale once an init has called back.
AllCoherent ==
  allCache # Miss /\ ~allDoubtful =>
    \/ Visible(allCache) = Visible(store)
    \/ \E u \in Updates : writeState[u] = "stored" /\ request[u].op = "init"

\* all() answers from its cache without looking at the items again, so no deleted
\* item may be cached there.
AllHidesDeleted ==
  allCache # Miss => \A k \in Key : allCache[k] # NotFound => ~allCache[k].deleted

InitUnreported == \E u \in Updates : writeState[u] = "stored" /\ request[u].op = "init"

\* What initialized() answers without asking the store is right in both directions: it
\* says yes only of a store that has been initialized, and it goes on saying no only of
\* one that has not, or whose init has yet to call back.  The exceptions are recorded:
\* the last answer came from a read that failed or that the init overtook, or from an
\* init() that the store refused, which the wrapper takes for done.
InitializedCoherent ==
  ~initDoubtful =>
    /\ initialized => storeInited
    /\ ~initialized /\ checkedInit => ~storeInited \/ InitUnreported

Stale ==
  \/ \E k \in Key : itemCache[k] # Miss /\ Shown(itemCache[k]) # Shown(store[k])
  \/ allCache # Miss /\ Visible(allCache) # Visible(store)

\* Once the updates stop, and reads no longer fail, expiry removes every stale entry and
\* no read brings a stale value back: the caches settle on what the store holds.
EventuallyFresh == <>[](\A r \in Reader : ~fetch[r].doubtful) => <>[]~Stale
=============================================================================
