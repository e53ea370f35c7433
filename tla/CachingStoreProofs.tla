------------------------- MODULE CachingStoreProofs -------------------------
(* The wrapper's updates are serial, and its caches and initialized() agree with the
   store except where AllCoherent, ItemCoherent and InitializedCoherent say, for any
   number of keys, updates and concurrent reads.

   The queue comes first: it is serial and in order for any number of updates, and
   implements SerialUpdates (its safety part).  Its three invariants support each
   other: that newCb shifts the update that called back needs Serial, that the next
   update is finished + 1 needs InOrder, and that the counters stay in bounds needs
   both.

   The caches are coherent because of what is known of the calls in flight: a
   stored update's result is still what the store holds (WriteInv: nothing else can
   have written, by Serial), and so is the result of a read that did not fail and
   that no write overtook (ReadInv); and while an upsert is pending the "all" entry
   is flushed or marked (FlushInv).                                          *)
EXTENDS CachingStore, SequenceTheorems, TLAPS

-----------------------------------------------------------------------------
(* The queue *)

QueueInv == QueueTypeOK /\ InOrder /\ Serial

\* The empty queue satisfies the invariant.
LEMMA QueueInitInv == QueueInit => QueueInv
  BY MaxUpdatesAssumption DEF QueueInit, QueueInv, QueueTypeOK, InOrder, Serial, Updates

\* enqueue() keeps the invariant: the new update starts only on an empty array.
LEMMA EnqueueInv == QueueInv /\ Enqueue => QueueInv'
<1> SUFFICES ASSUME QueueInv, Enqueue PROVE QueueInv'
  OBVIOUS
<1> USE MaxUpdatesAssumption DEF Updates
<1>1. /\ updateQueue \in Seq(Updates) /\ inProgress \in [Updates -> Nat]
      /\ immediates \in Nat /\ submitted \in 0..MaxUpdates /\ finished \in 0..MaxUpdates
  BY DEF QueueInv, QueueTypeOK
<1>2. /\ submitted < MaxUpdates /\ submitted' = submitted + 1
      /\ updateQueue' = Append(updateQueue, submitted + 1)
      /\ immediates' = immediates /\ finished' = finished
      /\ inProgress' = IF Len(updateQueue') = 1 THEN Invoked(updateQueue') ELSE inProgress
  BY DEF Enqueue, StartsAtOnce
<1>3. /\ updateQueue' \in Seq(Updates) /\ Len(updateQueue') = Len(updateQueue) + 1
      /\ updateQueue' # <<>>
      /\ \A i \in 1..Len(updateQueue) : updateQueue'[i] = updateQueue[i]
      /\ updateQueue'[Len(updateQueue) + 1] = submitted + 1
  BY <1>1, <1>2, AppendProperties
<1>4. InOrder'
  <2>1. /\ Len(updateQueue) \in Nat /\ submitted = finished + Len(updateQueue)
        /\ \A i \in 1..Len(updateQueue) : updateQueue[i] = finished + i
    BY <1>1, LenProperties DEF QueueInv, InOrder
  <2>2. submitted' = finished' + Len(updateQueue')
    BY <1>1, <1>2, <1>3, <2>1
  <2>3. ASSUME NEW i \in 1..Len(updateQueue') PROVE updateQueue'[i] = finished' + i
    <3>1. i \in 1..Len(updateQueue) \/ i = Len(updateQueue) + 1
      BY <1>3, <2>1
    <3>2. CASE i \in 1..Len(updateQueue)
      BY <1>2, <1>3, <2>1, <3>2
    <3>3. CASE i = Len(updateQueue) + 1
      <4>1. updateQueue'[i] = submitted + 1
        BY <1>3, <3>3
      <4>2. finished \in Nat /\ finished' = finished
        BY <1>1, <1>2
      <4> QED
        BY <2>1, <3>3, <4>1, <4>2
    <3> QED
      BY <3>1, <3>2, <3>3
  <2> QED
    BY <2>2, <2>3 DEF InOrder
<1>5. CASE updateQueue = <<>>
  <2>1. Len(updateQueue') = 1 /\ Head(updateQueue') = submitted + 1
    BY <1>3, <1>5
  <2>2. inProgress' = [inProgress EXCEPT ![submitted + 1] = @ + 1]
    BY <1>2, <1>3, <2>1 DEF Invoked
  <2>3. immediates = 0 /\ \A u \in Updates : inProgress[u] = 0
    BY <1>5 DEF QueueInv, Serial
  <2>4. Serial'
    BY <1>1, <1>2, <1>3, <2>1, <2>2, <2>3 DEF Serial
  <2>5. inProgress' \in [Updates -> Nat]
    <3>1. submitted + 1 \in Updates /\ inProgress[submitted + 1] + 1 \in Nat
      BY <1>1, <1>2
    <3> QED
      BY <1>1, <2>2, <3>1
  <2>6. submitted' \in 0..MaxUpdates /\ finished' \in 0..MaxUpdates /\ immediates' \in Nat
    BY <1>1, <1>2
  <2>7. QueueTypeOK'
    BY <1>3, <2>5, <2>6 DEF QueueTypeOK
  <2> QED
    BY <1>4, <2>4, <2>7 DEF QueueInv
<1>6. CASE updateQueue # <<>>
  <2>1. Len(updateQueue) > 0 /\ Len(updateQueue') # 1
    BY <1>1, <1>3, <1>6, EmptySeq, LenProperties, SMTT(30)
  <2>2. Head(updateQueue') = Head(updateQueue)
    BY <1>1, <1>3, <1>6, <2>1
  <2>3. Serial'
    BY <1>1, <1>2, <1>3, <1>6, <2>1, <2>2 DEF QueueInv, Serial
  <2> QED
    BY <1>1, <1>2, <1>3, <1>4, <2>1, <2>3 DEF QueueInv, QueueTypeOK
<1> QED
  BY <1>5, <1>6

\* A scheduled executePendingUpdates finds an update that nobody has invoked.
LEMMA ExecuteInv == QueueInv /\ ExecutePendingUpdates => QueueInv'
<1> SUFFICES ASSUME QueueInv, ExecutePendingUpdates PROVE QueueInv'
  OBVIOUS
<1> USE MaxUpdatesAssumption DEF Updates
<1>1. /\ updateQueue \in Seq(Updates) /\ inProgress \in [Updates -> Nat]
      /\ immediates \in Nat /\ submitted \in 0..MaxUpdates /\ finished \in 0..MaxUpdates
  BY DEF QueueInv, QueueTypeOK
<1>2. updateQueue # <<>> /\ immediates = 1 /\ \A u \in Updates : inProgress[u] = 0
  BY <1>1 DEF QueueInv, Serial, ExecutePendingUpdates
<1>3. Head(updateQueue) \in Updates
  BY <1>1, <1>2, HeadTailProperties
<1>4. /\ inProgress' = [inProgress EXCEPT ![Head(updateQueue)] = @ + 1]
      /\ immediates' = 0 /\ updateQueue' = updateQueue
      /\ submitted' = submitted /\ finished' = finished
  BY <1>1, <1>2 DEF ExecutePendingUpdates, Invoked
<1>5. Serial'
  BY <1>1, <1>2, <1>3, <1>4 DEF Serial
<1>6. inProgress' \in [Updates -> Nat]
  <2>1. inProgress[Head(updateQueue)] + 1 \in Nat
    BY <1>1, <1>3
  <2> QED
    BY <1>1, <1>4, <2>1
<1>7. QueueTypeOK'
  BY <1>1, <1>4, <1>6 DEF QueueTypeOK
<1>8. InOrder'
  BY <1>4 DEF QueueInv, InOrder
<1> QED
  BY <1>5, <1>7, <1>8 DEF QueueInv

\* The update that calls back is the head, and what shift() removes is that update.
LEMMA NewCbInv == ASSUME NEW u \in Updates, QueueInv, NewCb(u) PROVE QueueInv'
<1> USE MaxUpdatesAssumption DEF Updates
<1>1. /\ updateQueue \in Seq(Updates) /\ inProgress \in [Updates -> Nat]
      /\ immediates \in Nat /\ submitted \in 0..MaxUpdates /\ finished \in 0..MaxUpdates
  BY DEF QueueInv, QueueTypeOK
<1>2. updateQueue # <<>> /\ u = Head(updateQueue) /\ immediates = 0
  BY <1>1 DEF QueueInv, Serial, NewCb
<1>3. \A v \in Updates : inProgress[v] = IF v = u THEN 1 ELSE 0
  BY <1>1, <1>2 DEF QueueInv, Serial
<1>4. /\ updateQueue' = Tail(updateQueue) /\ updateQueue' \in Seq(Updates)
      /\ Len(updateQueue') = Len(updateQueue) - 1
      /\ \A i \in 1..Len(updateQueue') : updateQueue'[i] = updateQueue[i + 1]
  BY <1>1, <1>2, HeadTailProperties DEF NewCb, Shifted
<1>5. /\ inProgress' = [inProgress EXCEPT ![u] = @ - 1]
      /\ immediates' = IF updateQueue' # <<>> THEN 1 ELSE 0
      /\ finished' = finished + 1 /\ submitted' = submitted
  BY <1>1, <1>2 DEF NewCb, Schedules
<1>6. \A v \in Updates : inProgress'[v] = 0
  BY <1>1, <1>3, <1>5
<1>7. Serial'
  BY <1>5, <1>6 DEF Serial
<1>8. InOrder'
  BY <1>1, <1>4, <1>5, LenProperties DEF QueueInv, InOrder
<1>9. finished' \in 0..MaxUpdates
  BY <1>1, <1>2, <1>5, LenProperties, EmptySeq DEF QueueInv, InOrder
<1>10. inProgress' \in [Updates -> Nat]
  BY <1>1, <1>3, <1>5
<1> QED
  BY <1>1, <1>4, <1>5, <1>7, <1>8, <1>9, <1>10 DEF QueueInv, QueueTypeOK

\* Every step of the queue, and of any module whose steps are steps of the queue,
\* keeps the invariant.
LEMMA QueueNextInv == QueueInv /\ [QueueNext]_queueVars => QueueInv'
<1>1. CASE UNCHANGED queueVars
  BY <1>1 DEF queueVars, QueueInv, QueueTypeOK, InOrder, Serial
<1>2. CASE QueueNext
  BY <1>2, EnqueueInv, ExecuteInv, NewCbInv DEF QueueNext
<1> QED
  BY <1>1, <1>2

\* Whatever the number of updates, one runs at a time, in the order of submission,
\* and a queue that is not empty is never stuck.
THEOREM QueueCorrect == QueueSpec => [](QueueTypeOK /\ InOrder /\ Serial)
<1>1. QueueInit /\ [][QueueNext]_queueVars => []QueueInv
  BY QueueInitInv, QueueNextInv, PTL
<1> QED
  BY <1>1, PTL DEF QueueSpec, QueueSafe, QueueInv

-----------------------------------------------------------------------------
(* Refinement *)

\* The invoked updates are the head of the array, or none while it is scheduled.
HeadRuns ==
  Running = IF updateQueue # <<>> /\ immediates = 0 THEN {finished + 1} ELSE {}

\* The array is empty exactly when everything submitted has finished.
EmptyWhenFinished ==
  /\ submitted \in Nat /\ finished \in Nat /\ finished <= submitted
  /\ updateQueue = <<>> <=> finished = submitted

\* The invariant decides which updates are running.
LEMMA RunningIsHead == QueueInv => HeadRuns
<1> SUFFICES ASSUME QueueInv PROVE HeadRuns
  OBVIOUS
<1> USE DEF HeadRuns
<1>1. /\ updateQueue \in Seq(Updates) /\ inProgress \in [Updates -> Nat]
      /\ immediates \in Nat
  BY DEF QueueInv, QueueTypeOK
<1>2. CASE updateQueue = <<>>
  BY <1>1, <1>2 DEF QueueInv, Serial, Running
<1>3. CASE updateQueue # <<>>
  <2>1. Len(updateQueue) > 0 /\ Head(updateQueue) = updateQueue[1]
    BY <1>1, <1>3, EmptySeq, LenProperties, HeadTailProperties
  <2>2. Head(updateQueue) = finished + 1 /\ Head(updateQueue) \in Updates
    BY <1>1, <1>3, <2>1, LenProperties, HeadTailProperties DEF QueueInv, InOrder
  <2>3. \A u \in Updates : inProgress[u] = IF u = finished + 1 THEN 1 - immediates ELSE 0
    BY <1>3, <2>2 DEF QueueInv, Serial
  <2>4. immediates \in {0, 1}
    BY <1>3 DEF QueueInv, Serial
  <2>5. CASE immediates = 0
    BY <1>3, <2>2, <2>3, <2>5 DEF Running
  <2>6. CASE immediates = 1
    BY <1>3, <2>2, <2>3, <2>6 DEF Running
  <2> QED
    BY <2>4, <2>5, <2>6
<1> QED
  BY <1>2, <1>3

\* The invariant relates the counters to the array.
LEMMA EmptyIsFinished == QueueInv => EmptyWhenFinished
<1> SUFFICES ASSUME QueueInv PROVE EmptyWhenFinished
  OBVIOUS
<1>1. updateQueue \in Seq(Updates) /\ submitted \in 0..MaxUpdates /\ finished \in 0..MaxUpdates
  BY DEF QueueInv, QueueTypeOK
<1>2. Len(updateQueue) \in Nat /\ (updateQueue = <<>> <=> Len(updateQueue) = 0)
  BY <1>1, LenProperties, EmptySeq
<1> QED
  BY <1>1, <1>2, MaxUpdatesAssumption DEF QueueInv, InOrder, EmptyWhenFinished

\* Every step of the queue is a step of SerialUpdates or leaves its variables alone.
LEMMA StepImplements ==
  ASSUME QueueInv, QueueInv', [QueueNext]_queueVars
  PROVE  [Abstract!Next]_(Abstract!vars)
<1> USE DEF Abstract!vars
<1>1. HeadRuns /\ HeadRuns'
  BY RunningIsHead, PTL
<1>2. EmptyWhenFinished /\ EmptyWhenFinished'
  BY EmptyIsFinished, PTL
<1>3. CASE UNCHANGED queueVars
  BY <1>3 DEF queueVars, Running
<1>4. CASE Enqueue
  <2>1. submitted' = submitted + 1 /\ finished' = finished /\ immediates' = immediates
    BY <1>4 DEF Enqueue
  <2>2. updateQueue = <<>> => immediates = 0
    BY DEF QueueInv, Serial
  <2>3. Running' = Running \/ (finished = submitted /\ Running' = {submitted + 1})
    BY <1>1, <1>2, <2>1, <2>2 DEF HeadRuns, EmptyWhenFinished
  <2> QED
    BY <2>1, <2>3 DEF Abstract!Next, Abstract!Submit
<1>5. CASE ExecutePendingUpdates
  <2>1. /\ submitted' = submitted /\ finished' = finished /\ updateQueue' = updateQueue
        /\ immediates > 0 /\ immediates' = immediates - 1
    BY <1>5 DEF ExecutePendingUpdates
  <2>2. updateQueue # <<>> /\ immediates = 1
    BY <2>1 DEF QueueInv, QueueTypeOK, Serial
  <2>3. Running = {} /\ Running' = {finished + 1}
    BY <1>1, <2>1, <2>2 DEF HeadRuns
  <2> QED
    BY <1>2, <2>1, <2>2, <2>3 DEF Abstract!Next, Abstract!Start, EmptyWhenFinished
<1>6. ASSUME NEW u \in Updates, NewCb(u) PROVE Abstract!Finish
  <2>1. submitted' = submitted /\ finished' = finished + 1
    BY <1>6 DEF NewCb
  <2>2. updateQueue # <<>> /\ immediates = 0
    BY <1>6 DEF NewCb, QueueInv, QueueTypeOK, Serial
  <2>3. updateQueue' # <<>> => immediates' # 0
    BY <1>6, <2>2 DEF NewCb, Schedules
  <2>4. Running = {finished + 1} /\ Running' = {}
    BY <1>1, <2>2, <2>3 DEF HeadRuns
  <2> QED
    BY <2>1, <2>4 DEF Abstract!Finish
<1> QED
  BY <1>3, <1>4, <1>5, <1>6 DEF QueueNext, Abstract!Next

\* For any number of updates, update_queue.js runs them as SerialUpdates says: one at
\* a time and in order.  That each of them finishes is checked by TLC.
THEOREM QueueImplements == QueueSafe => ImplementsSafe
<1>1. QueueInit => Abstract!Init
  BY DEF QueueInit, Abstract!Init, Running
<1>2. QueueInv /\ QueueInv' /\ [QueueNext]_queueVars => [Abstract!Next]_(Abstract!vars)
  BY StepImplements
<1>3. QueueSafe => []QueueInv
  BY QueueInitInv, QueueNextInv, PTL DEF QueueSafe
<1> QED
  BY <1>1, <1>2, <1>3, PTL DEF QueueSafe, ImplementsSafe, Abstract!Safe

-----------------------------------------------------------------------------
(* The wrapper *)

\* An update has a call in the store while the queue waits for its callback.
WriteInv ==
  /\ \A u \in Updates : writeState[u] # "none" <=> inProgress[u] > 0
  /\ \A u \in Updates : finished < u /\ u <= submitted => request[u] \in Requests
  /\ \A u \in Updates : writeState[u] = "stored" =>
       /\ request[u].op = "init" => store = request[u].data /\ storeInited
       /\ request[u].op = "upsert" => writeResult[u] = store[request[u].key]
  /\ \A u \in Updates : writeState[u] = "failed" => request[u].op = "upsert"
  /\ \A u \in Updates : writeState[u] = "lost" => request[u].op = "init"

ReadInv ==
  \A r \in Reader : fetch[r].stage = "read" =>
    /\ fetch[r].op = "get" /\ ~fetch[r].doubtful =>
         Shown(fetch[r].result) = Shown(store[fetch[r].key])
    /\ fetch[r].op = "all" /\ ~fetch[r].doubtful => fetch[r].result \in {store, NotFound}
    /\ fetch[r].op = "initialized" =>
         /\ fetch[r].result \in BOOLEAN
         /\ ~fetch[r].doubtful => fetch[r].result = storeInited

FlushInv == UpsertPending /\ allCache # Miss => allDoubtful

\* With a ttl of zero nothing is ever cached.
OffInv == ~CacheOn => allCache = Miss /\ \A k \in Key : itemCache[k] = Miss

CacheInv == ItemCoherent /\ AllCoherent /\ InitializedCoherent /\ FlushInv

Inv == QueueInv /\ TypeOK /\ WriteInv /\ ReadInv /\ CacheInv

-----------------------------------------------------------------------------
(* The queue inside the wrapper *)

\* Every step of the wrapper is a step of its queue or leaves the queue alone.
LEMMA NextIsQueueNext == [Next]_vars => [QueueNext]_queueVars
<1> SUFFICES ASSUME [Next]_vars PROVE [QueueNext]_queueVars
  OBVIOUS
<1> USE DEF QueueNext
<1>1. ASSUME NEW req \in Requests, Submit(req) PROVE Enqueue
  BY <1>1 DEF Submit
<1>2. CASE RunNextUpdate
  BY <1>2 DEF RunNextUpdate
<1>3. ASSUME NEW u \in Updates, StoreUpserts(u) \/ StoreRefuses(u) \/ StoreInits(u)
      PROVE  UNCHANGED queueVars
  BY <1>3 DEF StoreUpserts, StoreRefuses, StoreInits
<1>4. ASSUME NEW u \in Updates, WriteCallback(u) PROVE NewCb(u)
  BY <1>4 DEF WriteCallback
<1>5. ASSUME NEW r \in Reader,
             (\E k \in Key : Get(r, k)) \/ All(r) \/ Initialized(r)
               \/ StoreReads(r) \/ ReadCallback(r)
      PROVE  UNCHANGED queueVars
  BY <1>5 DEF Get, All, Initialized, Call, StoreReads, ReadCallback
<1>6. ASSUME NEW k \in Key, ExpireItem(k) PROVE UNCHANGED queueVars
  BY <1>6 DEF ExpireItem
<1>7. CASE ExpireAll \/ ExpireCheckedInit
  BY <1>7 DEF ExpireAll, ExpireCheckedInit
<1>8. CASE UNCHANGED vars
  BY <1>8 DEF vars
<1> QED
  BY <1>1, <1>2, <1>3, <1>4, <1>5, <1>6, <1>7, <1>8 DEF Next

\* The wrapper's updates run one at a time and in order, whatever the reads do.
THEOREM WrapperSerial == Spec => [](InOrder /\ Serial)
<1>1. Init => QueueInv
  BY QueueInitInv DEF Init
<1>2. QueueInv /\ [Next]_vars => QueueInv'
  BY NextIsQueueNext, QueueNextInv
<1>3. QueueInv => InOrder /\ Serial
  BY DEF QueueInv
<1> QED
  BY <1>1, <1>2, <1>3, PTL DEF Spec

\* Seen through its queue, the wrapper is the abstract serial updater.
THEOREM WrapperImplements == Spec => ImplementsSafe
<1>1. Init => QueueInit
  BY DEF Init
<1>2. Spec => QueueSafe
  BY <1>1, NextIsQueueNext, PTL DEF Spec, QueueSafe
<1> QED
  BY <1>2, QueueImplements, PTL

\* At most one update has a call in the store, and its request is known.
LEMMA OneWrite ==
  ASSUME Inv, NEW u \in Updates, writeState[u] # "none"
  PROVE  /\ request[u] \in Requests /\ inProgress[u] = 1
         /\ \A v \in Updates : writeState[v] # "none" => v = u
<1>1. \A v \in Updates : writeState[v] # "none" <=> inProgress[v] > 0
  BY DEF Inv, WriteInv
<1>2. /\ updateQueue \in Seq(Updates) /\ inProgress \in [Updates -> Nat]
      /\ immediates \in Nat /\ submitted \in Nat /\ finished \in Nat
  BY MaxUpdatesAssumption DEF Inv, QueueInv, QueueTypeOK
<1>3. updateQueue # <<>>
  BY <1>1, <1>2 DEF Inv, QueueInv, Serial
<1>4. u = Head(updateQueue) /\ inProgress[u] = 1
  BY <1>1, <1>2, <1>3 DEF Inv, QueueInv, Serial
<1>5. \A v \in Updates : writeState[v] # "none" => v = u
  BY <1>1, <1>2, <1>3, <1>4 DEF Inv, QueueInv, Serial
<1>6. Len(updateQueue) > 0 /\ u = finished + 1 /\ submitted = finished + Len(updateQueue)
  BY <1>2, <1>3, <1>4, EmptySeq, LenProperties, HeadTailProperties DEF Inv, QueueInv, InOrder
<1>7. finished < u /\ u <= submitted
  BY <1>2, <1>6, LenProperties
<1> QED
  BY <1>4, <1>5, <1>7 DEF Inv, WriteInv

\* enqueue() and executePendingUpdates only ever add an invocation.
LEMMA OnlyStarts ==
  ASSUME Inv, QueueInv', Enqueue \/ ExecutePendingUpdates
  PROVE  /\ \A u \in Updates : inProgress[u] > 0 => inProgress'[u] > 0
         /\ \A u \in Updates : inProgress'[u] > inProgress[u] =>
              inProgress[u] = 0 /\ finished' < u /\ u <= submitted'
         /\ \A u \in Updates : inProgress'[u] > 0 =>
              inProgress[u] > 0 \/ inProgress'[u] > inProgress[u]
<1>1. /\ updateQueue \in Seq(Updates) /\ inProgress \in [Updates -> Nat]
      /\ updateQueue' \in Seq(Updates) /\ inProgress' \in [Updates -> Nat]
      /\ submitted' \in Nat /\ finished' \in Nat /\ immediates \in Nat /\ immediates' \in Nat
  BY MaxUpdatesAssumption DEF Inv, QueueInv, QueueTypeOK
<1>2. updateQueue' # <<>> => /\ Head(updateQueue') = finished' + 1
                             /\ Head(updateQueue') <= submitted'
  BY <1>1, EmptySeq, LenProperties, HeadTailProperties DEF QueueInv, InOrder
<1>3. \A u \in Updates : inProgress'[u] > 0 => updateQueue' # <<>> /\ u = Head(updateQueue')
  BY <1>1 DEF QueueInv, Serial
<1>4. ASSUME NEW u \in Updates PROVE inProgress'[u] <= 1
  <2>1. CASE updateQueue' = <<>>
    BY <2>1 DEF QueueInv, Serial
  <2>2. CASE updateQueue' # <<>>
    <3>1. immediates' \in {0, 1}
      BY <2>2 DEF QueueInv, Serial
    <3>2. inProgress'[u] = IF u = Head(updateQueue') THEN 1 - immediates' ELSE 0
      BY <2>2 DEF QueueInv, Serial
    <3>3. 1 - immediates' <= 1
      <4>1. CASE immediates' = 0
        BY <4>1
      <4>2. CASE immediates' = 1
        BY <4>2
      <4> QED
        BY <3>1, <4>1, <4>2
    <3>4. CASE u = Head(updateQueue')
      BY <3>2, <3>3, <3>4
    <3>5. CASE u # Head(updateQueue')
      BY <3>2, <3>5
    <3> QED
      BY <3>4, <3>5
  <2> QED
    BY <2>1, <2>2
<1>5. inProgress' = inProgress \/ (updateQueue' # <<>> /\
        inProgress' = [inProgress EXCEPT ![Head(updateQueue')] = @ + 1])
  BY DEF Enqueue, ExecutePendingUpdates, Invoked
<1>6. ASSUME NEW u \in Updates PROVE inProgress'[u] >= inProgress[u]
  <2>1. inProgress[u] \in Nat
    BY <1>1
  <2>2. inProgress'[u] = inProgress[u] \/ inProgress'[u] = inProgress[u] + 1
    BY <1>1, <1>5
  <2> QED
    BY <2>1, <2>2
<1>7. \A u \in Updates : inProgress'[u] > inProgress[u] => inProgress[u] = 0
  BY <1>1, <1>4
<1> QED
  BY <1>1, <1>2, <1>3, <1>6, <1>7

\* What the steps that only start updates share.
LEMMA StartWritesInv ==
  ASSUME Inv, QueueInv', Enqueue \/ ExecutePendingUpdates, StartWrites,
         request' \in [Updates -> Requests \cup {NoRequest}],
         \A u \in Updates : finished' < u /\ u <= submitted' => request'[u] \in Requests,
         \A u \in Updates : writeState[u] # "none" => request'[u] = request[u]
  PROVE  Inv'
<1> USE DEF StartWrites, storeVars, historyVars
<1>1. /\ \A u \in Updates : inProgress[u] > 0 => inProgress'[u] > 0
      /\ \A u \in Updates : inProgress'[u] > inProgress[u] =>
           inProgress[u] = 0 /\ finished' < u /\ u <= submitted'
      /\ \A u \in Updates : inProgress'[u] > 0 =>
           inProgress[u] > 0 \/ inProgress'[u] > inProgress[u]
  BY OnlyStarts
<1>2. /\ writeState' = [u \in Updates |-> IF u \in Started THEN "sent" ELSE writeState[u]]
      /\ \A u \in Updates : u \in Started <=> inProgress'[u] > inProgress[u]
  BY DEF Started
<1>3. \A u \in Updates : writeState[u] # "none" <=> inProgress[u] > 0
  BY DEF Inv, WriteInv
<1>4. inProgress \in [Updates -> Nat] /\ inProgress' \in [Updates -> Nat]
  BY DEF Inv, QueueInv, QueueTypeOK
<1>5. TypeOK'
  BY <1>2 DEF Inv, QueueInv, TypeOK, Fetches
<1>6. \A u \in Updates : writeState'[u] # "none" <=> inProgress'[u] > 0
  BY <1>1, <1>2, <1>3, <1>4
<1>7. \A u \in Updates : writeState'[u] # "sent" => writeState'[u] = writeState[u]
  BY <1>2
<1>8. WriteInv'
  BY <1>6, <1>7 DEF Inv, WriteInv
<1>9. ReadInv'
  BY DEF Inv, ReadInv
<1>10. ItemCoherent'
  <2>1. ASSUME NEW k \in Key, Unreported(k) PROVE Unreported(k)'
    BY <1>1, <1>2, <1>3, <1>4, <2>1 DEF Unreported
  <2> QED
    BY <2>1 DEF Inv, CacheInv, ItemCoherent
<1>11. AllCoherent'
  <2>1. ASSUME NEW u \in Updates, writeState[u] = "stored"
        PROVE  writeState'[u] = "stored" /\ request'[u] = request[u]
    BY <1>1, <1>2, <1>3, <1>4, <2>1
  <2>2. allCache' = allCache \/ allCache' = Miss
    OBVIOUS
  <2> QED
    BY <2>1, <2>2 DEF Inv, CacheInv, AllCoherent, Visible
<1>12. FlushInv'
  <2>1. ASSUME UpsertPending', allCache' # Miss PROVE UpsertPending /\ allCache # Miss
    <3>1. ~FlushedBy(Started) /\ allCache' = allCache
      BY <2>1
    <3>2. PICK u \in Updates : writeState'[u] = "sent" /\ request'[u].op = "upsert"
      BY <2>1 DEF UpsertPending
    <3>3. u \notin Started
      BY <3>1, <3>2 DEF FlushedBy
    <3>4. writeState[u] = "sent" /\ request[u] = request'[u]
      BY <1>2, <3>2, <3>3
    <3> QED
      BY <2>1, <3>1, <3>2, <3>4 DEF UpsertPending
  <2> QED
    BY <2>1 DEF Inv, CacheInv, FlushInv
<1>13. InitializedCoherent'
  <2>1. InitUnreported => InitUnreported'
    BY <1>1, <1>2, <1>3, <1>4 DEF InitUnreported
  <2> QED
    BY <2>1 DEF Inv, CacheInv, InitializedCoherent
<1> QED
  BY <1>5, <1>8, <1>9, <1>10, <1>11, <1>12, <1>13 DEF Inv, CacheInv

\* upsert(), delete() and init(), and the next update of the queue.
LEMMA SubmitInv ==
  ASSUME Inv, QueueInv', NEW req \in Requests, Submit(req) PROVE Inv'
<1>1. /\ request \in [Updates -> Requests \cup {NoRequest}]
      /\ submitted \in Nat /\ submitted < MaxUpdates
      /\ submitted' = submitted + 1 /\ submitted' \in Updates /\ finished' = finished
      /\ request' = [request EXCEPT ![submitted'] = req]
  BY MaxUpdatesAssumption
     DEF Inv, TypeOK, QueueInv, QueueTypeOK, Submit, Enqueue, Updates
<1>2. request' \in [Updates -> Requests \cup {NoRequest}]
  BY <1>1
<1>3. ASSUME NEW u \in Updates, finished' < u, u <= submitted' PROVE request'[u] \in Requests
  <2>1. CASE u = submitted'
    BY <1>1, <2>1
  <2>2. CASE u # submitted'
    BY <1>1, <1>3, <2>2 DEF Inv, WriteInv, Updates
  <2> QED
    BY <2>1, <2>2
<1>4. ASSUME NEW u \in Updates, writeState[u] # "none" PROVE request'[u] = request[u]
  <2>1. inProgress[u] > 0 /\ inProgress[u] \in Nat
    BY <1>4 DEF Inv, WriteInv, QueueInv, QueueTypeOK
  <2>2. updateQueue # <<>> /\ u = Head(updateQueue) /\ updateQueue \in Seq(Updates)
    BY <2>1 DEF Inv, QueueInv, Serial, QueueTypeOK
  <2>3. u = finished + 1 /\ Len(updateQueue) > 0 /\ submitted = finished + Len(updateQueue)
    BY <2>2, EmptySeq, LenProperties, HeadTailProperties DEF Inv, QueueInv, InOrder
  <2>4. u <= submitted /\ finished \in Nat
    BY <2>2, <2>3, LenProperties, MaxUpdatesAssumption DEF Inv, QueueInv, QueueTypeOK
  <2> QED
    BY <1>1, <2>4 DEF Updates
<1> QED
  BY <1>2, <1>3, <1>4, StartWritesInv DEF Submit

LEMMA RunNextUpdateInv == ASSUME Inv, QueueInv', RunNextUpdate PROVE Inv'
<1>1. request' = request /\ submitted' = submitted /\ finished' = finished
  BY DEF RunNextUpdate, ExecutePendingUpdates
<1>2. request \in [Updates -> Requests \cup {NoRequest}]
  BY DEF Inv, TypeOK
<1>3. \A u \in Updates : finished < u /\ u <= submitted => request[u] \in Requests
  BY DEF Inv, WriteInv
<1> QED
  BY <1>1, <1>2, <1>3, StartWritesInv DEF RunNextUpdate

\* Expiry empties an entry.
LEMMA ExpireInv ==
  ASSUME Inv, QueueInv', (\E k \in Key : ExpireItem(k)) \/ ExpireAll \/ ExpireCheckedInit
  PROVE  Inv'
<1> USE DEF storeVars, writeVars, historyVars, queueVars
<1>1. CASE \E k \in Key : ExpireItem(k)
  <2>1. PICK k \in Key : ExpireItem(k)
    BY <1>1
  <2>2. itemCache' \in [Key -> Cached] /\ \A j \in Key : itemCache'[j] \in {itemCache[j], Miss}
    BY <2>1 DEF ExpireItem, Inv, TypeOK, Cached
  <2>3. TypeOK'
    BY <2>1, <2>2 DEF ExpireItem, Inv, QueueInv, TypeOK
  <2>4. WriteInv' /\ ReadInv' /\ FlushInv' /\ AllCoherent' /\ InitializedCoherent'
    BY <2>1 DEF ExpireItem, Inv, CacheInv, WriteInv, ReadInv, FlushInv, UpsertPending,
                AllCoherent, Visible, InitializedCoherent, InitUnreported
  <2>5. ItemCoherent'
    BY <2>1, <2>2 DEF ExpireItem, Inv, CacheInv, ItemCoherent, Unreported
  <2> QED
    BY <2>3, <2>4, <2>5 DEF Inv, CacheInv
<1>2. CASE ExpireAll
  <2>1. TypeOK'
    BY <1>2 DEF ExpireAll, Inv, QueueInv, TypeOK
  <2>2. WriteInv' /\ ReadInv' /\ FlushInv' /\ AllCoherent' /\ InitializedCoherent' /\ ItemCoherent'
    BY <1>2 DEF ExpireAll, Inv, CacheInv, WriteInv, ReadInv, FlushInv, UpsertPending,
                AllCoherent, InitializedCoherent, InitUnreported, ItemCoherent, Unreported
  <2> QED
    BY <2>1, <2>2 DEF Inv, CacheInv
<1>3. CASE ExpireCheckedInit
  <2>1. TypeOK'
    BY <1>3 DEF ExpireCheckedInit, Inv, QueueInv, TypeOK
  <2>2. WriteInv' /\ ReadInv' /\ FlushInv' /\ AllCoherent' /\ InitializedCoherent' /\ ItemCoherent'
    BY <1>3 DEF ExpireCheckedInit, Inv, CacheInv, WriteInv, ReadInv, FlushInv, UpsertPending,
                AllCoherent, Visible, InitializedCoherent, InitUnreported, ItemCoherent, Unreported
  <2> QED
    BY <2>1, <2>2 DEF Inv, CacheInv
<1> QED
  BY <1>1, <1>2, <1>3

\* A step that changes nothing but the calls of the readers.
LEMMA FetchOnlyInv ==
  ASSUME Inv, QueueInv', UNCHANGED <<queueVars, storeVars, writeVars, cacheVars, historyVars>>,
         fetch' \in [Reader -> Fetches], ReadInv'
  PROVE  Inv'
<1> USE DEF queueVars, storeVars, writeVars, cacheVars, historyVars
<1>1. TypeOK'
  BY DEF Inv, QueueInv, TypeOK
<1>2. WriteInv' /\ FlushInv' /\ InitializedCoherent' /\ ItemCoherent'
  BY DEF Inv, CacheInv, WriteInv, FlushInv, UpsertPending, InitializedCoherent, InitUnreported, ItemCoherent,
         Unreported
<1>3. AllCoherent'
  BY DEF Inv, CacheInv, AllCoherent, Visible
<1> QED
  BY <1>1, <1>2, <1>3 DEF Inv, CacheInv

\* A read leaves for the store.
LEMMA CallInv ==
  ASSUME Inv, QueueInv', NEW r \in Reader,
         NEW op \in {"get", "all", "initialized"}, NEW k \in Key, Call(r, op, k)
  PROVE  Inv'
<1> DEFINE new == [op |-> op, key |-> k, stage |-> "sent", result |-> NotFound,
                   doubtful |-> FALSE]
<1>1. fetch' = [fetch EXCEPT ![r] = new]
  BY DEF Call, Fetch
<1>2. new \in Fetches
  BY DEF Fetches, Calls
<1>3. fetch' \in [Reader -> Fetches]
  BY <1>1, <1>2 DEF Inv, TypeOK
<1>4. ASSUME NEW q \in Reader, fetch'[q].stage = "read" PROVE fetch'[q] = fetch[q]
  BY <1>1, <1>4 DEF Inv, TypeOK
<1>5. store' = store /\ storeInited' = storeInited
  BY DEF Call, storeVars
<1>6. ReadInv'
  BY <1>4, <1>5 DEF Inv, ReadInv
<1> QED
  BY <1>3, <1>6, FetchOnlyInv DEF Call

\* The store performs a read.
LEMMA StoreReadsInv == ASSUME Inv, QueueInv', NEW r \in Reader, StoreReads(r) PROVE Inv'
<1> USE CachingAssumption
<1>1. /\ fetch \in [Reader -> Fetches] /\ store \in Data /\ storeInited \in BOOLEAN
      /\ fetch[r].stage = "sent"
  BY DEF Inv, TypeOK, StoreReads
<1>2. fetch[r] \in Calls("get", Item) \cup Calls("all", Data) \cup Calls("initialized", BOOLEAN)
  BY <1>1 DEF Fetches, Idle, Fetch
<1>3. PICK result, wrong :
        /\ Reading(r, result, wrong) /\ wrong \in BOOLEAN
        /\ \/ /\ fetch[r].op = "get" /\ result \in {store[fetch[r].key], NotFound}
              /\ ~wrong => Shown(result) = Shown(store[fetch[r].key])
           \/ fetch[r].op = "all" /\ result \in {store, NotFound}
           \/ /\ fetch[r].op = "initialized" /\ result \in BOOLEAN
              /\ ~wrong => result = storeInited
  <2>1. \A item : (Shown(item) # NotFound) \in BOOLEAN /\ Shown(NotFound) = NotFound
    BY DEF Shown
  <2>2. CASE fetch[r].op = "get" /\ Reading(r, store[fetch[r].key], FALSE)
    BY <2>2
  <2>3. CASE fetch[r].op = "get" /\ Reading(r, NotFound, Shown(store[fetch[r].key]) # NotFound)
    <3> DEFINE wrong == Shown(store[fetch[r].key]) # NotFound
    <3>1. wrong \in BOOLEAN /\ (~wrong => Shown(NotFound) = Shown(store[fetch[r].key]))
      BY <2>1
    <3> QED
      BY <2>3, <3>1
  <2>4. CASE fetch[r].op = "all" /\ (Reading(r, store, FALSE) \/ Reading(r, NotFound, FALSE))
    BY <2>4
  <2>5. CASE fetch[r].op = "initialized"
               /\ (Reading(r, storeInited, FALSE) \/ Reading(r, FALSE, storeInited))
    BY <1>1, <2>5
  <2> QED
    BY <2>2, <2>3, <2>4, <2>5 DEF StoreReads
<1>4. fetch' = [fetch EXCEPT ![r] = [fetch[r] EXCEPT !.stage = "read", !.result = result,
                                                     !.doubtful = wrong]]
  BY <1>1, <1>3 DEF Reading
<1>5. /\ fetch'[r] = [fetch[r] EXCEPT !.stage = "read", !.result = result, !.doubtful = wrong]
      /\ \A q \in Reader : q # r => fetch'[q] = fetch[q]
      /\ wrong \in BOOLEAN
  BY <1>1, <1>3, <1>4
<1>6. fetch'[r] \in Fetches /\ fetch'[r].op = fetch[r].op /\ fetch'[r].key = fetch[r].key
      /\ fetch'[r].result = result /\ fetch'[r].doubtful = wrong
  <2>1. CASE fetch[r] \in Calls("get", Item)
    <3>1. fetch[r].op = "get" /\ fetch[r].key \in Key
      BY <2>1 DEF Calls
    <3>2. result \in Item \cup {NotFound}
      BY <1>1, <1>3, <3>1 DEF Data
    <3>3. fetch'[r] \in Calls("get", Item)
      BY <1>5, <2>1, <3>2 DEF Calls
    <3> QED
      BY <1>5, <2>1, <3>3 DEF Calls, Fetches
  <2>2. CASE fetch[r] \in Calls("all", Data)
    <3>1. result \in Data \cup {NotFound}
      BY <1>1, <1>3, <2>2 DEF Calls
    <3>2. fetch'[r] \in Calls("all", Data)
      BY <1>5, <2>2, <3>1 DEF Calls
    <3> QED
      BY <1>5, <2>2, <3>2 DEF Calls, Fetches
  <2>3. CASE fetch[r] \in Calls("initialized", BOOLEAN)
    <3>1. result \in BOOLEAN \cup {NotFound}
      BY <1>1, <1>3, <2>3 DEF Calls
    <3>2. fetch'[r] \in Calls("initialized", BOOLEAN)
      BY <1>5, <2>3, <3>1 DEF Calls
    <3> QED
      BY <1>5, <2>3, <3>2 DEF Calls, Fetches
  <2> QED
    BY <1>2, <2>1, <2>2, <2>3
<1>7. fetch' \in [Reader -> Fetches]
  BY <1>1, <1>4, <1>5, <1>6
<1>8. UNCHANGED <<queueVars, storeVars, writeVars, cacheVars, historyVars>>
  BY DEF StoreReads
<1>9. ReadInv'
  <2>1. store' = store /\ storeInited' = storeInited
    BY <1>8 DEF storeVars
  <2>2. \/ fetch[r].op = "get" /\ (~wrong => Shown(result) = Shown(store[fetch[r].key]))
        \/ fetch[r].op = "all" /\ result \in {store, NotFound}
        \/ fetch[r].op = "initialized" /\ result \in BOOLEAN /\ (~wrong => result = storeInited)
    BY <1>3
  <2> SUFFICES ASSUME NEW q \in Reader, fetch'[q].stage = "read"
               PROVE  /\ fetch'[q].op = "get" /\ ~fetch'[q].doubtful =>
                           Shown(fetch'[q].result) = Shown(store[fetch'[q].key])
                      /\ fetch'[q].op = "all" /\ ~fetch'[q].doubtful =>
                           fetch'[q].result \in {store, NotFound}
                      /\ fetch'[q].op = "initialized" =>
                           /\ fetch'[q].result \in BOOLEAN
                           /\ ~fetch'[q].doubtful => fetch'[q].result = storeInited
    BY <2>1 DEF ReadInv
  <2>3. CASE q = r
    BY <1>6, <2>2, <2>3
  <2>4. CASE q # r
    BY <1>5, <2>4 DEF Inv, ReadInv
  <2> QED
    BY <2>3, <2>4
<1> QED
  BY <1>7, <1>8, <1>9, FetchOnlyInv

\* Only the reply to initialized() sets the flag, with what the store said.
LEMMA ReadCallbackInv == ASSUME Inv, QueueInv', NEW r \in Reader, ReadCallback(r) PROVE Inv'
<1> USE CachingAssumption DEF storeVars, writeVars, historyVars, queueVars
<1>1. /\ fetch[r].stage = "read" /\ fetch' = [fetch EXCEPT ![r] = Idle]
      /\ UNCHANGED <<queueVars, storeVars, writeVars>>
  BY DEF ReadCallback
<1>2. fetch' \in [Reader -> Fetches] /\ ReadInv'
  <2>1. fetch \in [Reader -> Fetches]
    BY DEF Inv, TypeOK
  <2>2. fetch' \in [Reader -> Fetches]
    BY <1>1, <2>1 DEF Fetches
  <2>3. \A q \in Reader : fetch'[q].stage = "read" => fetch'[q] = fetch[q]
    BY <1>1, <2>1 DEF Idle, Fetch
  <2> QED
    BY <1>1, <2>2, <2>3 DEF Inv, ReadInv
<1>3. fetch[r] \in Calls("get", Item) \cup Calls("all", Data) \cup Calls("initialized", BOOLEAN)
  BY <1>1 DEF Inv, TypeOK, Fetches, Idle, Fetch
<1>4. WriteInv'
  BY <1>1 DEF Inv, WriteInv
<1>5. CASE fetch[r].op = "get" /\ GetReply(r)
  <2>1. fetch[r].key \in Key /\ fetch[r].result \in Item \cup {NotFound}
        /\ fetch[r].doubtful \in BOOLEAN
    BY <1>3, <1>5 DEF Calls
  <2>2. UNCHANGED <<allCache, checkedInit, initialized, allDoubtful, initDoubtful>>
    BY <1>5 DEF GetReply
  <2>3. TypeOK'
    BY <1>1, <1>2, <1>5, <2>1, <2>2 DEF GetReply, Inv, QueueInv, TypeOK, Cached
  <2>4. ItemCoherent'
    <3>1. ASSUME NEW k \in Key, itemCache'[k] # Miss, ~itemDoubtful'[k], ~Unreported(k)'
          PROVE  Shown(itemCache'[k]) = Shown(store'[k])
      <4>1. CASE CacheOn /\ k = fetch[r].key
        BY <1>1, <1>5, <2>1, <3>1, <4>1 DEF GetReply, Inv, ReadInv, TypeOK
      <4>2. CASE ~(CacheOn /\ k = fetch[r].key)
        BY <1>1, <1>5, <2>1, <3>1, <4>2
           DEF GetReply, Inv, CacheInv, ItemCoherent, Unreported, TypeOK
      <4> QED
        BY <4>1, <4>2
    <3> QED
      BY <3>1 DEF ItemCoherent
  <2>5. AllCoherent' /\ FlushInv' /\ InitializedCoherent'
    BY <1>1, <2>2 DEF Inv, CacheInv, AllCoherent, Visible, FlushInv, UpsertPending,
                      InitializedCoherent, InitUnreported
  <2> QED
    BY <1>2, <1>4, <2>3, <2>4, <2>5 DEF Inv, CacheInv
<1>6. CASE fetch[r].op = "all" /\ AllReply(r)
  <2>1. fetch[r].result \in Data \cup {NotFound} /\ fetch[r].doubtful \in BOOLEAN
    BY <1>3, <1>6 DEF Calls
  <2>2. UNCHANGED <<itemCache, checkedInit, initialized, itemDoubtful, initDoubtful>>
    BY <1>6 DEF AllReply
  <2>3. \A data \in Data : Visible(data) \in Data /\ Visible(Visible(data)) = Visible(data)
    BY DEF Visible, Shown, Data
  <2>4. UpsertPending \in BOOLEAN
    BY DEF UpsertPending
  <2>5. TypeOK'
    BY <1>1, <1>2, <1>6, <2>1, <2>2, <2>3, <2>4 DEF AllReply, Inv, QueueInv, TypeOK
  <2>6. ItemCoherent' /\ InitializedCoherent'
    BY <1>1, <2>2 DEF Inv, CacheInv, ItemCoherent, Unreported, InitializedCoherent, InitUnreported
  <2>7. CASE CacheOn /\ fetch[r].result # NotFound
    <3>1. allCache' = Visible(fetch[r].result)
          /\ allDoubtful' = (fetch[r].doubtful \/ UpsertPending)
      BY <1>6, <2>7 DEF AllReply
    <3>2. ~fetch[r].doubtful => fetch[r].result = store
      BY <1>1, <1>6, <2>7 DEF Inv, ReadInv
    <3>3. ~allDoubtful' => Visible(allCache') = Visible(store)
      BY <2>1, <2>3, <2>7, <3>1, <3>2
    <3>4. AllCoherent'
      BY <1>1, <3>3 DEF AllCoherent, Visible
    <3>5. UpsertPending' => UpsertPending
      BY <1>1 DEF UpsertPending
    <3> QED
      BY <1>2, <1>4, <2>5, <2>6, <3>1, <3>4, <3>5 DEF Inv, CacheInv, FlushInv
  <2>8. CASE ~(CacheOn /\ fetch[r].result # NotFound)
    <3>1. allCache' = allCache /\ allDoubtful' = allDoubtful
      BY <1>6, <2>8 DEF AllReply
    <3>2. AllCoherent' /\ FlushInv'
      BY <1>1, <3>1 DEF Inv, CacheInv, AllCoherent, Visible, FlushInv, UpsertPending
    <3> QED
      BY <1>2, <1>4, <2>5, <2>6, <3>2 DEF Inv, CacheInv
  <2> QED
    BY <2>7, <2>8
<1>7. CASE fetch[r].op = "initialized" /\ InitializedReply(r)
  <2>1. /\ fetch[r].result \in BOOLEAN /\ fetch[r].doubtful \in BOOLEAN
        /\ ~fetch[r].doubtful => fetch[r].result = storeInited
    BY <1>1, <1>3, <1>7 DEF Inv, ReadInv, Calls
  <2>2. /\ UNCHANGED <<itemCache, allCache, itemDoubtful, allDoubtful>>
        /\ initialized' = fetch[r].result /\ initDoubtful' = fetch[r].doubtful
        /\ checkedInit' = (checkedInit \/ (CacheOn /\ ~fetch[r].result))
    BY <1>7 DEF InitializedReply
  <2>3. TypeOK'
    BY <1>1, <1>2, <2>1, <2>2 DEF Inv, QueueInv, TypeOK
  <2>4. ItemCoherent' /\ AllCoherent' /\ FlushInv' /\ InitializedCoherent'
    BY <1>1, <2>1, <2>2 DEF Inv, CacheInv, ItemCoherent, AllCoherent, Visible, Unreported,
                            FlushInv, UpsertPending, InitializedCoherent, InitUnreported
  <2> QED
    BY <1>2, <1>4, <2>3, <2>4 DEF Inv, CacheInv
<1> QED
  BY <1>5, <1>6, <1>7 DEF ReadCallback

-----------------------------------------------------------------------------
(* The store's side of a write, and its callback *)

\* What requests carry.
LEMMA RequestTypes ==
  ASSUME NEW req \in Requests
  PROVE  /\ req.op \in {"upsert", "init"}
         /\ req.op = "upsert" => req.key \in Key /\ req.item \in Item
         /\ req.op = "init" => req.data \in Data
  BY CachingAssumption DEF Requests, Data

\* A write casts doubt on the reads under way whose answer it may change, and does no
\* other harm to any.
LEMMA OvertakeInv ==
  ASSUME Inv, NEW u \in Updates, OvertakeReads(u),
         \/ request[u].op = "init"
         \/ /\ storeInited' = storeInited
            /\ \A k \in Key : k # request[u].key => store'[k] = store[k]
  PROVE  fetch' \in [Reader -> Fetches] /\ ReadInv'
<1> USE CachingAssumption
<1>1. fetch \in [Reader -> Fetches]
  BY DEF Inv, TypeOK
<1>2. ASSUME NEW r \in Reader
      PROVE  /\ fetch'[r] \in Fetches
             /\ ~Overtakes(u, fetch[r]) => fetch'[r] = fetch[r]
             /\ Overtakes(u, fetch[r]) =>
                  /\ fetch'[r].doubtful /\ fetch'[r].op = fetch[r].op
                  /\ fetch'[r].result = fetch[r].result
  <2>1. CASE ~Overtakes(u, fetch[r])
    BY <1>1, <2>1 DEF OvertakeReads
  <2>2. CASE Overtakes(u, fetch[r])
    <3>1. fetch'[r] = [fetch[r] EXCEPT !.doubtful = TRUE]
      BY <2>2 DEF OvertakeReads
    <3>2. fetch[r] \in Calls("get", Item) \cup Calls("all", Data)
                         \cup Calls("initialized", BOOLEAN)
      BY <1>1, <2>2 DEF Overtakes, Fetches, Idle, Fetch
    <3> QED
      BY <2>2, <3>1, <3>2 DEF Calls, Fetches
  <2> QED
    BY <2>1, <2>2
<1>3. fetch' \in [Reader -> Fetches]
  BY <1>2 DEF OvertakeReads
<1>4. ASSUME NEW r \in Reader, fetch'[r].stage = "read"
      PROVE  /\ fetch'[r].op = "get" /\ ~fetch'[r].doubtful =>
                  Shown(fetch'[r].result) = Shown(store'[fetch'[r].key])
             /\ fetch'[r].op = "all" /\ ~fetch'[r].doubtful =>
                  fetch'[r].result \in {store', NotFound}
             /\ fetch'[r].op = "initialized" =>
                  /\ fetch'[r].result \in BOOLEAN
                  /\ ~fetch'[r].doubtful => fetch'[r].result = storeInited'
  <2>1. CASE Overtakes(u, fetch[r])
    BY <1>2, <2>1 DEF Overtakes, Inv, ReadInv
  <2>2. CASE ~Overtakes(u, fetch[r])
    <3>1. fetch'[r] = fetch[r] /\ fetch[r].stage = "read"
      BY <1>2, <1>4, <2>2
    <3>2. /\ storeInited' = storeInited /\ fetch[r].op # "all"
          /\ fetch[r].op = "get" => fetch[r].key # request[u].key
      BY <2>2, <3>1 DEF Overtakes
    <3>3. fetch[r].op = "get" => fetch[r].key \in Key
      BY <1>1, <3>1 DEF Fetches, Calls, Idle, Fetch
    <3> QED
      BY <2>2, <3>1, <3>2, <3>3 DEF Overtakes, Inv, ReadInv
  <2> QED
    BY <2>1, <2>2
<1> QED
  BY <1>3, <1>4 DEF ReadInv

\* upsertInternal: either the callback will report the store's item, or an error
\* has been recorded against the entry; the "all" entry is flushed or marked.
LEMMA StoreUpsertsInv == ASSUME Inv, QueueInv', NEW u \in Updates, StoreUpserts(u) PROVE Inv'
<1> USE CachingAssumption DEF queueVars, cacheVars
<1> DEFINE k == request[u].key
<1>1. writeState[u] = "sent" /\ request[u].op = "upsert"
  BY DEF StoreUpserts
<1>2. /\ request[u] \in Requests
      /\ \A v \in Updates : writeState[v] # "none" => v = u
  BY <1>1, OneWrite
<1>3. k \in Key /\ request[u].item \in Item
  BY <1>1, <1>2, RequestTypes
<1>4. /\ store \in Data /\ writeState \in [Updates -> {"none", "sent", "stored", "failed", "lost"}]
      /\ writeResult \in [Updates -> Item \cup {NotFound}]
      /\ itemDoubtful \in [Key -> BOOLEAN]
  BY DEF Inv, TypeOK
<1>5. PICK final \in {request[u].item,
                      IF Newer(request[u].item, store[k]) THEN request[u].item ELSE store[k]},
           outcome \in {"stored", "failed"} :
        /\ store' = [store EXCEPT ![k] = final]
        /\ writeResult' = [writeResult EXCEPT ![u] = final]
        /\ writeState' = [writeState EXCEPT ![u] = outcome]
        /\ itemDoubtful' = [itemDoubtful EXCEPT ![k] = @ \/ outcome = "failed"]
  BY DEF StoreUpserts
<1>6. UNCHANGED <<queueVars, request, storeInited, cacheVars, allDoubtful, initDoubtful>>
  BY DEF StoreUpserts
<1>7. final \in Item \cup {NotFound}
  BY <1>3, <1>4 DEF Data
<1>8. fetch' \in [Reader -> Fetches] /\ ReadInv'
  <2>1. OvertakeReads(u) /\ storeInited' = storeInited
    BY <1>6 DEF StoreUpserts
  <2>2. \A j \in Key : j # k => store'[j] = store[j]
    BY <1>4, <1>5 DEF Data
  <2> QED
    BY <2>1, <2>2, OvertakeInv
<1>9. store' \in Data /\ writeResult' \in [Updates -> Item \cup {NotFound}]
  BY <1>3, <1>4, <1>5, <1>7 DEF Data
<1>10. TypeOK'
  BY <1>4, <1>5, <1>6, <1>8, <1>9 DEF Inv, QueueInv, TypeOK
<1>11. WriteInv'
  <2>1. \A v \in Updates : writeState'[v] # "none" <=> inProgress'[v] > 0
    BY <1>1, <1>4, <1>5, <1>6 DEF Inv, WriteInv
  <2>2. \A v \in Updates : finished' < v /\ v <= submitted' => request'[v] \in Requests
    BY <1>6 DEF Inv, WriteInv
  <2>3. \A v \in Updates : writeState'[v] = "stored" => v = u
    BY <1>2, <1>4, <1>5
  <2>4. writeResult'[u] = store'[request'[u].key]
    BY <1>3, <1>4, <1>5, <1>6 DEF Data
  <2>5. \A v \in Updates : /\ writeState'[v] = "failed" => v = u
                           /\ writeState'[v] # "lost"
    BY <1>2, <1>4, <1>5
  <2> QED
    BY <1>1, <1>6, <2>1, <2>2, <2>3, <2>4, <2>5 DEF WriteInv
<1>12. ItemCoherent'
  <2>1. ASSUME NEW j \in Key, itemCache'[j] # Miss, ~itemDoubtful'[j], ~Unreported(j)'
        PROVE  Shown(itemCache'[j]) = Shown(store'[j])
    <3>1. j # k
      <4>1. CASE outcome = "stored"
        BY <1>3, <1>4, <1>5, <1>6, <2>1, <4>1 DEF Unreported
      <4>2. CASE outcome = "failed"
        BY <1>3, <1>4, <1>5, <2>1, <4>2
      <4> QED
        BY <4>1, <4>2
    <3>2. ~Unreported(j)
      BY <1>1, <1>2, <1>4 DEF Unreported
    <3>3. itemCache[j] # Miss /\ ~itemDoubtful[j] /\ store'[j] = store[j]
      BY <1>4, <1>5, <1>6, <2>1, <3>1 DEF Data
    <3> QED
      BY <1>6, <3>2, <3>3 DEF Inv, CacheInv, ItemCoherent
  <2> QED
    BY <2>1 DEF ItemCoherent
<1>13. allCache # Miss => allDoubtful
  BY <1>1 DEF Inv, CacheInv, FlushInv, UpsertPending
<1>14. AllCoherent' /\ FlushInv'
  BY <1>6, <1>13 DEF Inv, CacheInv, AllCoherent, FlushInv
<1>15. InitializedCoherent'
  <2>1. ~InitUnreported
    BY <1>1, <1>2 DEF InitUnreported
  <2> QED
    BY <1>6, <2>1 DEF Inv, CacheInv, InitializedCoherent
<1> QED
  BY <1>8, <1>10, <1>11, <1>12, <1>14, <1>15 DEF Inv, CacheInv

\* The store does nothing, and answers an upsert with an error, an init as if it were done.
LEMMA StoreRefusesInv == ASSUME Inv, QueueInv', NEW u \in Updates, StoreRefuses(u) PROVE Inv'
<1> USE DEF queueVars, storeVars, cacheVars, historyVars
<1>1. PICK answer \in {"failed", "lost"} :
        /\ writeState[u] = "sent"
        /\ writeState' = [writeState EXCEPT ![u] = answer]
        /\ answer = "failed" <=> request[u].op = "upsert"
        /\ UNCHANGED <<queueVars, request, writeResult, storeVars, cacheVars, fetch, historyVars>>
  BY DEF StoreRefuses
<1>2. /\ writeState \in [Updates -> {"none", "sent", "stored", "failed", "lost"}]
      /\ request[u].op \in {"upsert", "init"}
  BY <1>1, OneWrite, RequestTypes DEF Inv, TypeOK
<1>3. TypeOK'
  BY <1>1, <1>2 DEF Inv, QueueInv, TypeOK
<1>4. \A v \in Updates : /\ writeState'[v] = "none" <=> writeState[v] = "none"
                         /\ writeState'[v] = "stored" <=> writeState[v] = "stored"
                         /\ writeState'[v] = "sent" => writeState[v] = "sent"
                         /\ writeState'[v] = "failed" =>
                              request[v].op = "upsert" \/ writeState[v] = "failed"
                         /\ writeState'[v] = "lost" =>
                              request[v].op = "init" \/ writeState[v] = "lost"
  BY <1>1, <1>2
<1>5. WriteInv' /\ ReadInv'
  BY <1>1, <1>4 DEF Inv, WriteInv, ReadInv
<1>6. ItemCoherent' /\ AllCoherent' /\ FlushInv' /\ InitializedCoherent'
  BY <1>1, <1>4 DEF Inv, CacheInv, ItemCoherent, Unreported, AllCoherent, Visible, FlushInv,
                    UpsertPending, InitializedCoherent, InitUnreported
<1> QED
  BY <1>3, <1>5, <1>6 DEF Inv, CacheInv

\* initInternal: until its callback every entry may differ from the store.
LEMMA StoreInitsInv == ASSUME Inv, QueueInv', NEW u \in Updates, StoreInits(u) PROVE Inv'
<1> USE DEF queueVars, cacheVars, historyVars
<1>1. /\ writeState[u] = "sent" /\ request[u].op = "init"
      /\ store' = request[u].data /\ storeInited' = TRUE
      /\ writeState' = [writeState EXCEPT ![u] = "stored"]
      /\ UNCHANGED <<queueVars, request, writeResult, cacheVars, historyVars>>
  BY DEF StoreInits
<1>2. /\ request[u] \in Requests
      /\ \A v \in Updates : writeState[v] # "none" => v = u
  BY <1>1, OneWrite
<1>3. request[u].data \in Data
  BY <1>1, <1>2, RequestTypes
<1>4. writeState \in [Updates -> {"none", "sent", "stored", "failed", "lost"}]
  BY DEF Inv, TypeOK
<1>5. fetch' \in [Reader -> Fetches] /\ ReadInv'
  <2>1. OvertakeReads(u)
    BY DEF StoreInits
  <2> QED
    BY <1>1, <2>1, OvertakeInv
<1>6. TypeOK'
  BY <1>1, <1>3, <1>4, <1>5 DEF Inv, QueueInv, TypeOK
<1>7. writeState'[u] = "stored" /\ \A v \in Updates : writeState'[v] # "none" => v = u
  BY <1>1, <1>2, <1>4
<1>8. WriteInv'
  <2>1. \A v \in Updates : writeState'[v] # "none" <=> inProgress'[v] > 0
    BY <1>1, <1>4 DEF Inv, WriteInv
  <2> QED
    BY <1>1, <1>7, <2>1 DEF Inv, WriteInv
<1>9. ItemCoherent' /\ AllCoherent' /\ InitializedCoherent'
  BY <1>1, <1>7 DEF ItemCoherent, AllCoherent, Unreported, InitializedCoherent, InitUnreported
<1>10. FlushInv'
  BY <1>1, <1>7 DEF FlushInv, UpsertPending
<1> QED
  BY <1>5, <1>6, <1>8, <1>9, <1>10 DEF Inv, CacheInv

\* A cache that is off stays empty.
LEMMA OffNext == ASSUME TypeOK, OffInv, [Next]_vars PROVE OffInv'
<1> SUFFICES ASSUME ~CacheOn
             PROVE  allCache' = Miss /\ \A k \in Key : itemCache'[k] = Miss
  BY DEF OffInv
<1> USE DEF cacheVars
<1>1. allCache = Miss /\ itemCache \in [Key -> Cached] /\ \A k \in Key : itemCache[k] = Miss
  BY DEF OffInv, TypeOK
<1>2. CASE (\E req \in Requests : Submit(req)) \/ RunNextUpdate
  BY <1>1, <1>2 DEF Submit, RunNextUpdate, StartWrites
<1>3. ASSUME NEW u \in Updates, StoreUpserts(u) \/ StoreRefuses(u) \/ StoreInits(u)
      PROVE  allCache' = Miss /\ \A k \in Key : itemCache'[k] = Miss
  BY <1>1, <1>3 DEF StoreUpserts, StoreRefuses, StoreInits
<1>4. ASSUME NEW u \in Updates, WriteCallback(u)
      PROVE  allCache' = Miss /\ \A k \in Key : itemCache'[k] = Miss
  BY <1>1, <1>4 DEF WriteCallback, UpsertCallback, AfterInit
<1>5. ASSUME NEW r \in Reader,
             (\E k \in Key : Get(r, k)) \/ All(r) \/ Initialized(r) \/ StoreReads(r)
      PROVE  allCache' = Miss /\ \A k \in Key : itemCache'[k] = Miss
  BY <1>1, <1>5 DEF Get, All, Initialized, Call, StoreReads
<1>6. ASSUME NEW r \in Reader, ReadCallback(r)
      PROVE  allCache' = Miss /\ \A k \in Key : itemCache'[k] = Miss
  BY <1>1, <1>6 DEF ReadCallback, GetReply, AllReply, InitializedReply
<1>7. CASE (\E k \in Key : ExpireItem(k)) \/ ExpireAll \/ ExpireCheckedInit
  BY <1>1, <1>7 DEF ExpireItem, ExpireAll, ExpireCheckedInit
<1>8. CASE UNCHANGED vars
  BY <1>1, <1>8 DEF vars
<1> QED
  BY <1>2, <1>3, <1>4, <1>5, <1>6, <1>7, <1>8 DEF Next

\* The callback brings the caches to what the store holds, then the queue moves on.
LEMMA WriteCallbackInv ==
  ASSUME Inv, OffInv, QueueInv', OffInv', NEW u \in Updates, WriteCallback(u) PROVE Inv'
<1> USE CachingAssumption DEF storeVars, historyVars
<1>1. /\ writeState[u] \in {"stored", "failed", "lost"} /\ NewCb(u)
      /\ writeState' = [writeState EXCEPT ![u] = "none"]
      /\ writeResult' = [writeResult EXCEPT ![u] = NotFound]
      /\ request' = [request EXCEPT ![u] = NoRequest]
      /\ UNCHANGED <<storeVars, fetch>>
  BY DEF WriteCallback, Answered
<1>2. /\ request[u] \in Requests /\ inProgress[u] = 1
      /\ \A v \in Updates : writeState[v] # "none" => v = u
  BY <1>1, OneWrite
<1>3. /\ writeState \in [Updates -> {"none", "sent", "stored", "failed", "lost"}]
      /\ writeResult \in [Updates -> Item \cup {NotFound}]
      /\ request \in [Updates -> Requests \cup {NoRequest}]
      /\ inProgress \in [Updates -> Nat] /\ store \in Data
      /\ finished \in Nat /\ submitted \in Nat
  BY MaxUpdatesAssumption DEF Inv, TypeOK, QueueInv, QueueTypeOK
<1>4. \A v \in Updates : writeState'[v] = "none"
  BY <1>1, <1>2, <1>3
<1>5. /\ inProgress' = [inProgress EXCEPT ![u] = @ - 1]
      /\ finished' = finished + 1 /\ submitted' = submitted
  BY <1>1 DEF NewCb
<1>6. \A v \in Updates : inProgress'[v] = 0
  <2>1. \A v \in Updates : v # u => inProgress[v] = 0
    BY <1>2, <1>3 DEF Inv, WriteInv
  <2> QED
    BY <1>2, <1>3, <1>5, <2>1
<1>7. u = finished + 1
  <2>1. updateQueue # <<>> /\ u = Head(updateQueue) /\ updateQueue \in Seq(Updates)
    BY <1>2 DEF Inv, QueueInv, Serial, QueueTypeOK
  <2> QED
    BY <2>1, EmptySeq, LenProperties, HeadTailProperties DEF Inv, QueueInv, InOrder
<1>8. WriteInv'
  <2>1. ASSUME NEW v \in Updates, finished' < v, v <= submitted' PROVE request'[v] \in Requests
    <3>1. v # u /\ finished < v /\ v <= submitted
      BY <1>3, <1>5, <1>7, <2>1 DEF Updates
    <3> QED
      BY <1>1, <1>3, <3>1 DEF Inv, WriteInv
  <2> QED
    BY <1>4, <1>6, <2>1 DEF WriteInv
<1>9. ReadInv' /\ FlushInv'
  BY <1>1, <1>4 DEF Inv, ReadInv, FlushInv, UpsertPending
<1>10. /\ request' \in [Updates -> Requests \cup {NoRequest}]
       /\ writeState' \in [Updates -> {"none", "sent", "stored", "failed", "lost"}]
       /\ writeResult' \in [Updates -> Item \cup {NotFound}]
  BY <1>1, <1>3
<1>11. ASSUME ~CacheOn PROVE ItemCoherent' /\ AllCoherent'
  BY <1>11 DEF OffInv, ItemCoherent, AllCoherent
<1>12. CASE request[u].op = "upsert" /\ UpsertCallback(u)
  <2>1. /\ request[u].key \in Key
        /\ UNCHANGED <<allCache, checkedInit, initialized, allDoubtful, initDoubtful>>
    BY <1>2, <1>12, RequestTypes DEF UpsertCallback
  <2>2. TypeOK'
    <3>1. itemCache \in [Key -> Cached] /\ itemDoubtful \in [Key -> BOOLEAN]
      BY DEF Inv, TypeOK
    <3>2. CASE CacheOn /\ writeState[u] = "stored"
      <4>1. /\ itemCache' = [itemCache EXCEPT ![request[u].key] = writeResult[u]]
            /\ itemDoubtful' = [itemDoubtful EXCEPT ![request[u].key] = FALSE]
        BY <1>12, <3>2 DEF UpsertCallback, CachedAfter
      <4>2. writeResult[u] \in Cached
        BY <1>3 DEF Cached
      <4>3. itemCache' \in [Key -> Cached] /\ itemDoubtful' \in [Key -> BOOLEAN]
        BY <2>1, <3>1, <4>1, <4>2
      <4> QED
        BY <1>1, <1>3, <1>10, <2>1, <4>3 DEF Inv, QueueInv, TypeOK
    <3>3. CASE ~(CacheOn /\ writeState[u] = "stored")
      <4>1. UNCHANGED <<itemCache, itemDoubtful>>
        BY <1>12, <3>3 DEF UpsertCallback
      <4> QED
        BY <1>1, <1>3, <1>10, <2>1, <4>1 DEF Inv, QueueInv, TypeOK
    <3> QED
      BY <3>2, <3>3
  <2>3. ASSUME CacheOn, NEW k \in Key, itemCache'[k] # Miss, ~itemDoubtful'[k]
        PROVE  Shown(itemCache'[k]) = Shown(store'[k])
    <3>1. CASE writeState[u] = "stored" /\ k = request[u].key
      <4>1. itemCache'[k] = writeResult[u]
        BY <1>12, <2>1, <2>3, <3>1 DEF UpsertCallback, CachedAfter, Inv, TypeOK
      <4> QED
        BY <1>1, <1>12, <3>1, <4>1 DEF Inv, WriteInv
    <3>2. CASE ~(writeState[u] = "stored" /\ k = request[u].key)
      <4>1. itemCache'[k] = itemCache[k] /\ itemDoubtful'[k] = itemDoubtful[k]
        BY <1>12, <2>1, <3>2 DEF UpsertCallback, Inv, TypeOK
      <4>2. ~Unreported(k)
        BY <1>2, <1>12, <3>2 DEF Unreported
      <4> QED
        BY <1>1, <2>3, <4>1, <4>2 DEF Inv, CacheInv, ItemCoherent
    <3> QED
      BY <3>1, <3>2
  <2>4. ItemCoherent'
    BY <1>11, <2>3 DEF ItemCoherent
  <2>5. AllCoherent' /\ InitializedCoherent'
    BY <1>1, <1>2, <1>12, <2>1 DEF Inv, CacheInv, AllCoherent, Visible, InitializedCoherent,
                                   InitUnreported
  <2> QED
    BY <1>8, <1>9, <2>2, <2>4, <2>5 DEF Inv, CacheInv
<1>13. CASE request[u].op = "init" /\ AfterInit(u)
  <2>1. /\ request[u].data \in Data /\ initialized' = TRUE
        /\ initDoubtful' = (writeState[u] = "lost")
    BY <1>2, <1>13, RequestTypes DEF AfterInit
  <2>2. writeState[u] # "lost" => store = request[u].data /\ storeInited
    <3>1. writeState[u] # "failed"
      BY <1>13 DEF Inv, WriteInv
    <3> QED
      BY <1>1, <1>13, <3>1 DEF Inv, WriteInv
  <2>3. InitializedCoherent'
    BY <1>1, <2>1, <2>2 DEF InitializedCoherent
  <2>4. CASE CacheOn
    <3> DEFINE data == request[u].data
               lost == writeState[u] = "lost"
    <3>1. /\ checkedInit' = FALSE /\ allCache' = data
          /\ itemCache' = [k \in Key |-> IF data[k] = NotFound THEN Miss ELSE data[k]]
          /\ itemDoubtful' = [k \in Key |-> lost] /\ allDoubtful' = lost
      BY <1>13, <2>4 DEF AfterInit
    <3>2. itemCache' \in [Key -> Cached]
      BY <1>3, <2>1, <3>1 DEF Cached, Data
    <3>3. lost \in BOOLEAN
      OBVIOUS
    <3>4. TypeOK'
      BY <1>1, <1>3, <1>10, <2>1, <3>1, <3>2, <3>3 DEF Inv, QueueInv, TypeOK
    <3>5. ItemCoherent' /\ AllCoherent'
      BY <1>1, <2>2, <3>1 DEF ItemCoherent, AllCoherent, Visible
    <3> QED
      BY <1>8, <1>9, <2>3, <3>4, <3>5 DEF Inv, CacheInv
  <2>5. CASE ~CacheOn
    <3>1. UNCHANGED <<checkedInit, allCache, itemCache, itemDoubtful, allDoubtful>>
      BY <1>13, <2>5 DEF AfterInit
    <3>2. TypeOK'
      BY <1>1, <1>3, <1>10, <2>1, <3>1 DEF Inv, QueueInv, TypeOK
    <3> QED
      BY <1>8, <1>9, <1>11, <2>3, <2>5, <3>2 DEF Inv, CacheInv
  <2> QED
    BY <2>4, <2>5
<1> QED
  BY <1>12, <1>13 DEF WriteCallback

-----------------------------------------------------------------------------
(* The theorems *)

LEMMA InitInv == Init => Inv /\ OffInv
<1> SUFFICES ASSUME Init PROVE Inv /\ OffInv
  OBVIOUS
<1> USE CachingAssumption DEF Init
<1>1. QueueInv /\ QueueTypeOK
  BY QueueInitInv DEF QueueInv
<1>2. inProgress = [u \in Updates |-> 0] /\ submitted = 0 /\ finished = 0
  BY DEF QueueInit
<1>3. fetch \in [Reader -> Fetches]
  BY DEF Fetches
<1>4. TypeOK
  BY <1>1, <1>3 DEF TypeOK, Data, Cached
<1>5. WriteInv
  BY <1>2, MaxUpdatesAssumption DEF WriteInv, Updates
<1>6. ReadInv
  BY DEF ReadInv, Idle, Fetch
<1>7. CacheInv
  BY DEF CacheInv, ItemCoherent, AllCoherent, InitializedCoherent, InitUnreported, FlushInv
<1>8. OffInv
  BY DEF OffInv
<1> QED
  BY <1>1, <1>4, <1>5, <1>6, <1>7, <1>8 DEF Inv

LEMMA NextInv == Inv /\ OffInv /\ [Next]_vars => Inv' /\ OffInv'
<1> SUFFICES ASSUME Inv, OffInv, [Next]_vars PROVE Inv' /\ OffInv'
  OBVIOUS
<1>1. QueueInv'
  BY NextIsQueueNext, QueueNextInv DEF Inv
<1>2. OffInv'
  BY OffNext DEF Inv
<1>3. ASSUME NEW req \in Requests, Submit(req) PROVE Inv'
  BY <1>1, <1>3, SubmitInv
<1>4. ASSUME RunNextUpdate PROVE Inv'
  BY <1>1, <1>4, RunNextUpdateInv
<1>5. ASSUME NEW u \in Updates, StoreUpserts(u) \/ StoreRefuses(u) \/ StoreInits(u)
      PROVE  Inv'
  BY <1>1, <1>5, StoreUpsertsInv, StoreRefusesInv, StoreInitsInv
<1>6. ASSUME NEW u \in Updates, WriteCallback(u) PROVE Inv'
  BY <1>1, <1>2, <1>6, WriteCallbackInv
<1>7. ASSUME NEW r \in Reader, (\E k \in Key : Get(r, k)) \/ All(r) \/ Initialized(r)
      PROVE  Inv'
  <2>1. Idle.key \in Key
    BY CachingAssumption DEF Idle, Fetch
  <2> QED
    BY <1>1, <1>7, <2>1, CallInv DEF Get, All, Initialized
<1>8. ASSUME NEW r \in Reader, StoreReads(r) \/ ReadCallback(r) PROVE Inv'
  BY <1>1, <1>8, StoreReadsInv, ReadCallbackInv
<1>9. ASSUME (\E k \in Key : ExpireItem(k)) \/ ExpireAll \/ ExpireCheckedInit PROVE Inv'
  BY <1>1, <1>9, ExpireInv
<1>10. ASSUME UNCHANGED vars PROVE Inv'
  <2> USE <1>10 DEF vars, queueVars, storeVars, writeVars, cacheVars, historyVars
  <2>1. TypeOK' /\ WriteInv' /\ ReadInv'
    BY <1>1 DEF Inv, QueueInv, TypeOK, WriteInv, ReadInv
  <2>2. CacheInv'
    BY DEF Inv, CacheInv, ItemCoherent, AllCoherent, Visible, Unreported, InitializedCoherent, InitUnreported,
           FlushInv, UpsertPending
  <2> QED
    BY <1>1, <2>1, <2>2 DEF Inv
<1> QED
  BY <1>2, <1>3, <1>4, <1>5, <1>6, <1>7, <1>8, <1>9, <1>10 DEF Next

LEMMA InvAlways == Spec => []Inv
  BY InitInv, NextInv, PTL DEF Spec

\* Every variable of the wrapper keeps its type, the calls in flight included.
THEOREM WrapperTypeCorrect == Spec => []TypeOK
<1>1. Inv => TypeOK
  BY DEF Inv
<1> QED
  BY <1>1, InvAlways, PTL

\* What get() answers from the cache is what the store holds, except in the
\* circumstances ItemCoherent names.
THEOREM ItemCacheCoherent == Spec => []ItemCoherent
<1>1. Inv => ItemCoherent
  BY DEF Inv, CacheInv
<1> QED
  BY <1>1, InvAlways, PTL

\* The same for what all() answers from the cache.
THEOREM AllCacheCoherent == Spec => []AllCoherent
<1>1. Inv => AllCoherent
  BY DEF Inv, CacheInv
<1> QED
  BY <1>1, InvAlways, PTL

\* What initialized() answers without asking the store is what the store would say, with
\* the exceptions InitializedCoherent names.
THEOREM WrapperInitializedCoherent == Spec => []InitializedCoherent
<1>1. Inv => InitializedCoherent
  BY DEF Inv, CacheInv
<1> QED
  BY <1>1, InvAlways, PTL

\* init() caches its data set as it is, so a deleted item in it would be shown.
LiveDatasets == \A d \in Datasets, k \in Key : d[k] # NotFound => ~d[k].deleted

LEMMA HidesNext ==
  ASSUME LiveDatasets, Inv, AllHidesDeleted, [Next]_vars
  PROVE  AllHidesDeleted'
<1> USE DEF AllHidesDeleted, cacheVars
<1>0. NotFound \notin Data /\ Miss \notin Data
  BY CachingAssumption DEF Data
<1>1. CASE (\E req \in Requests : Submit(req)) \/ RunNextUpdate
  BY <1>1 DEF Submit, RunNextUpdate, StartWrites
<1>2. ASSUME NEW u \in Updates, StoreUpserts(u) \/ StoreRefuses(u) \/ StoreInits(u)
      PROVE  AllHidesDeleted'
  BY <1>2 DEF StoreUpserts, StoreRefuses, StoreInits
<1>3. ASSUME NEW u \in Updates, WriteCallback(u)
      PROVE  AllHidesDeleted'
  <2>1. CASE request[u].op = "upsert"
    BY <1>3, <2>1 DEF WriteCallback, UpsertCallback
  <2>2. CASE request[u].op = "init"
    <3>1. writeState[u] # "none"
      BY <1>3 DEF WriteCallback, Answered
    <3>2. request[u] \in Requests
      BY <3>1, OneWrite
    <3>3. request[u].data \in Datasets
      BY <2>2, <3>2 DEF Requests
    <3>4. allCache' = request[u].data \/ allCache' = allCache
      BY <1>3, <2>2 DEF WriteCallback, AfterInit
    <3> QED
      BY <3>3, <3>4 DEF LiveDatasets
  <2> QED
    BY <1>3, <2>1, <2>2 DEF WriteCallback
<1>4. ASSUME NEW r \in Reader,
             (\E k \in Key : Get(r, k)) \/ All(r) \/ Initialized(r) \/ StoreReads(r)
      PROVE  AllHidesDeleted'
  BY <1>4 DEF Get, All, Initialized, Call, StoreReads
<1>5. ASSUME NEW r \in Reader, ReadCallback(r)
      PROVE  AllHidesDeleted'
  <2>1. CASE allCache' = allCache
    BY <2>1
  <2>2. CASE allCache' = Visible(fetch[r].result)
    BY <2>2 DEF Visible, Shown
  <2> QED
    BY <1>5, <2>1, <2>2 DEF ReadCallback, GetReply, AllReply, InitializedReply
<1>6. CASE (\E k \in Key : ExpireItem(k)) \/ ExpireAll \/ ExpireCheckedInit
  BY <1>6 DEF ExpireItem, ExpireAll, ExpireCheckedInit
<1>7. CASE UNCHANGED vars
  BY <1>7 DEF vars
<1> QED
  BY <1>1, <1>2, <1>3, <1>4, <1>5, <1>6, <1>7 DEF Next

\* What all() answers from the cache is never a deleted item, in whatever order
\* updates, reads and expiries come, as long as init() is given none.
THEOREM AllNeverShowsDeleted == ASSUME LiveDatasets PROVE Spec => []AllHidesDeleted
<1>1. Init => AllHidesDeleted
  BY DEF Init, AllHidesDeleted
<1>2. Inv /\ AllHidesDeleted /\ [Next]_vars => AllHidesDeleted'
  BY HidesNext
<1> QED
  BY <1>1, <1>2, InvAlways, PTL DEF Spec
=============================================================================
