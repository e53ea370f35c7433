---------------------------- MODULE EventWrapper ----------------------------
(* feature_store_event_wrapper.js: the dependency tracker, and the update events for
   every flag a change may affect.

   Over the in-memory store, which is synchronous, reading the old data, changing the
   store, updating the tracker and scheduling the events is one action, Operate.  Over
   a persistent store (behind caching_store_wrapper.js) an update is a call that first
   reads the old data, if somebody listens, and only then enters the update queue,
   which writes the updates one at a time in the order they entered it (module
   UpdateQueue); a write is called back before the next one starts, without an error
   even if it failed.  A read may be answered from a cache, or find nothing because it
   failed (module CachingStore).

   Operators named <name>_<variant> are mistakes the runs must detect.       *)
EXTENDS InMemoryStore, Sequences

CONSTANTS
  Upserts,     \* [node, item] records upsert() may be called with
  Deletions,   \* [node, version] records delete() may be called with
  DataSets,    \* data sets init() may be called with
  StoreKinds,  \* "memory", "persistent" or both
  MaxUpdates   \* bound: operations in a behaviour

ASSUME WrapperAssumption ==
  /\ Upserts \subseteq [node : Node, item : Item]
  /\ Deletions \subseteq [node : Node, version : Nat]
  /\ \A d \in Deletions : Tombstone(d.version) \in Item
  /\ DataSets \subseteq DataSet
  /\ \A u \in Upserts : u.node \in Segment => u.item.deps = {}
  /\ \A d \in DataSets, n \in Segment : d.items[n] # Absent => d.items[n].deps = {}
  /\ StoreKinds \subseteq {"memory", "persistent"}
  /\ MaxUpdates \in Nat

VARIABLES
  storeKind,          \* which store the wrapper is given
  dependenciesFrom,   \* for every node, the nodes it relies on
  dependenciesTo,     \* for every node, the nodes that rely on it
  listening,          \* the emitter has an 'update' or 'update:<key>' listener
  scheduled,          \* flags whose events setImmediate has yet to emit
  updates,            \* updates so far
  calls,              \* persistent store: how far every update is
  queue,              \* persistent store: the updates in the update queue
  past,               \* persistent store: what it has held, which a cache may still show
  rejected,           \* history: nodes whose last update the store did not take
  lost,               \* history: nodes of which the store refused or misplaced a write
  owed,               \* history: flags affected by a write and not announced yet
  intended,           \* history: the data, had every update been done when it was called
  disordered          \* history: updates that do not commute were done in another order

trackerVars == <<dependenciesFrom, dependenciesTo>>
callVars == <<calls, queue, past>>
historyVars == <<rejected, lost, owed, intended, disordered>>
vars == <<storeKind, storeVars, trackerVars, listening, scheduled, updates, callVars, historyVars>>

Updates ==
  {[op |-> "init", data |-> data] : data \in DataSets}
    \cup {[op |-> "upsert", node |-> u.node, item |-> u.item] : u \in Upserts}
    \cup {[op |-> "delete", node |-> d.node, item |-> Tombstone(d.version)] : d \in Deletions}

IsInit(u) == u.op = "init"

NoDependencies == [n \in Node |-> {}]
Nothing == [n \in Node |-> Absent]
NotCalled == [stage |-> "none"]

Init ==
  /\ storeKind \in StoreKinds
  /\ StoreInit
  /\ dependenciesFrom = NoDependencies /\ dependenciesTo = NoDependencies
  /\ listening = FALSE /\ scheduled = <<>> /\ updates = 0
  /\ calls = [c \in 1..MaxUpdates |-> NotCalled] /\ queue = <<>> /\ past = {Nothing}
  /\ rejected = {} /\ lost = {} /\ owed = {} /\ intended = Nothing /\ disordered = FALSE

-----------------------------------------------------------------------------
(* The dependency tracker *)

\* updateDependenciesFrom(n, deps): forget n's old dependencies, then add the new.
Relink_KeepsOld(n, deps) ==
  [m \in Node |-> IF m \in deps THEN dependenciesTo[m] \cup {n} ELSE dependenciesTo[m]]
Relink(n, deps) ==
  [m \in Node |-> (dependenciesTo[m] \ (IF m \in dependenciesFrom[n] THEN {n} ELSE {}))
                    \cup (IF m \in deps THEN {n} ELSE {})]

UpdateDependenciesFrom_AddsOnly(n, deps) ==
  /\ dependenciesFrom' = IF deps = {} THEN dependenciesFrom
                         ELSE [dependenciesFrom EXCEPT ![n] = deps]
  /\ dependenciesTo' = IF deps = {} THEN dependenciesTo ELSE Relink(n, deps)
UpdateDependenciesFrom(n, deps) ==
  /\ dependenciesFrom' = [dependenciesFrom EXCEPT ![n] = deps]
  /\ dependenciesTo' = Relink(n, deps)

\* init() resets the tracker and adds the dependencies of every item.
DepsOf(item) == IF item = Absent THEN {} ELSE item.deps

RebuildTracker(data) ==
  /\ dependenciesFrom' = [n \in Node |-> DepsOf(data.items[n])]
  /\ dependenciesTo' = [m \in Node |-> {n \in Node : m \in DepsOf(data.items[n])}]

\* The least set that has the nodes and, with each of its own, those that rely on it.
Reached(nodes, rely) ==
  {n \in Node : \A S \in SUBSET Node :
     nodes \subseteq S /\ (\A m \in S : rely[m] \subseteq S) => n \in S}

\* updateModifiedItems: the modified nodes, the nodes that rely on them, and so on.
Modified_Once(nodes) == nodes \cup UNION {dependenciesTo'[n] : n \in nodes}
Modified(nodes) == Reached(nodes, dependenciesTo')

\* addIfModified: a new version no greater than the visible old one is no change.
IsModified(old, new) ==
  ~(new # Absent /\ old # Absent /\ new.version <= old.version)

\* The nodes an update modifies, judged by the old data it has read.
ModifiedBy(u, old) ==
  IF IsInit(u)
  THEN {n \in Node : /\ Kind(n) \in u.data.kinds
                     /\ old[n] # Absent \/ u.data.items[n] # Absent
                     /\ IsModified(old[n], u.data.items[n])}
  ELSE {n \in {u.node} : IsModified(old[n], u.item)}

\* sendChangeEvents: segments have no events of their own.
SendChangeEvents_AllKinds(checks, nodes) ==
  scheduled' = IF checks THEN Append(scheduled, Modified(nodes)) ELSE scheduled
SendChangeEvents(checks, nodes) ==
  scheduled' = IF checks THEN Append(scheduled, Modified(nodes) \cap Flag) ELSE scheduled

\* The store has been changed: the tracker follows, then the events are scheduled.
Follow(u, checks, old) ==
  /\ IF IsInit(u) THEN RebuildTracker(u.data) ELSE UpdateDependenciesFrom(u.node, u.item.deps)
  /\ SendChangeEvents(checks, ModifiedBy(u, old))

-----------------------------------------------------------------------------
(* What the history variables record *)

\* The store holds something else than the tracker is about to be told.  (A deletion of
\* an item that is not there has nothing to tell.)
Rejecting(u) ==
  rejected' =
    IF IsInit(u) THEN {n \in Node : allData'[n] # u.data.items[n]}
    ELSE IF allData'[u.node] # u.item /\ (allData'[u.node] # Absent \/ u.op = "upsert")
         THEN rejected \cup {u.node} ELSE rejected \ {u.node}

\* Flags that rely on node x in the data of a store, by way of trusted nodes.
Affected(x, data, trusted) ==
  Flag \cap Reached({x}, [m \in Node |-> {n \in trusted : m \in DepsOf(data[n])}])

\* A step that changes what get() returns for node x, while its namespace stays and
\* its version, if there are two, grows.
Changes(x) ==
  /\ VisibleItem(x)' # VisibleItem(x)
  /\ Kind(x) \in namespaces'
  /\ VisibleItem(x) # Absent /\ allData'[x] # Absent => allData[x].version < allData'[x].version

\* The flags a write affects by way of the nodes it changes and the tracker can know.
Owing(nodes) == UNION {Affected(x, allData', Node \ rejected') : x \in {y \in nodes : Changes(y)}}

Announced == IF Len(scheduled') > Len(scheduled) THEN scheduled'[Len(scheduled')] ELSE {}

Intend(u) ==
  intended' = IF IsInit(u) THEN u.data.items
              ELSE IF intended[u.node] = Absent \/ intended[u.node].version < u.item.version
                   THEN [intended EXCEPT ![u.node] = u.item] ELSE intended

-----------------------------------------------------------------------------
(* Operations over the in-memory store *)

Old == [n \in Node |-> VisibleItem(n)]

Operate(u) ==
  /\ storeKind = "memory"
  /\ updates < MaxUpdates /\ updates' = updates + 1
  /\ CASE u.op = "init"   -> Replace(u.data)
       [] u.op = "upsert" -> StoreUpsert(u.node, u.item)
       [] u.op = "delete" -> StoreDelete(u.node, u.item.version)
  /\ Follow(u, listening, Old)
  /\ Rejecting(u) /\ Intend(u)
  /\ owed' = IF listening THEN Owing(Node) \ Announced ELSE owed
  /\ disordered' = (disordered \/ (u.op = "delete" /\ Kind(u.node) \notin namespaces))
  /\ UNCHANGED <<storeKind, listening, callVars, lost>>

-----------------------------------------------------------------------------
(* Operations over a persistent store *)

\* Whether the wrapper reads before it writes is decided when it is called.
Call(u) ==
  /\ storeKind = "persistent"
  /\ updates < MaxUpdates /\ updates' = updates + 1
  /\ calls' = [calls EXCEPT ![updates'] =
       [update |-> u, checks |-> listening, stage |-> IF listening THEN "asked" ELSE "queued",
        kind |-> IF IsInit(u) THEN "features" ELSE Kind(u.node), old |-> Nothing, misled |-> {}]]
  /\ queue' = IF listening THEN queue ELSE Append(queue, updates')
  /\ Intend(u)
  /\ UNCHANGED <<storeKind, storeVars, trackerVars, listening, scheduled, past, rejected, lost,
                 owed, disordered>>

\* What a call reads: get() of its item, or all() of one kind.
Read(call) == IF IsInit(call.update) THEN {n \in Node : Kind(n) = call.kind}
              ELSE {call.update.node}

\* What a read may be answered with: what the store shows now or, from a cache, showed
\* before; nothing, if it fails; and all() may be answered with the data set of an init()
\* that has been called back, deleted items included, even if the store refused it.
Shown(data) == [n \in Node |-> IF data[n] # Absent /\ ~data[n].deleted THEN data[n] ELSE Absent]
Given ==
  {calls[d].update.data.items :
     d \in {e \in 1..MaxUpdates : calls[e].stage = "done" /\ IsInit(calls[e].update)}}
Answers(u) == {Shown(data) : data \in past \cup Given} \cup (IF IsInit(u) THEN Given ELSE {})

\* An answer for node n after which the wrapper may take a change for none: an item newer
\* than the store's, or in the case of init() one that is not there, or the lack of one
\* that is.
Misleading(call, n, answer) ==
  \/ answer # Absent /\ (allData[n] = Absent \/ allData[n].version < answer.version)
  \/ IsInit(call.update) /\ (answer = Absent) # (VisibleItem(n) = Absent)

StoreReads(c) ==
  /\ calls[c].stage = "asked"
  /\ \E answer \in Answers(calls[c].update) :
       calls' = [calls EXCEPT ![c].stage = "read",
         ![c].old = [n \in Node |-> IF n \in Read(calls[c]) THEN answer[n] ELSE @[n]],
         ![c].misled = @ \cup {n \in Read(calls[c]) : Misleading(calls[c], n, answer[n])}]
  /\ UNCHANGED <<storeKind, storeVars, trackerVars, listening, scheduled, updates, queue, past,
                 historyVars>>

\* init() reads the segments after the flags; then the update is queued.
ReadCallback(c) ==
  LET again == IsInit(calls[c].update) /\ calls[c].kind = "features"
  IN  /\ calls[c].stage = "read"
      /\ calls' = IF again THEN [calls EXCEPT ![c].stage = "asked", ![c].kind = "segments"]
                  ELSE [calls EXCEPT ![c].stage = "queued"]
      /\ queue' = IF again THEN queue ELSE Append(queue, c)
      /\ UNCHANGED <<storeKind, storeVars, trackerVars, listening, scheduled, updates, past,
                     historyVars>>

\* The nodes a call has read by now.
HasRead(call) ==
  CASE call.stage \in {"none", "done"} -> {}
    [] call.stage = "asked"            -> {n \in Flag : call.kind = "segments" /\ IsInit(call.update)}
    [] call.stage \in {"read", "queued", "written"} ->
         IF IsInit(call.update) /\ call.kind = "segments" THEN Node ELSE Read(call)

\* The store goes back to an older version of a node.
GoesBack(n) ==
  allData[n] # Absent /\ (allData'[n] = Absent \/ allData'[n].version < allData[n].version)

\* Of what call has read, what a write makes useless: what the store goes back on, and in
\* the case of init(), which does not compare with what came after it read, every change.
Overtaken(call) ==
  {n \in HasRead(call) : GoesBack(n) \/ (IsInit(call.update) /\ allData'[n] # allData[n])}

\* Two updates whose order matters.
Conflict(u, w) ==
  IsInit(u) \/ IsInit(w) \/ (u.node = w.node /\ u.item.version = w.item.version)

\* How a write may end: it is done as asked; nothing is written; or an upsert that was
\* told that there is no old item overwrites a newer one.  delete() is an upsert of a
\* tombstone.
Performed(u) ==
  /\ IF IsInit(u) THEN Replace(u.data) ELSE StoreUpsert(u.node, u.item)
  /\ lost' = IF IsInit(u) THEN {} ELSE lost

Missed(u) == lost' = IF IsInit(u) THEN Node ELSE lost \cup {u.node}

Refused(u) == Missed(u) /\ UNCHANGED storeVars

Overwritten(u) ==
  /\ ~IsInit(u) /\ ~Accepts(u.node, u.item.version)
  /\ allData' = [allData EXCEPT ![u.node] = u.item]
  /\ Missed(u)
  /\ UNCHANGED <<namespaces, initCalled>>

\* The queue's head is written.
StoreWrites ==
  LET c == Head(queue)
      u == calls[c].update
  IN  /\ queue # <<>> /\ calls[c].stage = "queued"
      /\ \/ /\ Performed(u) /\ Rejecting(u)
            /\ owed' = IF calls[c].checks THEN owed \cup Owing(Node \ calls[c].misled) ELSE owed
         \/ (Refused(u) \/ Overwritten(u)) /\ Rejecting(u) /\ UNCHANGED owed
      /\ past' = past \cup {allData'}
      /\ calls' = [d \in DOMAIN calls |->
           IF d = c THEN [calls[d] EXCEPT !.stage = "written"]
           ELSE IF HasRead(calls[d]) = {} THEN calls[d]
           ELSE [calls[d] EXCEPT !.misled = @ \cup Overtaken(calls[d])]]
      /\ disordered' = (disordered \/ \E d \in (c + 1)..MaxUpdates :
                          calls[d].stage = "done" /\ Conflict(u, calls[d].update))
      /\ UNCHANGED <<storeKind, trackerVars, listening, scheduled, updates, queue, intended>>

\* The write is called back to the wrapper, and the queue moves on.
WriteCallback ==
  LET c == Head(queue)
  IN  /\ queue # <<>> /\ calls[c].stage = "written"
      /\ Follow(calls[c].update, calls[c].checks, calls[c].old)
      /\ queue' = Tail(queue)
      /\ calls' = [calls EXCEPT ![c] = [stage |-> "done", update |-> @.update]]
      /\ owed' = owed \ Announced
      /\ UNCHANGED <<storeKind, storeVars, listening, updates, past, rejected, lost, intended,
                     disordered>>

-----------------------------------------------------------------------------
\* The application adds its first listener or removes its last one.
SetListening ==
  /\ listening' = ~listening
  /\ UNCHANGED <<storeKind, storeVars, trackerVars, scheduled, updates, callVars, historyVars>>

\* The event loop runs the emits of one operation.
Emit ==
  /\ scheduled # <<>>
  /\ scheduled' = Tail(scheduled)
  /\ UNCHANGED <<storeKind, storeVars, trackerVars, listening, updates, callVars, historyVars>>

Next ==
  \/ \E u \in Updates : Operate(u) \/ Call(u)
  \/ \E c \in 1..MaxUpdates : StoreReads(c) \/ ReadCallback(c)
  \/ StoreWrites
  \/ WriteCallback
  \/ SetListening
  \/ Emit

Spec == Init /\ [][Next]_vars

-----------------------------------------------------------------------------
(* Properties *)

Writing == queue # <<>> /\ calls[Head(queue)].stage = "written"

\* Every variable keeps its type, and the queue holds each waiting call once.
TypeOK ==
  /\ StoreTypeOK
  /\ dependenciesFrom \in [Node -> SUBSET Node]
  /\ dependenciesTo \in [Node -> SUBSET Node]
  /\ storeKind \in StoreKinds /\ listening \in BOOLEAN /\ disordered \in BOOLEAN
  /\ scheduled \in Seq(SUBSET Flag)
  /\ updates \in 0..MaxUpdates
  /\ \A c \in 1..MaxUpdates :
       /\ (calls[c].stage = "none") = (storeKind = "memory" \/ c > updates)
       /\ (\E i \in DOMAIN queue : queue[i] = c) = (calls[c].stage \in {"queued", "written"})
       /\ calls[c].stage = "written" => Head(queue) = c
  /\ \A i, j \in DOMAIN queue : queue[i] = queue[j] => i = j
  /\ rejected \subseteq Node /\ lost \subseteq Node /\ owed \subseteq Flag
  /\ past \subseteq [Node -> Item \cup {Absent}]
  /\ intended \in [Node -> Item \cup {Absent}]

\* The tracker's two maps are the inverse of each other, whatever was added, replaced
\* and removed in between, and once a write is called back they know the dependencies
\* of the item in the store, except of a node whose last update the store did not take:
\* it kept a newer version, or the write failed.  The tracker follows all the same.
TrackerAgrees ==
  /\ \A m, n \in Node : m \in dependenciesFrom[n] <=> n \in dependenciesTo[m]
  /\ ~Writing => \A n \in Node \ rejected : dependenciesFrom[n] = DepsOf(allData[n])

\* A change of a flag or a segment, by an update that was called while somebody
\* listened, announces every flag whose value it may affect when the write is called
\* back, however reads and writes of other updates came in between; except what the
\* tracker cannot know after an update the store did not take, and nodes of whose old
\* version the call was misled: by a cache that showed an item newer than the store's,
\* or showed init() one that was gone or hid one that was there; or by a write after its
\* read that took the store back to an older version or changed what init() had read.
ChangesAnnounced == ~Writing => owed = {}

\* When nothing is in flight the store holds what the updates amount to in the order
\* of the calls: versions decide, a delayed update cannot undo a deletion or a newer
\* version.  It fails to only if an init() and an update with which its order matters
\* were written in another order than they were called (which takes listeners, for whom
\* init() reads both kinds first), if a deletion found no namespace in the in-memory
\* store, or for nodes of which the persistent store refused or misplaced a write since
\* the last init() that it took.
LatestWins ==
  (\A c \in 1..MaxUpdates : calls[c].stage \in {"none", "done"}) /\ ~disordered =>
    \A n \in Node \ lost : allData[n] = intended[n]
=============================================================================
