---------------------------- MODULE InMemoryStore ----------------------------
(* feature_store.js: the default store.  Every operation is synchronous and calls
   back before it returns, so it is one action, or a conjunct of its caller's.

   A node is a flag or a segment.  An item carries its version, its tombstone mark
   and the nodes its rules and prerequisites name; no other content matters to the
   modules that use the store.  Operators named <name>_<variant> are mistakes the
   runs must detect.                                                         *)
EXTENDS Naturals

CONSTANTS
  Flag, Segment,   \* keys of the two kinds
  Item,            \* item values, tombstones included
  Absent           \* the namespace has no such key

Node == Flag \cup Segment
Kind(n) == IF n \in Flag THEN "features" ELSE "segments"
Kinds == {"features", "segments"}

ASSUME StoreAssumption ==
  /\ Flag \cap Segment = {}
  /\ Item \subseteq [version : Nat, deleted : BOOLEAN, deps : SUBSET Node]
  /\ \A i \in Item : i.deleted => i.deps = {}
  /\ Absent \notin Item

\* What init() takes: the namespaces the data set has, and their items.
DataSet ==
  {d \in [kinds : SUBSET Kinds, items : [Node -> Item \cup {Absent}]] :
     \A n \in Node : Kind(n) \notin d.kinds => d.items[n] = Absent}

VARIABLES
  allData,      \* the items of every namespace
  namespaces,   \* the namespaces allData has an object for
  initCalled

storeVars == <<allData, namespaces, initCalled>>

StoreInit ==
  /\ allData = [n \in Node |-> Absent]
  /\ namespaces = {}
  /\ initCalled = FALSE

\* What get() and all() return for a node; null is Absent.
VisibleItem(n) ==
  IF allData[n] # Absent /\ ~allData[n].deleted THEN allData[n] ELSE Absent

Replace(data) ==
  /\ allData' = data.items
  /\ namespaces' = data.kinds
  /\ initCalled' = TRUE

Accepts_Anything(n, version) == TRUE
Accepts_SameVersion(n, version) ==
  allData[n] = Absent \/ allData[n].version <= version
Accepts(n, version) == allData[n] = Absent \/ allData[n].version < version

StoreUpsert(n, item) ==
  /\ allData' = IF Accepts(n, item.version) THEN [allData EXCEPT ![n] = item] ELSE allData
  /\ namespaces' = namespaces \cup {Kind(n)}
  /\ UNCHANGED initCalled

Tombstone_Unversioned(version) == [version |-> 0, deleted |-> TRUE, deps |-> {}]
Tombstone(version) == [version |-> version, deleted |-> TRUE, deps |-> {}]

\* delete() files a new namespace under allData[kind] instead of
\* allData[kind.namespace], so the tombstone is lost with it.
StoreDelete(n, version) ==
  /\ allData' = IF Kind(n) \in namespaces /\ Accepts(n, version)
                  THEN [allData EXCEPT ![n] = Tombstone(version)] ELSE allData
  /\ UNCHANGED <<namespaces, initCalled>>

StoreTypeOK ==
  /\ allData \in [Node -> Item \cup {Absent}]
  /\ namespaces \subseteq Kinds
  /\ initCalled \in BOOLEAN
=============================================================================
