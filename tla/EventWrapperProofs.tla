------------------------- MODULE EventWrapperProofs -------------------------
(* What the listeners of update events and the readers of the store can rely on, for
   any flags, segments and items, any updates in any order of calls, reads and writes,
   over either kind of store, with reads from a cache and writes that fail.  *)
EXTENDS EventWrapper, SequenceTheorems, TLAPS

-----------------------------------------------------------------------------
(* The invariant *)

Calls == 1..MaxUpdates

WaitingRecord ==
  [update : Updates, checks : BOOLEAN, stage : {"asked", "read", "queued", "written"},
   kind : Kinds, old : [Node -> Item \cup {Absent}], misled : SUBSET Node]
DoneRecord == [stage : {"done"}, update : Updates]
CallRecord == {NotCalled} \cup WaitingRecord \cup DoneRecord

Types ==
  /\ TypeOK
  /\ calls \in [Calls -> CallRecord]
  /\ queue \in Seq(Calls)

Mutual == \A m, n \in Node : m \in dependenciesFrom[n] <=> n \in dependenciesTo[m]

\* The tracker has the dependencies of n in the store; between the write and its
\* callback the update holds what the tracker will have.
Tracked(n) == dependenciesFrom[n] = DepsOf(allData[n])
WillTrack(u) ==
  \A n \in Node \ rejected :
    IF IsInit(u) THEN allData[n] = u.data.items[n]
    ELSE IF n = u.node THEN DepsOf(allData[n]) = u.item.deps ELSE Tracked(n)

TrackerInv ==
  /\ Mutual
  /\ ~Writing => \A n \in Node \ rejected : Tracked(n)
  /\ Writing => WillTrack(calls[Head(queue)].update)

Pending(c) == calls[c].stage \in {"asked", "read", "queued"}
Written(c) == calls[c].stage \in {"written", "done"}
PendingInit(j) == Pending(j) /\ IsInit(calls[j].update)

\* An update that is not written yet does not commute with a later one that is: the
\* store is going to lag behind `intended` for good.
Doomed ==
  \E d, e \in Calls : d < e /\ Pending(d) /\ Written(e) /\ Conflict(calls[d].update, calls[e].update)

\* The updates of n that were called after j and are not written.
PendingOf(n, j) ==
  {d \in Calls : d > j /\ Pending(d) /\ ~IsInit(calls[d].update) /\ calls[d].update.node = n}
UpdateItem == [d \in Calls |-> calls[d].update.item]

\* target is what the waiting updates make of base, in any order that keeps those of
\* the same version in the order of their calls.
Outcome(target, base, waiting, item) ==
  \/ /\ target = base
     /\ \A d \in waiting : base # Absent /\ item[d].version <= base.version
  \/ \E d \in waiting :
       /\ target = item[d]
       /\ base = Absent \/ base.version < item[d].version
       /\ \A e \in waiting : /\ item[e].version <= item[d].version
                             /\ e < d => item[e].version < item[d].version

\* The last init() that is not written will replace whatever the store holds by then, or
\* fail and leave every node lost.
IntendedInv ==
  ~disordered /\ ~Doomed =>
    /\ (\A j \in Calls : ~PendingInit(j)) =>
         \A n \in Node \ lost : Outcome(intended[n], allData[n], PendingOf(n, 0), UpdateItem)
    /\ \A j \in Calls :
         PendingInit(j) /\ (\A k \in Calls : PendingInit(k) => k <= j) =>
           \A n \in Node : Outcome(intended[n], calls[j].update.data.items[n], PendingOf(n, j), UpdateItem)

\* What a call has read does not hide a change, but for the nodes it was misled about.
StillTells(call) == \A x \in HasRead(call) \ call.misled : ~Misleading(call, x, call.old[x])

ReadInv ==
  \A c \in Calls :
    /\ calls[c].stage \in {"asked", "read"} => calls[c].checks
    /\ calls[c].stage = "queued" /\ calls[c].checks /\ IsInit(calls[c].update) =>
         calls[c].kind = "segments"
    /\ Pending(c) /\ calls[c].checks => StillTells(calls[c])

\* What is owed is going to be announced: it relies on a node the update modifies.
WillAnnounce(call) ==
  \A f \in owed :
    /\ call.checks
    /\ \E x \in ModifiedBy(call.update, call.old) : f \in Affected(x, allData, Node \ rejected)

OwedInv ==
  /\ ~Writing => owed = {}
  /\ Writing => WillAnnounce(calls[Head(queue)])

Inv == Types /\ TrackerInv /\ IntendedInv /\ ReadInv /\ OwedInv

-----------------------------------------------------------------------------
(* Records and sequences *)

LEMMA UpdateFacts ==
  ASSUME NEW u \in Updates
  PROVE  /\ u.op \in {"init", "upsert", "delete"}
         /\ IsInit(u) => /\ u.data \in DataSet
                         /\ u.data.items \in [Node -> Item \cup {Absent}]
                         /\ u.data.kinds \subseteq Kinds
         /\ ~IsInit(u) => u.node \in Node /\ u.item \in Item
         /\ u.op = "delete" => u.item = Tombstone(u.item.version)
<1> USE WrapperAssumption DEF IsInit
<1>1. CASE u \in {[op |-> "init", data |-> data] : data \in DataSets}
  BY <1>1 DEF DataSet
<1>2. CASE u \in {[op |-> "upsert", node |-> v.node, item |-> v.item] : v \in Upserts}
  BY <1>2
<1>3. CASE u \in {[op |-> "delete", node |-> d.node, item |-> Tombstone(d.version)] : d \in Deletions}
  <2>1. PICK d \in Deletions : u = [op |-> "delete", node |-> d.node, item |-> Tombstone(d.version)]
    BY <1>3
  <2>2. d.node \in Node /\ Tombstone(d.version) \in Item
    BY <2>1
  <2>3. Tombstone(d.version).version = d.version
    BY DEF Tombstone
  <2> QED
    BY <2>1, <2>2, <2>3
<1> QED
  BY <1>1, <1>2, <1>3 DEF Updates

LEMMA ItemFacts ==
  ASSUME NEW i \in Item
  PROVE  i.version \in Nat /\ i.deps \subseteq Node /\ i # Absent
BY StoreAssumption

LEMMA NodeKinds ==
  ASSUME NEW n \in Node
  PROVE  Kind(n) \in Kinds /\ (Kind(n) = "features") = (n \in Flag)
BY StoreAssumption DEF Node, Kind, Kinds

LEMMA Stages ==
  ASSUME NEW call \in CallRecord
  PROVE  /\ call.stage \in {"none", "asked", "read", "queued", "written", "done"}
         /\ call.stage = "none" => call = NotCalled
         /\ call.stage \in {"asked", "read", "queued", "written"} => call \in WaitingRecord
         /\ call.stage = "done" => call \in DoneRecord
BY DEF CallRecord, NotCalled, WaitingRecord, DoneRecord

Once(s) == \A i, j \in DOMAIN s : s[i] = s[j] => i = j
Holds(s, x) == \E i \in DOMAIN s : s[i] = x

LEMMA AppendOnce ==
  ASSUME NEW S, NEW s \in Seq(S), Once(s), NEW x \in S, ~Holds(s, x)
  PROVE  /\ Append(s, x) \in Seq(S) /\ Append(s, x) # <<>> /\ Once(Append(s, x))
         /\ \A y : Holds(Append(s, x), y) <=> y = x \/ Holds(s, y)
         /\ Head(Append(s, x)) = IF s = <<>> THEN x ELSE Head(s)
<1>1. /\ Append(s, x) \in Seq(S) /\ Append(s, x) # <<>>
      /\ Len(Append(s, x)) = Len(s) + 1
      /\ \A i \in 1..Len(s) : Append(s, x)[i] = s[i]
      /\ Append(s, x)[Len(s) + 1] = x
  BY AppendProperties
<1>2. DOMAIN s = 1..Len(s) /\ DOMAIN Append(s, x) = 1..Len(s) + 1 /\ Len(s) \in Nat
  BY <1>1
<1>3. Once(Append(s, x))
  BY <1>1, <1>2 DEF Once, Holds
<1>4. \A y : Holds(Append(s, x), y) <=> y = x \/ Holds(s, y)
  BY <1>1, <1>2 DEF Holds
<1>5. Head(Append(s, x)) = IF s = <<>> THEN x ELSE Head(s)
  OBVIOUS
<1> QED
  BY <1>1, <1>3, <1>4, <1>5

LEMMA TailOnce ==
  ASSUME NEW S, NEW s \in Seq(S), Once(s), s # <<>>
  PROVE  /\ Tail(s) \in Seq(S) /\ Once(Tail(s)) /\ Head(s) \in S /\ Holds(s, Head(s))
         /\ \A y : Holds(Tail(s), y) <=> y # Head(s) /\ Holds(s, y)
         /\ Tail(s) # <<>> => Holds(Tail(s), Head(Tail(s)))
<1>1. /\ Tail(s) \in Seq(S) /\ Head(s) \in S /\ Len(s) >= 1 /\ Head(s) = s[1]
      /\ Len(Tail(s)) = Len(s) - 1
      /\ \A i \in 1..Len(s) - 1 : Tail(s)[i] = s[i + 1]
  BY HeadTailProperties
<1>2. DOMAIN s = 1..Len(s) /\ DOMAIN Tail(s) = 1..Len(s) - 1 /\ Len(s) \in Nat
  BY <1>1
<1>3. Once(Tail(s))
  BY <1>1, <1>2 DEF Once
<1>4. ASSUME NEW y
      PROVE  Holds(Tail(s), y) <=> y # Head(s) /\ Holds(s, y)
  <2>1. ASSUME Holds(Tail(s), y)
        PROVE  y # Head(s) /\ Holds(s, y)
    BY <1>1, <1>2, <2>1 DEF Holds, Once
  <2>2. ASSUME y # Head(s), NEW i \in DOMAIN s, s[i] = y
        PROVE  Holds(Tail(s), y)
    <3>1. i - 1 \in DOMAIN Tail(s) /\ Tail(s)[i - 1] = y
      BY <1>1, <1>2, <2>2
    <3> QED
      BY <3>1 DEF Holds
  <2> QED
    BY <2>1, <2>2 DEF Holds
<1>5. Holds(s, Head(s))
  BY <1>1, <1>2 DEF Holds
<1>6. ASSUME Tail(s) # <<>>
      PROVE  Holds(Tail(s), Head(Tail(s)))
  BY <1>1, <1>2, <1>6 DEF Holds
<1> QED
  BY <1>1, <1>3, <1>4, <1>5, <1>6

-----------------------------------------------------------------------------
(* What the steps do *)

Plain ==
  /\ StoreTypeOK
  /\ dependenciesFrom \in [Node -> SUBSET Node] /\ dependenciesTo \in [Node -> SUBSET Node]
  /\ storeKind \in StoreKinds /\ listening \in BOOLEAN /\ disordered \in BOOLEAN
  /\ scheduled \in Seq(SUBSET Flag) /\ updates \in 0..MaxUpdates
  /\ rejected \subseteq Node /\ lost \subseteq Node /\ owed \subseteq Flag
  /\ past \subseteq [Node -> Item \cup {Absent}]
  /\ intended \in [Node -> Item \cup {Absent}]
  /\ calls \in [Calls -> CallRecord] /\ queue \in Seq(Calls)

QueueInv ==
  /\ Once(queue)
  /\ \A c \in Calls : calls[c].stage = "none" <=> storeKind = "memory" \/ c > updates
  /\ \A c \in Calls : Holds(queue, c) <=> calls[c].stage \in {"queued", "written"}
  /\ \A c \in Calls : calls[c].stage = "written" => Head(queue) = c

LEMMA TypesParts == Types <=> Plain /\ QueueInv
<1>1. ASSUME Types
      PROVE  Plain /\ QueueInv
  BY <1>1 DEF Types, TypeOK, Plain, QueueInv, Once, Holds, Calls
<1>2. ASSUME Plain, QueueInv
      PROVE  Types
  <2>1. ASSUME NEW c \in 1..MaxUpdates
        PROVE  /\ (calls[c].stage = "none") = (storeKind = "memory" \/ c > updates)
               /\ (\E i \in DOMAIN queue : queue[i] = c) = (calls[c].stage \in {"queued", "written"})
               /\ calls[c].stage = "written" => Head(queue) = c
    <3>1. calls[c].stage = "none" <=> storeKind = "memory" \/ c > updates
      BY <1>2 DEF QueueInv, Calls
    <3>2. (\E i \in DOMAIN queue : queue[i] = c) <=> calls[c].stage \in {"queued", "written"}
      BY <1>2 DEF QueueInv, Calls, Holds
    <3>3. calls[c].stage = "written" => Head(queue) = c
      BY <1>2 DEF QueueInv, Calls
    <3>4. (calls[c].stage = "none") = (storeKind = "memory" \/ c > updates)
      BY <3>1
    <3>5. (\E i \in DOMAIN queue : queue[i] = c) = (calls[c].stage \in {"queued", "written"})
      <4>1. CASE calls[c].stage \in {"queued", "written"}
        BY <3>2, <4>1, Zenon
      <4>2. CASE ~(calls[c].stage \in {"queued", "written"})
        <5>1. (calls[c].stage \in {"queued", "written"}) = FALSE
          BY <4>2
        <5>2. (\E i \in DOMAIN queue : queue[i] = c) = FALSE
          BY <3>2, <4>2
        <5> QED
          BY <5>1, <5>2
      <4> QED
        BY <4>1, <4>2
    <3> QED
      BY <3>3, <3>4, <3>5
  <2>2. \A i, j \in DOMAIN queue : queue[i] = queue[j] => i = j
    BY <1>2 DEF QueueInv, Once
  <2> QED
    BY <1>2, <2>1, <2>2 DEF Types, TypeOK, Plain, Calls
<1> QED
  BY <1>1, <1>2

\* The store takes an update of one node.
Accepted(u) ==
  /\ Accepts(u.node, u.item.version)
  /\ u.op = "delete" /\ storeKind = "memory" => Kind(u.node) \in namespaces

DataChange(u) ==
  IF IsInit(u) THEN allData' = u.data.items /\ namespaces' = u.data.kinds
  ELSE allData' = IF Accepted(u) THEN [allData EXCEPT ![u.node] = u.item] ELSE allData

LEMMA ReplaceEffect ==
  ASSUME NEW u \in Updates, IsInit(u), Replace(u.data)
  PROVE  StoreTypeOK' /\ DataChange(u)
<1>1. u.data.items \in [Node -> Item \cup {Absent}] /\ u.data.kinds \subseteq Kinds
  BY UpdateFacts
<1> QED
  BY <1>1 DEF Replace, StoreTypeOK, DataChange

LEMMA UpsertEffect ==
  ASSUME StoreTypeOK, NEW u \in Updates, ~IsInit(u), StoreUpsert(u.node, u.item),
         u.op = "delete" => storeKind # "memory"
  PROVE  StoreTypeOK' /\ DataChange(u)
<1>1. u.node \in Node /\ u.item \in Item
  BY UpdateFacts
<1>2. Kind(u.node) \in Kinds
  BY <1>1, NodeKinds
<1>3. DataChange(u)
  BY DEF DataChange, StoreUpsert, Accepted
<1> QED
  BY <1>1, <1>2, <1>3 DEF StoreTypeOK, StoreUpsert

LEMMA DeleteEffect ==
  ASSUME StoreTypeOK, NEW u \in Updates, u.op = "delete", storeKind = "memory",
         StoreDelete(u.node, u.item.version)
  PROVE  StoreTypeOK' /\ DataChange(u)
<1>1. u.node \in Node /\ u.item \in Item /\ u.item = Tombstone(u.item.version) /\ ~IsInit(u)
  BY UpdateFacts DEF IsInit
<1>2. DataChange(u)
  BY <1>1 DEF DataChange, StoreDelete, Accepted
<1> QED
  BY <1>1, <1>2 DEF StoreTypeOK, StoreDelete

LEMMA OperateEffect ==
  ASSUME Types, NEW u \in Updates, Operate(u)
  PROVE  StoreTypeOK' /\ DataChange(u)
<1>0. StoreTypeOK /\ storeKind = "memory"
  BY DEF Types, TypeOK, Operate
<1>1. CASE u.op = "init"
  <2>1. Replace(u.data)
    BY <1>1 DEF Operate
  <2> QED
    BY <1>1, <2>1, ReplaceEffect DEF IsInit
<1>2. CASE u.op = "upsert"
  <2>1. StoreUpsert(u.node, u.item)
    BY <1>2 DEF Operate
  <2> QED
    BY <1>0, <1>2, <2>1, UpsertEffect DEF IsInit
<1>3. CASE u.op = "delete"
  <2>1. StoreDelete(u.node, u.item.version)
    BY <1>3 DEF Operate
  <2> QED
    BY <1>0, <1>3, <2>1, DeleteEffect
<1> QED
  BY <1>1, <1>2, <1>3, UpdateFacts

\* What a write does that is not done as asked, and what any write of one node leaves.
Stray(u) ==
  /\ Missed(u)
  /\ \/ allData' = allData
     \/ ~IsInit(u) /\ allData' = [allData EXCEPT ![u.node] = u.item]
OthersAlone(u) ==
  ~IsInit(u) => \A n \in Node : n # u.node => allData'[n] = allData[n]

LEMMA StrayEffect ==
  ASSUME StoreTypeOK, NEW u \in Updates, Refused(u) \/ Overwritten(u)
  PROVE  StoreTypeOK' /\ Stray(u)
<1>1. CASE Refused(u)
  BY <1>1 DEF Refused, storeVars, Stray, StoreTypeOK
<1>2. CASE Overwritten(u)
  <2>1. u.item \in Item
    BY <1>2, UpdateFacts DEF Overwritten
  <2> QED
    BY <1>2, <2>1 DEF Overwritten, Stray, StoreTypeOK
<1> QED
  BY <1>1, <1>2

\* The head of the queue, and its record.
LEMMA HeadFacts ==
  ASSUME Types, queue # <<>>
  PROVE  /\ Head(queue) \in Calls
         /\ calls[Head(queue)] \in WaitingRecord
         /\ calls[Head(queue)].update \in Updates
         /\ calls[Head(queue)].stage \in {"queued", "written"}
         /\ storeKind # "memory"
<1>1. Plain /\ QueueInv
  BY TypesParts
<1>2. Head(queue) \in Calls /\ Holds(queue, Head(queue))
  BY <1>1, TailOnce DEF Plain, QueueInv
<1>3. calls[Head(queue)] \in CallRecord
  BY <1>1, <1>2 DEF Plain
<1>4. calls[Head(queue)].stage \in {"queued", "written"}
  BY <1>1, <1>2 DEF QueueInv
<1>5. calls[Head(queue)] \in WaitingRecord
  BY <1>3, <1>4, Stages
<1>6. storeKind # "memory"
  BY <1>1, <1>2, <1>4 DEF QueueInv
<1> QED
  BY <1>2, <1>4, <1>5, <1>6 DEF WaitingRecord

LEMMA StoreWritesEffect ==
  ASSUME Types, StoreWrites
  PROVE  /\ StoreTypeOK' /\ lost' \subseteq Node /\ past' \subseteq [Node -> Item \cup {Absent}]
         /\ LET c == Head(queue)
                u == calls[c].update
            IN  /\ Rejecting(u) /\ OthersAlone(u)
                /\ \/ /\ DataChange(u)
                      /\ lost' = IF IsInit(u) THEN {} ELSE lost
                      /\ owed' = IF calls[c].checks THEN owed \cup Owing(Node \ calls[c].misled)
                                 ELSE owed
                   \/ Stray(u) /\ owed' = owed
<1>1. PICK call : call = calls[Head(queue)]
  OBVIOUS
<1>2. PICK u : u = call.update
  OBVIOUS
<1>3. /\ queue # <<>> /\ past' = past \cup {allData'} /\ Rejecting(u)
      /\ \/ /\ Performed(u)
            /\ owed' = IF call.checks THEN owed \cup Owing(Node \ call.misled) ELSE owed
         \/ (Refused(u) \/ Overwritten(u)) /\ owed' = owed
  BY <1>1, <1>2 DEF StoreWrites
<1>4. u \in Updates /\ storeKind # "memory" /\ Plain
  BY <1>1, <1>2, <1>3, HeadFacts, TypesParts
<1>5. ~IsInit(u) => u.node \in Node
  BY <1>4, UpdateFacts
<1>6. ASSUME Performed(u)
      PROVE  StoreTypeOK' /\ OthersAlone(u) /\ lost' \subseteq Node
  <2>1. StoreTypeOK' /\ DataChange(u) /\ lost' = IF IsInit(u) THEN {} ELSE lost
    BY <1>4, <1>6, ReplaceEffect, UpsertEffect DEF Performed, Plain
  <2>2. OthersAlone(u)
    BY <1>4, <2>1 DEF DataChange, OthersAlone, Plain, StoreTypeOK
  <2>3. lost' \subseteq Node
    BY <1>4, <2>1 DEF Plain
  <2> QED
    BY <2>1, <2>2, <2>3
<1>7. ASSUME Refused(u) \/ Overwritten(u)
      PROVE  StoreTypeOK' /\ OthersAlone(u) /\ lost' \subseteq Node
  <2>1. StoreTypeOK' /\ Stray(u)
    BY <1>4, <1>7, StrayEffect DEF Plain
  <2>2. OthersAlone(u)
    BY <1>4, <2>1 DEF Stray, OthersAlone, Plain, StoreTypeOK
  <2>3. lost' \subseteq Node
    BY <1>4, <1>5, <2>1 DEF Stray, Missed, Plain
  <2> QED
    BY <2>1, <2>2, <2>3
<1>8. StoreTypeOK' /\ OthersAlone(u) /\ lost' \subseteq Node
  BY <1>3, <1>6, <1>7
<1>9. past' \subseteq [Node -> Item \cup {Absent}]
  BY <1>3, <1>4, <1>8 DEF Plain, StoreTypeOK
<1>10. \/ /\ DataChange(u) /\ lost' = IF IsInit(u) THEN {} ELSE lost
          /\ owed' = IF call.checks THEN owed \cup Owing(Node \ call.misled) ELSE owed
       \/ Stray(u) /\ owed' = owed
  BY <1>3, <1>4, ReplaceEffect, UpsertEffect, StrayEffect DEF Performed, Plain
<1> QED
  BY <1>1, <1>2, <1>3, <1>8, <1>9, <1>10

\* One call becomes r.
LEMMA OneCall ==
  ASSUME calls \in [Calls -> CallRecord], NEW c \in Calls, NEW r \in CallRecord,
         calls' = [calls EXCEPT ![c] = r]
  PROVE  /\ calls' \in [Calls -> CallRecord]
         /\ calls'[c] = r
         /\ \A d \in Calls : d # c => calls'[d] = calls[d]
BY DEF CallRecord

LEMMA CallEffect ==
  ASSUME Types, NEW u \in Updates, Call(u)
  PROVE  /\ updates + 1 \in Calls /\ calls[updates + 1].stage = "none"
         /\ \E r \in WaitingRecord :
              /\ calls' = [calls EXCEPT ![updates + 1] = r]
              /\ r.update = u /\ r.checks = listening
              /\ r.stage = IF listening THEN "asked" ELSE "queued"
              /\ r.kind = IF IsInit(u) THEN "features" ELSE Kind(u.node)
<1> DEFINE r == [update |-> u, checks |-> listening, stage |-> IF listening THEN "asked" ELSE "queued",
                 kind |-> IF IsInit(u) THEN "features" ELSE Kind(u.node), old |-> Nothing, misled |-> {}]
<1>1. Plain /\ QueueInv
  BY TypesParts
<1>2. updates + 1 \in Calls /\ MaxUpdates \in Nat
  BY <1>1, WrapperAssumption DEF Plain, Calls, Call
<1>3. calls[updates + 1].stage = "none"
  BY <1>1, <1>2 DEF QueueInv, Plain
<1>4. calls' = [calls EXCEPT ![updates + 1] = r]
  BY DEF Call
<1>5. (IF IsInit(u) THEN "features" ELSE Kind(u.node)) \in Kinds
  BY UpdateFacts, NodeKinds DEF Kinds
<1>6. Nothing \in [Node -> Item \cup {Absent}] /\ listening \in BOOLEAN
  BY <1>1 DEF Nothing, Plain
<1>7. r \in WaitingRecord
  BY <1>5, <1>6 DEF WaitingRecord
<1>8. /\ r.update = u /\ r.checks = listening
      /\ r.stage = IF listening THEN "asked" ELSE "queued"
      /\ r.kind = IF IsInit(u) THEN "features" ELSE Kind(u.node)
  OBVIOUS
<1> HIDE DEF r
<1> QED
  BY <1>2, <1>3, <1>4, <1>7, <1>8

LEMMA AnswersTyped ==
  ASSUME Types, NEW u, NEW answer \in Answers(u)
  PROVE  answer \in [Node -> Item \cup {Absent}]
<1>0. Plain
  BY TypesParts
<1>1. Given \subseteq [Node -> Item \cup {Absent}]
  <2> SUFFICES ASSUME NEW d \in Calls, calls[d].stage = "done", IsInit(calls[d].update)
               PROVE  calls[d].update.data.items \in [Node -> Item \cup {Absent}]
    BY DEF Given, Calls
  <2>1. calls[d].update \in Updates
    BY <1>0, Stages DEF Plain, DoneRecord
  <2> QED
    BY <2>1, UpdateFacts
<1>2. ASSUME NEW data \in past \cup Given
      PROVE  Shown(data) \in [Node -> Item \cup {Absent}]
  BY <1>0, <1>1 DEF Shown, Plain
<1> QED
  BY <1>1, <1>2 DEF Answers

LEMMA ReadEffect ==
  ASSUME Types, NEW c \in Calls, StoreReads(c)
  PROVE  /\ calls[c] \in WaitingRecord /\ calls[c].stage = "asked"
         /\ \E r \in WaitingRecord :
              /\ calls' = [calls EXCEPT ![c] = r]
              /\ r.update = calls[c].update /\ r.checks = calls[c].checks
              /\ r.stage = "read" /\ r.kind = calls[c].kind
              /\ calls[c].misled \subseteq r.misled
              /\ \A n \in Node : n \notin Read(calls[c]) => r.old[n] = calls[c].old[n]
              /\ \A n \in Read(calls[c]) \ r.misled : ~Misleading(calls[c], n, r.old[n])
<1>1. Plain /\ QueueInv
  BY TypesParts
<1>2. calls[c] \in CallRecord /\ calls[c].stage = "asked"
  BY <1>1 DEF Plain, StoreReads
<1>3. calls[c] \in WaitingRecord
  BY <1>2, Stages
<1>4. Read(calls[c]) \subseteq Node
  BY <1>3, UpdateFacts DEF Read, WaitingRecord
<1>5. PICK answer \in Answers(calls[c].update) :
        calls' = [calls EXCEPT ![c].stage = "read",
          ![c].old = [n \in Node |-> IF n \in Read(calls[c]) THEN answer[n] ELSE @[n]],
          ![c].misled = @ \cup {n \in Read(calls[c]) : Misleading(calls[c], n, answer[n])}]
  BY DEF StoreReads
<1>6. answer \in [Node -> Item \cup {Absent}]
  BY AnswersTyped
<1>7. PICK o : o = [n \in Node |-> IF n \in Read(calls[c]) THEN answer[n] ELSE calls[c].old[n]]
  OBVIOUS
<1>8. PICK m : m = calls[c].misled \cup {n \in Read(calls[c]) : Misleading(calls[c], n, answer[n])}
  OBVIOUS
<1> DEFINE r == [calls[c] EXCEPT !.stage = "read", !.old = o, !.misled = m]
<1>9. calls' = [calls EXCEPT ![c] = r]
  BY <1>1, <1>3, <1>5, <1>7, <1>8 DEF Plain, WaitingRecord
<1>10. o \in [Node -> Item \cup {Absent}] /\ m \subseteq Node
  BY <1>3, <1>4, <1>6, <1>7, <1>8 DEF WaitingRecord
<1>11. /\ r \in WaitingRecord
       /\ r.update = calls[c].update /\ r.checks = calls[c].checks
       /\ r.stage = "read" /\ r.kind = calls[c].kind /\ r.old = o /\ r.misled = m
  BY <1>3, <1>10 DEF WaitingRecord
<1> HIDE DEF r
<1>12. /\ \A n \in Node : n \notin Read(calls[c]) => o[n] = calls[c].old[n]
       /\ \A n \in Read(calls[c]) \ m : ~Misleading(calls[c], n, o[n])
  <2>1. \A n \in Read(calls[c]) : o[n] = answer[n]
    BY <1>4, <1>7
  <2>2. \A n \in Read(calls[c]) \ m : ~Misleading(calls[c], n, answer[n])
    BY <1>8
  <2> QED
    BY <1>7, <2>1, <2>2
<1> QED
  BY <1>2, <1>3, <1>8, <1>9, <1>11, <1>12

ReadsAgain(call) == IsInit(call.update) /\ call.kind = "features"

LEMMA ReadCallbackEffect ==
  ASSUME Types, NEW c \in Calls, ReadCallback(c)
  PROVE  /\ calls[c] \in WaitingRecord /\ calls[c].stage = "read"
         /\ queue' = IF ReadsAgain(calls[c]) THEN queue ELSE Append(queue, c)
         /\ \E r \in WaitingRecord :
              /\ calls' = [calls EXCEPT ![c] = r]
              /\ r.update = calls[c].update /\ r.checks = calls[c].checks
              /\ r.stage = IF ReadsAgain(calls[c]) THEN "asked" ELSE "queued"
              /\ r.kind = IF ReadsAgain(calls[c]) THEN "segments" ELSE calls[c].kind
              /\ r.misled = calls[c].misled /\ r.old = calls[c].old
<1> DEFINE r == IF ReadsAgain(calls[c]) THEN [calls[c] EXCEPT !.stage = "asked", !.kind = "segments"]
                ELSE [calls[c] EXCEPT !.stage = "queued"]
<1>1. Plain /\ QueueInv
  BY TypesParts
<1>2. calls[c] \in CallRecord /\ calls[c].stage = "read"
  BY <1>1 DEF Plain, ReadCallback
<1>3. calls[c] \in WaitingRecord
  BY <1>2, Stages
<1>4. calls' = [calls EXCEPT ![c] = r]
  <2>1. CASE ReadsAgain(calls[c])
    BY <1>1, <1>3, <2>1 DEF ReadCallback, ReadsAgain, Plain, WaitingRecord
  <2>2. CASE ~ReadsAgain(calls[c])
    BY <1>1, <1>3, <2>2 DEF ReadCallback, ReadsAgain, Plain, WaitingRecord
  <2> QED
    BY <2>1, <2>2
<1>5. /\ r \in WaitingRecord
      /\ r.update = calls[c].update /\ r.checks = calls[c].checks
      /\ r.stage = IF ReadsAgain(calls[c]) THEN "asked" ELSE "queued"
      /\ r.kind = IF ReadsAgain(calls[c]) THEN "segments" ELSE calls[c].kind
      /\ r.misled = calls[c].misled /\ r.old = calls[c].old
  BY <1>3 DEF WaitingRecord, Kinds
<1>6. queue' = IF ReadsAgain(calls[c]) THEN queue ELSE Append(queue, c)
  BY DEF ReadCallback, ReadsAgain
<1> HIDE DEF r
<1> QED
  BY <1>2, <1>3, <1>4, <1>5, <1>6

\* What a write does to the calls that have read something.
OvertakenAs(call, new) ==
  /\ new.update = call.update /\ new.checks = call.checks /\ new.stage = call.stage
  /\ new.kind = call.kind /\ new.old = call.old
  /\ new.misled = call.misled \cup Overtaken(call)

LEMMA WriteEffect ==
  ASSUME Types, StoreWrites
  PROVE  /\ queue # <<>> /\ calls[Head(queue)].stage = "queued"
         /\ calls' \in [Calls -> CallRecord]
         /\ calls'[Head(queue)] = [calls[Head(queue)] EXCEPT !.stage = "written"]
         /\ \A d \in Calls :
              d # Head(queue) => \/ calls'[d] = calls[d] /\ HasRead(calls[d]) = {}
                                 \/ /\ calls[d] \in WaitingRecord /\ calls'[d] \in WaitingRecord
                                    /\ OvertakenAs(calls[d], calls'[d])
<1> DEFINE c == Head(queue)
<1>1. Plain /\ QueueInv
  BY TypesParts
<1>2. /\ queue # <<>> /\ calls[c].stage = "queued"
      /\ calls' = [d \in DOMAIN calls |->
           IF d = c THEN [calls[d] EXCEPT !.stage = "written"]
           ELSE IF HasRead(calls[d]) = {} THEN calls[d]
           ELSE [calls[d] EXCEPT !.misled = @ \cup Overtaken(calls[d])]]
  BY DEF StoreWrites
<1>3. c \in Calls /\ calls[c] \in WaitingRecord
  BY <1>2, HeadFacts
<1> HIDE DEF c
<1>4. DOMAIN calls = Calls
  BY <1>1 DEF Plain
<1>5. calls'[c] = [calls[c] EXCEPT !.stage = "written"]
  BY <1>2, <1>3, <1>4
<1>6. calls'[c] \in WaitingRecord
  BY <1>3, <1>5 DEF WaitingRecord
<1>7. ASSUME NEW d \in Calls, d # c
      PROVE  \/ calls'[d] = calls[d] /\ HasRead(calls[d]) = {}
             \/ /\ calls[d] \in WaitingRecord /\ calls'[d] \in WaitingRecord
                /\ OvertakenAs(calls[d], calls'[d])
  <2>1. CASE HasRead(calls[d]) = {}
    BY <1>2, <1>4, <1>7, <2>1
  <2>2. CASE HasRead(calls[d]) # {}
    <3>1. calls'[d] = [calls[d] EXCEPT !.misled = calls[d].misled \cup Overtaken(calls[d])]
      BY <1>2, <1>4, <1>7, <2>2
    <3>2. calls[d] \in CallRecord
      BY <1>1 DEF Plain
    <3>3. calls[d].stage \notin {"none", "done"}
      BY <2>2 DEF HasRead
    <3>4. calls[d] \in WaitingRecord
      BY <3>2, <3>3, Stages
    <3>5. Read(calls[d]) \subseteq Node
      BY <3>4, UpdateFacts DEF Read, WaitingRecord
    <3>6. HasRead(calls[d]) \subseteq Node
      BY <3>4, <3>5 DEF HasRead, WaitingRecord, Node
    <3>7. Overtaken(calls[d]) \subseteq Node
      BY <3>6 DEF Overtaken
    <3>8. calls'[d] \in WaitingRecord /\ OvertakenAs(calls[d], calls'[d])
      BY <3>1, <3>4, <3>7 DEF WaitingRecord, OvertakenAs
    <3> QED
      BY <3>4, <3>8
  <2> QED
    BY <2>1, <2>2
<1>8. calls' \in [Calls -> CallRecord]
  <2>1. DOMAIN calls' = Calls /\ calls' = [d \in Calls |-> calls'[d]]
    BY <1>2, <1>4
  <2>2. \A d \in Calls : calls'[d] \in CallRecord
    BY <1>1, <1>6, <1>7 DEF CallRecord, Plain
  <2> QED
    BY <2>1, <2>2
<1> QED
  BY <1>2, <1>5, <1>7, <1>8 DEF c

LEMMA WriteCallbackEffect ==
  ASSUME Types, WriteCallback
  PROVE  /\ queue # <<>> /\ calls[Head(queue)].stage = "written"
         /\ \E r \in DoneRecord :
              /\ calls' = [calls EXCEPT ![Head(queue)] = r]
              /\ r.update = calls[Head(queue)].update
<1> DEFINE r == [stage |-> "done", update |-> calls[Head(queue)].update]
<1>1. queue # <<>> /\ calls[Head(queue)].stage = "written"
  BY DEF WriteCallback
<1>2. Head(queue) \in Calls /\ calls[Head(queue)].update \in Updates
  BY <1>1, HeadFacts
<1>3. calls' = [calls EXCEPT ![Head(queue)] = r]
  BY <1>2 DEF WriteCallback
<1>4. r \in DoneRecord /\ r.update = calls[Head(queue)].update
  BY <1>2 DEF DoneRecord
<1> HIDE DEF r
<1> QED
  BY <1>1, <1>3, <1>4

-----------------------------------------------------------------------------
(* Types *)

LEMMA DepsOfType ==
  ASSUME NEW i \in Item \cup {Absent}
  PROVE  DepsOf(i) \subseteq Node
BY ItemFacts DEF DepsOf

LEMMA FollowTypes ==
  ASSUME Types, NEW u \in Updates, NEW checks, NEW old, Follow(u, checks, old)
  PROVE  /\ dependenciesFrom' \in [Node -> SUBSET Node]
         /\ dependenciesTo' \in [Node -> SUBSET Node]
         /\ scheduled' \in Seq(SUBSET Flag)
<1>0. Plain
  BY TypesParts
<1>1. CASE IsInit(u)
  <2>1. u.data.items \in [Node -> Item \cup {Absent}]
    BY <1>1, UpdateFacts
  <2>2. \A n \in Node : DepsOf(u.data.items[n]) \subseteq Node
    BY <2>1, DepsOfType
  <2> QED
    BY <1>0, <1>1, <2>2 DEF Follow, RebuildTracker, SendChangeEvents, Plain
<1>2. CASE ~IsInit(u)
  <2>1. u.node \in Node /\ u.item.deps \subseteq Node
    BY <1>2, UpdateFacts, ItemFacts
  <2>2. UpdateDependenciesFrom(u.node, u.item.deps)
    BY <1>2 DEF Follow
  <2>3. dependenciesFrom' \in [Node -> SUBSET Node]
    BY <1>0, <2>1, <2>2 DEF UpdateDependenciesFrom, Plain
  <2>4. dependenciesTo' \in [Node -> SUBSET Node]
    BY <1>0, <2>1, <2>2 DEF UpdateDependenciesFrom, Relink, Plain
  <2>5. scheduled' \in Seq(SUBSET Flag)
    BY <1>0 DEF Follow, SendChangeEvents, Plain
  <2> QED
    BY <2>3, <2>4, <2>5
<1> QED
  BY <1>1, <1>2

LEMMA HistoryTypes ==
  ASSUME Types, NEW u \in Updates
  PROVE  /\ Rejecting(u) => rejected' \subseteq Node
         /\ Intend(u) => intended' \in [Node -> Item \cup {Absent}]
         /\ \A nodes : Owing(nodes) \subseteq Flag
<1>0. Plain
  BY TypesParts
<1>1. ASSUME Rejecting(u)
      PROVE  rejected' \subseteq Node
  BY <1>0, <1>1, UpdateFacts DEF Rejecting, Plain
<1>2. ASSUME Intend(u)
      PROVE  intended' \in [Node -> Item \cup {Absent}]
  BY <1>0, <1>2, UpdateFacts DEF Intend, Plain
<1>3. ASSUME NEW nodes
      PROVE  Owing(nodes) \subseteq Flag
  BY DEF Owing, Affected
<1> QED
  BY <1>1, <1>2, <1>3

LEMMA InitTypes == Init => Types
<1> SUFFICES ASSUME Init PROVE Plain /\ QueueInv
  BY TypesParts
<1>1. Plain
  <2>1. StoreTypeOK
    BY DEF Init, StoreInit, StoreTypeOK
  <2>2. calls \in [Calls -> CallRecord] /\ queue \in Seq(Calls)
    BY DEF Init, CallRecord, Calls
  <2>3. /\ dependenciesFrom \in [Node -> SUBSET Node] /\ dependenciesTo \in [Node -> SUBSET Node]
        /\ intended \in [Node -> Item \cup {Absent}]
    BY DEF Init, NoDependencies, Nothing
  <2>4. listening \in BOOLEAN /\ disordered \in BOOLEAN
    BY DEF Init
  <2>5. /\ storeKind \in StoreKinds /\ updates \in 0..MaxUpdates
        /\ rejected \subseteq Node /\ lost \subseteq Node /\ owed \subseteq Flag
    BY WrapperAssumption DEF Init
  <2>7. past \subseteq [Node -> Item \cup {Absent}]
    BY DEF Init, Nothing
  <2>6. scheduled \in Seq(SUBSET Flag)
    BY DEF Init
  <2> QED
    BY <2>1, <2>2, <2>3, <2>4, <2>5, <2>6, <2>7 DEF Plain
<1>2. calls = [c \in Calls |-> NotCalled] /\ queue = <<>> /\ updates = 0
  BY DEF Init, Calls
<1>3. \A c \in Calls : c > 0 /\ calls[c].stage = "none"
  BY <1>2, WrapperAssumption DEF Calls, NotCalled
<1>4. Once(queue) /\ \A c \in Calls : ~Holds(queue, c)
  BY <1>2 DEF Once, Holds
<1>5. QueueInv
  BY <1>2, <1>3, <1>4 DEF QueueInv
<1> QED
  BY <1>1, <1>5

LEMMA OperateTypes ==
  ASSUME Types, NEW u \in Updates, Operate(u)
  PROVE  Types'
<1>0. Plain /\ QueueInv
  BY TypesParts
<1>1. Follow(u, listening, Old) /\ Rejecting(u) /\ Intend(u)
  BY DEF Operate
<1>2. StoreTypeOK'
  BY OperateEffect
<1>3. /\ dependenciesFrom' \in [Node -> SUBSET Node] /\ dependenciesTo' \in [Node -> SUBSET Node]
      /\ scheduled' \in Seq(SUBSET Flag)
  BY <1>1, FollowTypes
<1>4. rejected' \subseteq Node /\ intended' \in [Node -> Item \cup {Absent}]
  BY <1>1, HistoryTypes
<1>5. owed' \subseteq Flag
  BY <1>0, HistoryTypes DEF Operate, Plain
<1>6. disordered' \in BOOLEAN
  BY <1>0, Zenon DEF Operate, Plain
<1>7. /\ updates' \in 0..MaxUpdates /\ storeKind' = storeKind /\ listening' = listening
      /\ calls' = calls /\ queue' = queue /\ storeKind = "memory"
      /\ past' = past /\ lost' = lost
  BY <1>0, WrapperAssumption DEF Operate, Plain, callVars
<1>8. Plain'
  BY <1>0, <1>2, <1>3, <1>4, <1>5, <1>6, <1>7 DEF Plain
<1>9. QueueInv'
  BY <1>0, <1>7 DEF QueueInv, Once, Holds
<1> QED
  BY <1>8, <1>9, TypesParts, PTL

LEMMA CallTypes ==
  ASSUME Types, NEW u \in Updates, Call(u)
  PROVE  Types'
<1>0. Plain /\ QueueInv
  BY TypesParts
<1>1. PICK r \in WaitingRecord :
        /\ calls' = [calls EXCEPT ![updates + 1] = r]
        /\ r.stage = IF listening THEN "asked" ELSE "queued"
  BY CallEffect
<1> DEFINE c == updates + 1
<1>2. c \in Calls /\ calls[c].stage = "none" /\ r \in CallRecord
  BY CallEffect DEF CallRecord
<1>3. /\ calls' \in [Calls -> CallRecord] /\ calls'[c] = r
      /\ \A d \in Calls : d # c => calls'[d] = calls[d]
  BY <1>0, <1>1, <1>2, OneCall DEF Plain
<1>4. ~Holds(queue, c)
  BY <1>0, <1>2 DEF QueueInv
<1>5. queue' = IF listening THEN queue ELSE Append(queue, c)
  BY DEF Call
<1>6. /\ Append(queue, c) \in Seq(Calls) /\ Once(Append(queue, c))
      /\ \A y : Holds(Append(queue, c), y) <=> y = c \/ Holds(queue, y)
      /\ Head(Append(queue, c)) = IF queue = <<>> THEN c ELSE Head(queue)
  BY <1>0, <1>2, <1>4, AppendOnce DEF Plain, QueueInv
<1>7. /\ storeVars' = storeVars /\ trackerVars' = trackerVars /\ scheduled' = scheduled
      /\ listening' = listening /\ storeKind' = storeKind /\ rejected' = rejected
      /\ owed' = owed /\ disordered' = disordered /\ storeKind = "persistent"
      /\ past' = past /\ lost' = lost
      /\ updates' = c /\ updates < MaxUpdates
  BY DEF Call
<1>8. intended' \in [Node -> Item \cup {Absent}]
  BY HistoryTypes DEF Call
<1>9. updates \in Nat /\ updates' \in 0..MaxUpdates
  BY <1>0, <1>7, WrapperAssumption DEF Plain
<1>10. Plain'
  BY <1>0, <1>3, <1>5, <1>6, <1>7, <1>8, <1>9 DEF Plain, StoreTypeOK, storeVars, trackerVars
<1>11. Once(queue)'
  BY <1>0, <1>5, <1>6 DEF QueueInv, Once
<1>12. ASSUME NEW d \in Calls
       PROVE  /\ calls'[d].stage = "none" <=> storeKind' = "memory" \/ d > updates'
              /\ Holds(queue', d) <=> calls'[d].stage \in {"queued", "written"}
              /\ calls'[d].stage = "written" => Head(queue') = d
  <2>1. CASE d = c
    <3>1. d = updates' /\ d \in Nat /\ calls'[d].stage = IF listening THEN "asked" ELSE "queued"
      BY <1>1, <1>3, <1>7, <1>9, <2>1
    <3>2. Holds(queue', d) <=> ~listening
      BY <1>4, <1>5, <1>6, <2>1
    <3> QED
      BY <1>7, <3>1, <3>2
  <2>2. CASE d # c
    <3>1. calls'[d] = calls[d] /\ d \in Nat /\ (d > updates <=> d > updates')
      BY <1>3, <1>7, <1>9, <2>2 DEF Calls
    <3>2. Holds(queue', d) <=> Holds(queue, d)
      BY <1>5, <1>6, <2>2
    <3>3. calls[d].stage = "written" => queue # <<>>
      BY <1>0 DEF QueueInv, Holds
    <3>4. calls[d].stage = "written" => Head(queue') = d
      BY <1>0, <1>5, <1>6, <3>3 DEF QueueInv
    <3> QED
      BY <1>0, <1>7, <3>1, <3>2, <3>4 DEF QueueInv
  <2> QED
    BY <2>1, <2>2
<1>13. QueueInv'
  BY <1>11, <1>12 DEF QueueInv, Once, Holds
<1> QED
  BY <1>10, <1>13, TypesParts, PTL

LEMMA StoreReadsTypes ==
  ASSUME Types, NEW c \in Calls, StoreReads(c)
  PROVE  Types'
<1>0. Plain /\ QueueInv
  BY TypesParts
<1>1. PICK r \in WaitingRecord : calls' = [calls EXCEPT ![c] = r] /\ r.stage = "read"
  BY ReadEffect
<1>2. calls[c].stage = "asked" /\ r \in CallRecord
  BY ReadEffect DEF CallRecord
<1>3. /\ calls' \in [Calls -> CallRecord] /\ calls'[c] = r
      /\ \A d \in Calls : d # c => calls'[d] = calls[d]
  BY <1>0, <1>1, <1>2, OneCall DEF Plain
<1>4. /\ storeVars' = storeVars /\ trackerVars' = trackerVars /\ scheduled' = scheduled
      /\ listening' = listening /\ storeKind' = storeKind /\ historyVars' = historyVars
      /\ updates' = updates /\ queue' = queue /\ past' = past
  BY DEF StoreReads
<1>5. Plain'
  BY <1>0, <1>3, <1>4 DEF Plain, StoreTypeOK, storeVars, trackerVars, historyVars
<1>6. QueueInv'
  BY <1>0, <1>1, <1>2, <1>3, <1>4 DEF QueueInv, Once, Holds
<1> QED
  BY <1>5, <1>6, TypesParts, PTL

LEMMA ReadCallbackTypes ==
  ASSUME Types, NEW c \in Calls, ReadCallback(c)
  PROVE  Types'
<1>0. Plain /\ QueueInv
  BY TypesParts
<1>1. PICK r \in WaitingRecord :
        /\ calls' = [calls EXCEPT ![c] = r]
        /\ r.stage = IF ReadsAgain(calls[c]) THEN "asked" ELSE "queued"
  BY ReadCallbackEffect
<1>2. /\ calls[c].stage = "read" /\ r \in CallRecord
      /\ queue' = IF ReadsAgain(calls[c]) THEN queue ELSE Append(queue, c)
  BY ReadCallbackEffect DEF CallRecord
<1>3. /\ calls' \in [Calls -> CallRecord] /\ calls'[c] = r
      /\ \A d \in Calls : d # c => calls'[d] = calls[d]
  BY <1>0, <1>1, <1>2, OneCall DEF Plain
<1>4. ~Holds(queue, c)
  BY <1>0, <1>2 DEF QueueInv
<1>5. /\ Append(queue, c) \in Seq(Calls) /\ Once(Append(queue, c))
      /\ \A y : Holds(Append(queue, c), y) <=> y = c \/ Holds(queue, y)
      /\ Head(Append(queue, c)) = IF queue = <<>> THEN c ELSE Head(queue)
  BY <1>0, <1>4, AppendOnce DEF Plain, QueueInv
<1>6. /\ storeVars' = storeVars /\ trackerVars' = trackerVars /\ scheduled' = scheduled
      /\ listening' = listening /\ storeKind' = storeKind /\ historyVars' = historyVars
      /\ updates' = updates /\ past' = past
  BY DEF ReadCallback
<1>7. Plain'
  BY <1>0, <1>2, <1>3, <1>5, <1>6 DEF Plain, StoreTypeOK, storeVars, trackerVars, historyVars
<1>8. Once(queue)'
  BY <1>0, <1>2, <1>5 DEF QueueInv, Once
<1>9. ASSUME NEW d \in Calls
      PROVE  /\ calls'[d].stage = "none" <=> storeKind' = "memory" \/ d > updates'
             /\ Holds(queue', d) <=> calls'[d].stage \in {"queued", "written"}
             /\ calls'[d].stage = "written" => Head(queue') = d
  <2>1. CASE d = c
    <3>1. calls'[d].stage = IF ReadsAgain(calls[c]) THEN "asked" ELSE "queued"
      BY <1>1, <1>3, <2>1
    <3>2. Holds(queue', d) <=> ~ReadsAgain(calls[c])
      BY <1>2, <1>4, <1>5, <2>1
    <3> QED
      BY <1>0, <1>2, <1>6, <2>1, <3>1, <3>2 DEF QueueInv
  <2>2. CASE d # c
    <3>1. calls'[d] = calls[d]
      BY <1>3, <2>2
    <3>2. Holds(queue', d) <=> Holds(queue, d)
      BY <1>2, <1>5, <2>2
    <3>3. calls[d].stage = "written" => queue # <<>>
      BY <1>0 DEF QueueInv, Holds
    <3>4. calls[d].stage = "written" => Head(queue') = d
      BY <1>0, <1>2, <1>5, <3>3 DEF QueueInv
    <3> QED
      BY <1>0, <1>6, <3>1, <3>2, <3>4 DEF QueueInv
  <2> QED
    BY <2>1, <2>2
<1>10. QueueInv'
  BY <1>8, <1>9 DEF QueueInv, Once, Holds
<1> QED
  BY <1>7, <1>10, TypesParts, PTL

LEMMA StoreWritesTypes ==
  ASSUME Types, StoreWrites
  PROVE  Types'
<1> DEFINE c == Head(queue)
           u == calls[c].update
<1>0. Plain /\ QueueInv
  BY TypesParts
<1>1. /\ queue # <<>> /\ calls[c].stage = "queued"
      /\ calls' \in [Calls -> CallRecord]
      /\ calls'[c] = [calls[c] EXCEPT !.stage = "written"]
      /\ \A d \in Calls : d # c => calls'[d].stage = calls[d].stage
  BY WriteEffect DEF OvertakenAs
<1>2. c \in Calls /\ calls[c] \in WaitingRecord /\ u \in Updates
  BY <1>1, HeadFacts
<1>3. calls'[c].stage = "written"
  BY <1>1, <1>2 DEF WaitingRecord
<1>4. StoreTypeOK' /\ lost' \subseteq Node /\ past' \subseteq [Node -> Item \cup {Absent}]
  BY StoreWritesEffect
<1>5. /\ trackerVars' = trackerVars /\ scheduled' = scheduled /\ updates' = updates
      /\ listening' = listening /\ storeKind' = storeKind /\ queue' = queue
      /\ intended' = intended
  BY DEF StoreWrites
<1>6. rejected' \subseteq Node
  <2>1. Rejecting(u)
    BY StoreWritesEffect
  <2> HIDE DEF u
  <2> QED
    BY <1>2, <2>1, HistoryTypes
<1>7. owed' \subseteq Flag
  <2>1. owed \subseteq Flag /\ Owing(Node \ calls[c].misled) \subseteq Flag
    BY <1>0, <1>2, HistoryTypes DEF Plain
  <2>2. owed' = owed \/ owed' = owed \cup Owing(Node \ calls[c].misled)
    BY StoreWritesEffect
  <2> QED
    BY <2>1, <2>2
<1>8. disordered' \in BOOLEAN
  BY <1>0, Zenon DEF StoreWrites, Plain
<1> HIDE DEF c, u
<1>9. Plain'
  BY <1>0, <1>1, <1>4, <1>5, <1>6, <1>7, <1>8 DEF Plain, trackerVars
<1>10. c = Head(queue)
  BY DEF c
<1>11. \A d \in Calls : Holds(queue, d) => calls'[d].stage \in {"queued", "written"}
  BY <1>0, <1>1, <1>3 DEF QueueInv
<1>12. \A d \in Calls : calls'[d].stage \in {"queued", "written"} => Holds(queue, d)
  BY <1>0, <1>1, <1>3 DEF QueueInv
<1>13. \A d \in Calls : calls'[d].stage = "none" <=> storeKind' = "memory" \/ d > updates'
  BY <1>0, <1>1, <1>3, <1>5, ZenonT(30) DEF QueueInv
<1>14. \A d \in Calls : calls'[d].stage = "written" => Head(queue') = d
  BY <1>0, <1>1, <1>3, <1>5, <1>10 DEF QueueInv
<1>15. Once(queue)' /\ \A d \in Calls : Holds(queue', d) <=> Holds(queue, d)
  BY <1>0, <1>5 DEF QueueInv, Once, Holds
<1>16. QueueInv'
  BY <1>11, <1>12, <1>13, <1>14, <1>15 DEF QueueInv, Once, Holds
<1> QED
  BY <1>9, <1>16, TypesParts, PTL

LEMMA WriteCallbackTypes ==
  ASSUME Types, WriteCallback
  PROVE  Types'
<1> DEFINE c == Head(queue)
<1>0. Plain /\ QueueInv
  BY TypesParts
<1>1. queue # <<>> /\ calls[c].stage = "written"
  BY WriteCallbackEffect
<1>2. PICK r \in DoneRecord : calls' = [calls EXCEPT ![c] = r]
  BY WriteCallbackEffect
<1>3. c \in Calls /\ calls[c] \in WaitingRecord /\ calls[c].update \in Updates /\ r \in CallRecord
  BY <1>1, HeadFacts DEF CallRecord
<1>4. /\ calls' \in [Calls -> CallRecord] /\ calls'[c] = r /\ r.stage = "done"
      /\ \A d \in Calls : d # c => calls'[d] = calls[d]
  BY <1>0, <1>2, <1>3, OneCall DEF Plain, DoneRecord
<1>5. /\ Follow(calls[c].update, calls[c].checks, calls[c].old) /\ queue' = Tail(queue)
      /\ owed' \subseteq owed
      /\ storeVars' = storeVars /\ updates' = updates /\ listening' = listening
      /\ storeKind' = storeKind /\ rejected' = rejected /\ intended' = intended
      /\ disordered' = disordered /\ past' = past /\ lost' = lost
  BY DEF WriteCallback
<1>6. /\ Tail(queue) \in Seq(Calls) /\ Once(Tail(queue))
      /\ \A y : Holds(Tail(queue), y) <=> y # c /\ Holds(queue, y)
  BY <1>0, <1>1, TailOnce DEF Plain, QueueInv
<1>7. /\ dependenciesFrom' \in [Node -> SUBSET Node] /\ dependenciesTo' \in [Node -> SUBSET Node]
      /\ scheduled' \in Seq(SUBSET Flag)
  BY <1>3, <1>5, FollowTypes
<1>8. c = Head(queue)
  OBVIOUS
<1> HIDE DEF c
<1>9. Plain'
  BY <1>0, <1>4, <1>5, <1>6, <1>7 DEF Plain, StoreTypeOK, storeVars
<1>10. Once(queue)'
  BY <1>5, <1>6 DEF Once
<1>11. \A d \in Calls : /\ calls'[d].stage = "none" <=> storeKind' = "memory" \/ d > updates'
                        /\ Holds(queue', d) <=> calls'[d].stage \in {"queued", "written"}
                        /\ calls'[d].stage = "written" => Head(queue') = d
  BY <1>0, <1>1, <1>4, <1>5, <1>6, <1>8 DEF QueueInv
<1>12. QueueInv'
  BY <1>10, <1>11 DEF QueueInv, Once, Holds
<1> QED
  BY <1>9, <1>12, TypesParts, PTL

LEMMA OthersTypes ==
  ASSUME Types, SetListening \/ Emit \/ UNCHANGED vars
  PROVE  Types'
<1>0. Plain /\ QueueInv
  BY TypesParts
<1>1. /\ storeVars' = storeVars /\ trackerVars' = trackerVars /\ storeKind' = storeKind
      /\ historyVars' = historyVars /\ updates' = updates /\ callVars' = callVars
  BY DEF SetListening, Emit, vars
<1>2. listening' \in BOOLEAN
  BY <1>0 DEF SetListening, Emit, vars, Plain
<1>3. scheduled' \in Seq(SUBSET Flag)
  <2>1. scheduled \in Seq(SUBSET Flag)
    BY <1>0 DEF Plain
  <2>2. CASE Emit
    BY <2>1, <2>2 DEF Emit
  <2>3. CASE scheduled' = scheduled
    BY <2>1, <2>3
  <2> QED
    BY <2>2, <2>3 DEF SetListening, vars
<1>4. Plain'
  BY <1>0, <1>1, <1>2, <1>3
  DEF Plain, StoreTypeOK, storeVars, trackerVars, historyVars, callVars
<1>5. QueueInv'
  BY <1>0, <1>1 DEF QueueInv, Once, Holds, callVars
<1> QED
  BY <1>4, <1>5, TypesParts, PTL

LEMMA NextTypes ==
  ASSUME Types, [Next]_vars
  PROVE  Types'
BY OperateTypes, CallTypes, StoreReadsTypes, ReadCallbackTypes, StoreWritesTypes,
   WriteCallbackTypes, OthersTypes DEF Next, Calls

-----------------------------------------------------------------------------
(* The dependency tracker *)

\* Steps that leave the store, the tracker and the head of the queue alone.
Quiet ==
  \/ \E u \in Updates : Call(u)
  \/ \E c \in Calls : StoreReads(c) \/ ReadCallback(c)
  \/ SetListening \/ Emit \/ UNCHANGED vars

SameHead ==
  /\ Writing' <=> Writing
  /\ Writing => Head(queue') = Head(queue) /\ calls'[Head(queue)] = calls[Head(queue)]

LEMMA HeadStays ==
  ASSUME Types, NEW c \in Calls, ~Holds(queue, c), NEW r \in CallRecord, r.stage # "written",
         calls' = [calls EXCEPT ![c] = r],
         queue' = queue \/ queue' = Append(queue, c)
  PROVE  SameHead
<1>0. Plain /\ QueueInv
  BY TypesParts
<1>1. /\ calls'[c] = r
      /\ \A d \in Calls : d # c => calls'[d] = calls[d]
  BY <1>0, OneCall DEF Plain
<1>2. queue # <<>> => Head(queue) \in Calls /\ Head(queue) # c
  BY <1>0, TailOnce DEF Plain, QueueInv
<1>3. queue' = queue \/ (queue' # <<>> /\ Head(queue') = IF queue = <<>> THEN c ELSE Head(queue))
  <2>1. queue \in Seq(Calls) /\ Once(queue)
    BY <1>0 DEF Plain, QueueInv
  <2>2. Append(queue, c) # <<>> /\ Head(Append(queue, c)) = IF queue = <<>> THEN c ELSE Head(queue)
    BY <2>1, AppendOnce
  <2> QED
    BY <2>2
<1> QED
  BY <1>1, <1>2, <1>3 DEF SameHead, Writing

LEMMA QuietEffect ==
  ASSUME Types, Quiet
  PROVE  /\ storeVars' = storeVars /\ trackerVars' = trackerVars
         /\ rejected' = rejected /\ owed' = owed /\ disordered' = disordered
         /\ SameHead
<1>0. Plain /\ QueueInv
  BY TypesParts
<1>1. ASSUME NEW u \in Updates, Call(u)
      PROVE  SameHead
  <2>1. PICK r \in WaitingRecord :
          /\ calls' = [calls EXCEPT ![updates + 1] = r]
          /\ r.stage = IF listening THEN "asked" ELSE "queued"
    BY <1>1, CallEffect
  <2>2. updates + 1 \in Calls /\ ~Holds(queue, updates + 1) /\ r \in CallRecord
    BY <1>0, <1>1, CallEffect DEF QueueInv, CallRecord
  <2>3. queue' = queue \/ queue' = Append(queue, updates + 1)
    BY <1>1 DEF Call
  <2> QED
    BY <2>1, <2>2, <2>3, HeadStays
<1>2. ASSUME NEW c \in Calls, StoreReads(c)
      PROVE  SameHead
  <2>1. PICK r \in WaitingRecord : calls' = [calls EXCEPT ![c] = r] /\ r.stage = "read"
    BY <1>2, ReadEffect
  <2>2. ~Holds(queue, c) /\ r \in CallRecord
    BY <1>0, <1>2, ReadEffect DEF QueueInv, CallRecord
  <2>3. queue' = queue
    BY <1>2 DEF StoreReads
  <2> QED
    BY <2>1, <2>2, <2>3, HeadStays
<1>3. ASSUME NEW c \in Calls, ReadCallback(c)
      PROVE  SameHead
  <2>1. PICK r \in WaitingRecord :
          /\ calls' = [calls EXCEPT ![c] = r]
          /\ r.stage = IF ReadsAgain(calls[c]) THEN "asked" ELSE "queued"
    BY <1>3, ReadCallbackEffect
  <2>2. ~Holds(queue, c) /\ r \in CallRecord
    BY <1>0, <1>3, ReadCallbackEffect DEF QueueInv, CallRecord
  <2>3. queue' = queue \/ queue' = Append(queue, c)
    BY <1>3, ReadCallbackEffect
  <2> QED
    BY <2>1, <2>2, <2>3, HeadStays
<1>4. ASSUME SetListening \/ Emit \/ UNCHANGED vars
      PROVE  SameHead
  BY <1>4 DEF SetListening, Emit, vars, callVars, SameHead, Writing
<1>5. SameHead
  BY <1>1, <1>2, <1>3, <1>4, SMTT(30) DEF Quiet
<1>6. /\ storeVars' = storeVars /\ trackerVars' = trackerVars
      /\ rejected' = rejected /\ owed' = owed /\ disordered' = disordered
  BY DEF Quiet, Call, StoreReads, ReadCallback, SetListening, Emit, vars, historyVars
<1> QED
  BY <1>5, <1>6

\* The tracker takes the dependencies of the update, and its two maps stay inverse.
LEMMA FollowEffect ==
  ASSUME Types, Mutual, NEW u \in Updates, NEW checks, NEW old, Follow(u, checks, old)
  PROVE  /\ Mutual'
         /\ \A n \in Node : dependenciesFrom'[n] =
              IF IsInit(u) THEN DepsOf(u.data.items[n])
              ELSE IF n = u.node THEN u.item.deps ELSE dependenciesFrom[n]
<1>0. Plain
  BY TypesParts
<1>1. CASE IsInit(u)
  <2>1. RebuildTracker(u.data)
    BY <1>1 DEF Follow
  <2>2. \A m, n \in Node : n \in dependenciesTo'[m] <=> m \in DepsOf(u.data.items[n])
    BY <2>1 DEF RebuildTracker
  <2>3. \A n \in Node : dependenciesFrom'[n] = DepsOf(u.data.items[n])
    BY <2>1 DEF RebuildTracker
  <2> QED
    BY <1>1, <2>2, <2>3 DEF Mutual
<1>2. CASE ~IsInit(u)
  <2>1. u.node \in Node /\ UpdateDependenciesFrom(u.node, u.item.deps)
    BY <1>2, UpdateFacts DEF Follow
  <2>2. \A n \in Node : dependenciesFrom'[n] = IF n = u.node THEN u.item.deps ELSE dependenciesFrom[n]
    BY <1>0, <2>1 DEF UpdateDependenciesFrom, Plain
  <2>3. dependenciesTo' = Relink(u.node, u.item.deps)
    BY <2>1 DEF UpdateDependenciesFrom
  <2>4. ASSUME NEW m \in Node, NEW n \in Node
        PROVE  m \in dependenciesFrom'[n] <=> n \in dependenciesTo'[m]
    <3>1. dependenciesTo'[m] = (dependenciesTo[m] \ (IF m \in dependenciesFrom[u.node] THEN {u.node} ELSE {}))
                                 \cup (IF m \in u.item.deps THEN {u.node} ELSE {})
      BY <2>3 DEF Relink
    <3>2. CASE n = u.node
      BY <2>1, <2>2, <3>1, <3>2 DEF Mutual
    <3>3. CASE n # u.node
      BY <2>1, <2>2, <3>1, <3>3 DEF Mutual
    <3> QED
      BY <3>2, <3>3
  <2> QED
    BY <1>2, <2>2, <2>4 DEF Mutual
<1> QED
  BY <1>1, <1>2

\* The store has what the tracker is told, unless it rejected the update.
LEMMA NowTracked ==
  ASSUME Types, NEW u \in Updates, ~IsInit(u), Rejecting(u), u.node \notin rejected'
  PROVE  DepsOf(allData'[u.node]) = u.item.deps
<1>1. u.node \in Node /\ u.item # Absent
  BY UpdateFacts, ItemFacts
<1>2. CASE allData'[u.node] = u.item
  BY <1>1, <1>2 DEF DepsOf
<1>3. CASE allData'[u.node] # u.item
  <2>1. allData'[u.node] = Absent /\ u.op = "delete"
    BY <1>1, <1>3, UpdateFacts DEF Rejecting, IsInit
  <2>2. PICK v : u.item = Tombstone(v)
    BY <2>1, UpdateFacts
  <2> QED
    BY <2>1, <2>2 DEF DepsOf, Tombstone
<1> QED
  BY <1>2, <1>3

LEMMA OthersKept ==
  ASSUME NEW u \in Updates, ~IsInit(u), OthersAlone(u), Rejecting(u),
         NEW n \in Node \ rejected', n # u.node
  PROVE  n \notin rejected /\ allData'[n] = allData[n]
BY DEF OthersAlone, Rejecting

LEMMA InitTracker == Init => TrackerInv
<1> SUFFICES ASSUME Init PROVE TrackerInv
  OBVIOUS
<1>1. ~Writing
  BY DEF Init, Writing
<1>2. /\ \A n \in Node : dependenciesFrom[n] = {} /\ dependenciesTo[n] = {}
      /\ \A n \in Node : allData[n] = Absent
  BY DEF Init, NoDependencies, StoreInit
<1> QED
  BY <1>1, <1>2 DEF TrackerInv, Mutual, Tracked, DepsOf

LEMMA NextTracker ==
  ASSUME Types, TrackerInv, [Next]_vars
  PROVE  TrackerInv'
<1>0. Plain /\ QueueInv /\ Mutual
  BY TypesParts DEF TrackerInv
<1>1. ASSUME NEW u \in Updates, Operate(u)
      PROVE  TrackerInv'
  <2>1. Follow(u, listening, Old) /\ Rejecting(u) /\ DataChange(u)
    BY <1>1, OperateEffect DEF Operate
  <2>5. OthersAlone(u)
    BY <1>0, <2>1, UpdateFacts DEF DataChange, OthersAlone, Plain, StoreTypeOK
  <2>2. ~Writing /\ ~Writing'
    <3>1. storeKind = "memory" /\ calls' = calls /\ queue' = queue
      BY <1>1 DEF Operate, callVars
    <3>2. queue = <<>>
      BY <3>1, HeadFacts
    <3> QED
      BY <3>1, <3>2 DEF Writing
  <2>3. /\ Mutual'
        /\ \A n \in Node : dependenciesFrom'[n] =
             IF IsInit(u) THEN DepsOf(u.data.items[n])
             ELSE IF n = u.node THEN u.item.deps ELSE dependenciesFrom[n]
    BY <1>0, <2>1, FollowEffect
  <2>4. ASSUME NEW n \in Node \ rejected'
        PROVE  Tracked(n)'
    <3>1. CASE IsInit(u)
      BY <2>1, <2>3, <3>1 DEF Tracked, DataChange
    <3>2. CASE ~IsInit(u) /\ n = u.node
      BY <2>1, <2>3, <3>2, NowTracked DEF Tracked
    <3>3. CASE ~IsInit(u) /\ n # u.node
      BY <2>1, <2>2, <2>3, <2>5, <3>3, OthersKept DEF Tracked, TrackerInv
    <3> QED
      BY <3>1, <3>2, <3>3
  <2> QED
    BY <2>2, <2>3, <2>4 DEF TrackerInv
<1>2. CASE StoreWrites
  <2>0. PICK u : u = calls[Head(queue)].update
    OBVIOUS
  <2>1. /\ queue # <<>> /\ calls[Head(queue)].stage = "queued"
        /\ calls'[Head(queue)] = [calls[Head(queue)] EXCEPT !.stage = "written"]
    BY <1>2, WriteEffect
  <2>2. /\ Head(queue) \in Calls /\ calls[Head(queue)] \in WaitingRecord /\ u \in Updates
    BY <2>0, <2>1, HeadFacts
  <2>3. Rejecting(u) /\ OthersAlone(u) /\ trackerVars' = trackerVars /\ queue' = queue
    BY <1>2, <2>0, StoreWritesEffect DEF StoreWrites
  <2>4. ~Writing /\ Writing' /\ calls'[Head(queue)].update = u
    BY <2>0, <2>1, <2>2, <2>3 DEF Writing, WaitingRecord
  <2>5. WillTrack(u)'
    <3>1. CASE IsInit(u)
      BY <2>3, <3>1 DEF WillTrack, Rejecting
    <3>2. CASE ~IsInit(u)
      <4>1. ASSUME NEW n \in Node \ rejected'
            PROVE  IF n = u.node THEN DepsOf(allData'[n]) = u.item.deps ELSE Tracked(n)'
        <5>1. CASE n = u.node
          BY <2>2, <2>3, <3>2, <5>1, NowTracked
        <5>2. CASE n # u.node
          BY <2>2, <2>3, <2>4, <3>2, <5>2, OthersKept DEF Tracked, TrackerInv, trackerVars
        <5> QED
          BY <5>1, <5>2
      <4> QED
        BY <3>2, <4>1 DEF WillTrack
    <3> QED
      BY <3>1, <3>2
  <2> QED
    BY <1>0, <2>3, <2>4, <2>5 DEF TrackerInv, Mutual, trackerVars
<1>3. CASE WriteCallback
  <2> DEFINE u == calls[Head(queue)].update
  <2>1. queue # <<>> /\ calls[Head(queue)].stage = "written"
    BY <1>3, WriteCallbackEffect
  <2>2. u \in Updates
    BY <2>1, HeadFacts
  <2>3. /\ Follow(u, calls[Head(queue)].checks, calls[Head(queue)].old)
        /\ storeVars' = storeVars /\ rejected' = rejected
    BY <1>3 DEF WriteCallback
  <2>4. ~Writing'
    <3>1. Types' /\ queue' = Tail(queue)
      BY <1>3, WriteCallbackTypes DEF WriteCallback
    <3>2. PICK r \in DoneRecord : calls' = [calls EXCEPT ![Head(queue)] = r]
      BY <1>3, WriteCallbackEffect
    <3>3. /\ \A d \in Calls : d # Head(queue) => calls'[d] = calls[d]
          /\ Head(queue) \in Calls
      BY <1>0, <2>1, <3>2, HeadFacts, OneCall DEF Plain, CallRecord
    <3>4. Tail(queue) # <<>> => /\ Head(Tail(queue)) \in Calls
                                /\ Head(Tail(queue)) # Head(queue)
      BY <1>0, <2>1, TailOnce DEF Plain, QueueInv
    <3> QED
      BY <1>0, <3>1, <3>3, <3>4 DEF Writing, QueueInv
  <2>5. WillTrack(u)
    BY <2>1 DEF TrackerInv, Writing
  <2> HIDE DEF u
  <2>6. /\ Mutual'
        /\ \A n \in Node : dependenciesFrom'[n] =
             IF IsInit(u) THEN DepsOf(u.data.items[n])
             ELSE IF n = u.node THEN u.item.deps ELSE dependenciesFrom[n]
    BY <1>0, <2>2, <2>3, FollowEffect
  <2>7. \A n \in Node \ rejected' : Tracked(n)'
    BY <2>3, <2>5, <2>6 DEF WillTrack, Tracked, storeVars
  <2> QED
    BY <2>4, <2>6, <2>7 DEF TrackerInv
<1>4. CASE Quiet
  <2>1. /\ storeVars' = storeVars /\ trackerVars' = trackerVars /\ rejected' = rejected
        /\ SameHead
    BY <1>4, QuietEffect
  <2>2. Mutual'
    BY <1>0, <2>1 DEF Mutual, trackerVars
  <2>3. ~Writing' => \A n \in Node \ rejected' : Tracked(n)'
    BY <2>1 DEF TrackerInv, SameHead, Tracked, storeVars, trackerVars
  <2>4. \A u : WillTrack(u) => WillTrack(u)'
    BY <2>1 DEF WillTrack, Tracked, storeVars, trackerVars
  <2>5. ASSUME Writing'
        PROVE  WillTrack(calls[Head(queue)].update)'
    <3>1. Writing /\ calls'[Head(queue')].update = calls[Head(queue)].update
      BY <2>1, <2>5 DEF SameHead
    <3>2. PICK u : u = calls[Head(queue)].update
      OBVIOUS
    <3>3. WillTrack(u)
      BY <3>1, <3>2 DEF TrackerInv
    <3>4. WillTrack(u)'
      BY <2>4, <3>3
    <3> QED
      BY <3>1, <3>2, <3>4
  <2> QED
    BY <2>2, <2>3, <2>5 DEF TrackerInv
<1> QED
  BY <1>1, <1>2, <1>3, <1>4 DEF Next, Quiet, Calls

-----------------------------------------------------------------------------
(* What was intended *)

LEMMA OutcomeSame ==
  ASSUME NEW target, NEW base, NEW waiting, NEW item, NEW item2,
         \A d \in waiting : item2[d] = item[d],
         Outcome(target, base, waiting, item)
  PROVE  Outcome(target, base, waiting, item2)
BY DEF Outcome

\* One more update is called.
LEMMA OutcomeOfCall ==
  ASSUME NEW target \in Item \cup {Absent}, NEW base \in Item \cup {Absent},
         NEW waiting \in SUBSET Calls, NEW item, NEW c \in Calls,
         \A d \in waiting : item[d] \in Item /\ d < c,
         item[c] \in Item,
         Outcome(target, base, waiting, item)
  PROVE  Outcome(IF target = Absent \/ target.version < item[c].version THEN item[c] ELSE target,
                 base, waiting \cup {c}, item)
<1> DEFINE kept == ~(target = Absent \/ target.version < item[c].version)
<1>0. /\ \A d \in waiting : item[d].version \in Nat /\ item[d] # Absent /\ d \in Nat
      /\ item[c].version \in Nat /\ item[c] # Absent /\ c \in Nat
      /\ target # Absent => target.version \in Nat
      /\ base # Absent => base.version \in Nat
  BY ItemFacts DEF Calls
<1>1. CASE target = base /\ \A d \in waiting : base # Absent /\ item[d].version <= base.version
  <2>1. CASE kept
    BY <1>0, <1>1, <2>1 DEF Outcome
  <2>2. CASE ~kept
    <3>1. \A e \in waiting \cup {c} : item[e].version <= item[c].version
                                       /\ (e < c => item[e].version < item[c].version)
      BY <1>0, <1>1, <2>2
    <3>2. base = Absent \/ base.version < item[c].version
      BY <1>1, <2>2
    <3> QED
      BY <2>2, <3>1, <3>2 DEF Outcome
  <2> QED
    BY <2>1, <2>2
<1>2. ASSUME NEW d \in waiting,
             target = item[d],
             base = Absent \/ base.version < item[d].version,
             \A e \in waiting : /\ item[e].version <= item[d].version
                                /\ e < d => item[e].version < item[d].version
      PROVE  Outcome(IF ~kept THEN item[c] ELSE target, base, waiting \cup {c}, item)
  <2>1. CASE kept
    <3>1. item[c].version <= item[d].version /\ ~(c < d)
      BY <1>0, <1>2, <2>1
    <3> QED
      BY <1>2, <2>1, <3>1 DEF Outcome
  <2>2. CASE ~kept
    <3>1. item[d].version < item[c].version
      BY <1>0, <1>2, <2>2
    <3>2. \A e \in waiting \cup {c} : item[e].version <= item[c].version
                                       /\ (e < c => item[e].version < item[c].version)
      BY <1>0, <1>2, <3>1
    <3>3. base = Absent \/ base.version < item[c].version
      BY <1>0, <1>2, <3>1
    <3> QED
      BY <2>2, <3>2, <3>3 DEF Outcome
  <2> QED
    BY <2>1, <2>2
<1> QED
  BY <1>1, <1>2 DEF Outcome

\* One of the waiting updates is written, and commutes with those before it.
LEMMA OutcomeOfWrite ==
  ASSUME NEW target \in Item \cup {Absent}, NEW base \in Item \cup {Absent},
         NEW waiting \in SUBSET Calls, NEW item, NEW c \in waiting,
         \A d \in waiting : item[d] \in Item,
         \A d \in waiting : d < c => item[d].version # item[c].version,
         Outcome(target, base, waiting, item)
  PROVE  Outcome(target, IF base = Absent \/ base.version < item[c].version THEN item[c] ELSE base,
                 waiting \ {c}, item)
<1> DEFINE taken == base = Absent \/ base.version < item[c].version
<1>0. /\ \A d \in waiting : item[d].version \in Nat /\ item[d] # Absent /\ d \in Nat
      /\ base # Absent => base.version \in Nat
  BY ItemFacts DEF Calls
<1>1. CASE target = base /\ \A d \in waiting : base # Absent /\ item[d].version <= base.version
  BY <1>0, <1>1 DEF Outcome
<1>2. ASSUME NEW d \in waiting,
             target = item[d],
             base = Absent \/ base.version < item[d].version,
             \A e \in waiting : /\ item[e].version <= item[d].version
                                /\ e < d => item[e].version < item[d].version
      PROVE  Outcome(target, IF taken THEN item[c] ELSE base, waiting \ {c}, item)
  <2>1. CASE d = c
    BY <1>0, <1>2, <2>1 DEF Outcome
  <2>2. CASE d # c
    <3>1. item[c].version < item[d].version
      BY <1>0, <1>2, <2>2
    <3>2. (IF taken THEN item[c] ELSE base) = Absent
            \/ (IF taken THEN item[c] ELSE base).version < item[d].version
      BY <1>2, <3>1
    <3> QED
      BY <1>2, <2>2, <3>2 DEF Outcome
  <2> QED
    BY <2>1, <2>2
<1> QED
  BY <1>1, <1>2 DEF Outcome

LEMMA CallFacts ==
  ASSUME Types, NEW d \in Calls
  PROVE  /\ Pending(d) \/ Written(d) => calls[d].update \in Updates /\ d <= updates
         /\ ~(Pending(d) /\ Written(d))
<1>1. calls[d] \in CallRecord /\ QueueInv
  BY TypesParts DEF Plain
<1>2. calls[d].stage # "none" => d <= updates
  BY <1>1, TypesParts DEF QueueInv, Plain, Calls
<1> QED
  BY <1>1, <1>2, Stages DEF Pending, Written, WaitingRecord, DoneRecord

LEMMA WaitingFacts ==
  ASSUME Types, NEW n, NEW j
  PROVE  /\ PendingOf(n, j) \in SUBSET Calls
         /\ \A d \in PendingOf(n, j) : UpdateItem[d] = calls[d].update.item /\ UpdateItem[d] \in Item
<1>1. \A d \in PendingOf(n, j) : /\ d \in Calls /\ calls[d].update \in Updates
                                 /\ ~IsInit(calls[d].update)
  BY CallFacts DEF PendingOf
<1> QED
  BY <1>1, UpdateFacts DEF UpdateItem

\* A step that writes nothing and calls nothing.
SameUpdates ==
  \A d \in Calls : /\ calls'[d].update = calls[d].update
                   /\ Pending(d)' <=> Pending(d)
                   /\ Written(d)' <=> Written(d)

LEMMA IntendedStays ==
  ASSUME IntendedInv, SameUpdates,
         intended' = intended, allData' = allData, disordered' = disordered, lost' = lost
  PROVE  IntendedInv'
<1>1. Doomed' <=> Doomed
  BY DEF Doomed, SameUpdates
<1>2. \A j \in Calls : PendingInit(j)' <=> PendingInit(j)
  BY DEF PendingInit, SameUpdates
<1>3. \A n, j : PendingOf(n, j)' = PendingOf(n, j)
  BY DEF PendingOf, SameUpdates
<1>4. UpdateItem' = UpdateItem
  BY DEF UpdateItem, SameUpdates
<1>5. \A j \in Calls : calls'[j].update = calls[j].update
  BY DEF SameUpdates
<1> QED
  BY <1>1, <1>2, <1>3, <1>4, <1>5 DEF IntendedInv

LEMMA InitIntended == Init => IntendedInv
<1> SUFFICES ASSUME Init PROVE IntendedInv
  OBVIOUS
<1>1. \A d \in Calls : calls[d] = NotCalled
  BY DEF Init, Calls
<1>2. \A d \in Calls : ~Pending(d)
  BY <1>1 DEF Pending, NotCalled
<1>3. \A n \in Node : PendingOf(n, 0) = {} /\ allData[n] = Absent /\ intended[n] = Absent
  BY <1>2 DEF PendingOf, Init, StoreInit, Nothing
<1> QED
  BY <1>2, <1>3 DEF IntendedInv, PendingInit, Outcome

LEMMA OperateIntended ==
  ASSUME Types, IntendedInv, NEW u \in Updates, Operate(u)
  PROVE  IntendedInv'
<1>0. Plain /\ QueueInv
  BY TypesParts
<1>1. storeKind = "memory" /\ calls' = calls
  BY DEF Operate, callVars
<1>2. \A d \in Calls : ~Pending(d) /\ ~Pending(d)'
  BY <1>0, <1>1 DEF QueueInv, Pending
<1>3. ~Doomed
  BY <1>2 DEF Doomed
<1>4. \A n : PendingOf(n, 0) = {} /\ PendingOf(n, 0)' = {}
  BY <1>2 DEF PendingOf
<1>5. ASSUME ~disordered'
      PROVE  \A n \in Node \ lost' : intended'[n] = allData'[n]
  <2>1. /\ ~disordered /\ Intend(u) /\ DataChange(u) /\ lost' = lost
        /\ ~(u.op = "delete" /\ Kind(u.node) \notin namespaces)
    BY <1>5, OperateEffect DEF Operate
  <2>2. \A n \in Node \ lost : intended[n] = allData[n]
    BY <1>2, <1>3, <1>4, <2>1 DEF IntendedInv, PendingInit, Outcome
  <2>3. CASE IsInit(u)
    BY <2>1, <2>3 DEF Intend, DataChange
  <2>4. CASE ~IsInit(u)
    <3>1. u.node \in Node
      BY <2>4, UpdateFacts
    <3>2. u.node \notin lost =>
            (Accepted(u) <=> (intended[u.node] = Absent \/ intended[u.node].version < u.item.version))
      BY <2>1, <2>2, <3>1 DEF Accepted, Accepts
    <3> QED
      BY <1>0, <2>1, <2>2, <2>4, <3>1, <3>2 DEF Intend, DataChange, Plain, StoreTypeOK
  <2> QED
    BY <2>3, <2>4
<1> QED
  BY <1>2, <1>4, <1>5 DEF IntendedInv, PendingInit, Outcome

LEMMA CallIntended ==
  ASSUME Types, IntendedInv, NEW u \in Updates, Call(u)
  PROVE  IntendedInv'
<1>0. Plain /\ QueueInv
  BY TypesParts
<1>1. PICK c : c = updates + 1
  OBVIOUS
<1>2. PICK r \in WaitingRecord :
        /\ calls' = [calls EXCEPT ![c] = r] /\ r.update = u
        /\ r.stage = IF listening THEN "asked" ELSE "queued"
  BY <1>1, CallEffect
<1>3. c \in Calls /\ calls[c].stage = "none" /\ r \in CallRecord
  BY <1>1, CallEffect DEF CallRecord
<1>4. calls'[c] = r /\ \A d \in Calls : d # c => calls'[d] = calls[d]
  BY <1>0, <1>2, <1>3, OneCall DEF Plain
<1>5. /\ Pending(c)' /\ ~Written(c)' /\ ~Pending(c) /\ ~Written(c)
      /\ \A d \in Calls : d # c => (Pending(d)' <=> Pending(d)) /\ (Written(d)' <=> Written(d))
  BY <1>2, <1>3, <1>4 DEF Pending, Written
<1>6. c \in Nat /\ \A d \in Calls : d \in Nat /\ (Pending(d) \/ Written(d) => d < c)
  BY <1>0, <1>1, CallFacts DEF Calls, Plain
<1>7. allData' = allData /\ lost' = lost /\ disordered' = disordered /\ Intend(u)
  BY DEF Call, storeVars
<1>8. Doomed => Doomed'
  BY <1>4, <1>5 DEF Doomed
<1>9. UpdateItem'[c] = u.item /\ \A d \in Calls : d # c => UpdateItem'[d] = UpdateItem[d]
  BY <1>2, <1>3, <1>4 DEF UpdateItem
<1>10. CASE IsInit(u)
  <2>1. PendingInit(c)' /\ calls'[c].update = u
    BY <1>2, <1>4, <1>5, <1>10 DEF PendingInit
  <2>2. ASSUME NEW j \in Calls, PendingInit(j)', \A k \in Calls : PendingInit(k)' => k <= j
        PROVE  j = c
    BY <1>3, <1>5, <1>6, <2>1, <2>2 DEF PendingInit
  <2>3. \A n : PendingOf(n, c)' = {}
    BY <1>5, <1>6 DEF PendingOf
  <2>4. \A n \in Node : Outcome(intended[n], calls[c].update.data.items[n], PendingOf(n, c), UpdateItem)'
    BY <1>7, <1>10, <2>1, <2>3 DEF Intend, Outcome
  <2> QED
    BY <1>3, <2>1, <2>2, <2>4 DEF IntendedInv
<1>11. CASE ~IsInit(u)
  <2>1. u.node \in Node /\ u.item \in Item
    BY <1>11, UpdateFacts
  <2>2. \A j \in Calls : /\ PendingInit(j)' <=> PendingInit(j)
                         /\ PendingInit(j) => j < c /\ calls'[j].update = calls[j].update
    BY <1>2, <1>4, <1>5, <1>6, <1>11 DEF PendingInit
  <2>3. ASSUME NEW n \in Node, NEW j \in Nat, j < c, NEW b \in Item \cup {Absent},
               Outcome(intended[n], b, PendingOf(n, j), UpdateItem)
        PROVE  Outcome(intended'[n], b, PendingOf(n, j)', UpdateItem')
    <3>1. PICK w : w = PendingOf(n, j)
      OBVIOUS
    <3>2. /\ w \in SUBSET Calls
          /\ \A d \in w : UpdateItem[d] \in Item /\ d < c
      BY <1>6, <3>1, WaitingFacts DEF PendingOf
    <3>3. \A d \in w : UpdateItem'[d] = UpdateItem[d]
      BY <1>9, <3>2, <1>6
    <3>4. PendingOf(n, j)' = IF n = u.node THEN w \cup {c} ELSE w
      <4>1. \A d \in Calls : d # c => (d \in PendingOf(n, j)' <=> d \in w)
        BY <1>4, <1>5, <3>1 DEF PendingOf
      <4>2. c \in PendingOf(n, j)' <=> n = u.node
        BY <1>2, <1>3, <1>4, <1>5, <1>11, <2>3 DEF PendingOf
      <4>3. PendingOf(n, j)' \subseteq Calls /\ c \notin w
        BY <1>5, <3>1 DEF PendingOf
      <4> QED
        BY <1>3, <3>2, <4>1, <4>2, <4>3
    <3>5. Outcome(intended[n], b, w, UpdateItem')
      BY <2>3, <3>1, <3>3, OutcomeSame
    <3>6. CASE n # u.node
      <4>1. intended'[n] = intended[n]
        BY <1>0, <1>7, <1>11, <3>6 DEF Intend, Plain
      <4> QED
        BY <3>4, <3>5, <3>6, <4>1
    <3>7. CASE n = u.node
      <4>1. /\ intended[n] \in Item \cup {Absent}
            /\ intended'[n] = IF intended[n] = Absent \/ intended[n].version < u.item.version
                              THEN u.item ELSE intended[n]
        BY <1>0, <1>7, <1>11, <3>7 DEF Intend, Plain
      <4>2. PICK t : t = intended[n]
        OBVIOUS
      <4>3. PICK item : item = UpdateItem'
        OBVIOUS
      <4>4. /\ \A d \in w : item[d] \in Item /\ d < c
            /\ item[c] = u.item /\ Outcome(t, b, w, item)
        BY <1>9, <3>2, <3>3, <3>5, <4>2, <4>3
      <4>5. Outcome(IF t = Absent \/ t.version < item[c].version THEN item[c] ELSE t,
                    b, w \cup {c}, item)
        BY <1>3, <2>1, <2>3, <3>2, <4>1, <4>2, <4>4, OutcomeOfCall
      <4> QED
        BY <3>4, <3>7, <4>1, <4>2, <4>3, <4>4, <4>5
    <3> QED
      BY <3>6, <3>7
  <2>4. ASSUME ~disordered', ~Doomed'
        PROVE  ~disordered /\ ~Doomed
    BY <1>7, <1>8, <2>4
  <2>5. ASSUME ~disordered', ~Doomed', \A j \in Calls : ~PendingInit(j)', NEW n \in Node \ lost'
        PROVE  Outcome(intended'[n], allData'[n], PendingOf(n, 0)', UpdateItem')
    <3>1. Outcome(intended[n], allData[n], PendingOf(n, 0), UpdateItem)
      BY <1>7, <2>2, <2>4, <2>5 DEF IntendedInv
    <3>2. allData[n] \in Item \cup {Absent} /\ 0 \in Nat /\ 0 < c
      BY <1>0, <1>3 DEF Plain, StoreTypeOK, Calls
    <3> QED
      BY <1>7, <2>3, <3>1, <3>2
  <2>6. ASSUME ~disordered', ~Doomed', NEW j \in Calls, PendingInit(j)',
               \A k \in Calls : PendingInit(k)' => k <= j, NEW n \in Node
        PROVE  Outcome(intended'[n], calls'[j].update.data.items[n], PendingOf(n, j)', UpdateItem')
    <3>1. Outcome(intended[n], calls[j].update.data.items[n], PendingOf(n, j), UpdateItem)
      BY <2>2, <2>4, <2>6 DEF IntendedInv
    <3>2. calls[j].update \in Updates /\ IsInit(calls[j].update)
      BY <2>2, <2>6, CallFacts DEF PendingInit
    <3>3. calls[j].update.data.items[n] \in Item \cup {Absent}
      BY <3>2, UpdateFacts
    <3>4. j \in Nat /\ j < c /\ calls'[j].update = calls[j].update
      BY <1>6, <2>2, <2>6
    <3> QED
      BY <2>3, <3>1, <3>3, <3>4
  <2> QED
    BY <2>5, <2>6 DEF IntendedInv
<1> QED
  BY <1>10, <1>11

LEMMA WritesIntended ==
  ASSUME Types, IntendedInv, StoreWrites
  PROVE  IntendedInv'
<1>0. Plain /\ QueueInv
  BY TypesParts
<1>1. PICK c : c = Head(queue)
  OBVIOUS
<1>2. PICK u : u = calls[c].update
  OBVIOUS
<1>3. /\ c \in Calls /\ calls[c] \in WaitingRecord /\ u \in Updates
      /\ queue # <<>> /\ calls[c].stage = "queued"
  BY <1>1, <1>2, WriteEffect, HeadFacts
<1>4. /\ calls'[c] = [calls[c] EXCEPT !.stage = "written"]
      /\ \A d \in Calls : d # c => /\ calls'[d].update = calls[d].update
                                   /\ calls'[d].stage = calls[d].stage
  BY <1>1, WriteEffect DEF OvertakenAs
<1>5. calls'[c].stage = "written" /\ calls'[c].update = u
  BY <1>2, <1>3, <1>4 DEF WaitingRecord
<1>6. /\ Pending(c) /\ ~Pending(c)' /\ Written(c)' /\ ~Written(c)
      /\ \A d \in Calls : d # c => (Pending(d)' <=> Pending(d)) /\ (Written(d)' <=> Written(d))
      /\ \A d \in Calls : calls'[d].update = calls[d].update
  BY <1>2, <1>3, <1>4, <1>5 DEF Pending, Written
<1>7. /\ intended' = intended /\ OthersAlone(u)
      /\ \/ DataChange(u) /\ lost' = IF IsInit(u) THEN {} ELSE lost
         \/ Stray(u)
  BY <1>1, <1>2, StoreWritesEffect DEF StoreWrites
<1>8. UpdateItem' = UpdateItem
  BY <1>6 DEF UpdateItem
<1>9. \A d \in Calls : d \in Nat
  BY DEF Calls
<1> SUFFICES ASSUME ~disordered', ~Doomed'
             PROVE  /\ (\A j \in Calls : ~PendingInit(j)') =>
                         \A n \in Node \ lost' :
                           Outcome(intended[n], allData[n], PendingOf(n, 0), UpdateItem)'
                    /\ \A j \in Calls :
                         PendingInit(j)' /\ (\A k \in Calls : PendingInit(k)' => k <= j) =>
                           \A n \in Node : Outcome(intended[n], calls[j].update.data.items[n],
                                                   PendingOf(n, j), UpdateItem)'
  BY DEF IntendedInv
<1>10. ~disordered /\ \A d \in Calls : d > c => ~(Written(d) /\ Conflict(u, calls[d].update))
  <2>1. /\ ~disordered
        /\ \A d \in (c + 1)..MaxUpdates : ~(calls[d].stage = "done" /\ Conflict(u, calls[d].update))
    BY <1>1, <1>2 DEF StoreWrites
  <2>2. \A d \in Calls : calls[d].stage # "written"
    BY <1>0, <1>1, <1>3 DEF QueueInv
  <2>3. \A d \in Calls : d > c => d \in (c + 1)..MaxUpdates
    BY <1>3, WrapperAssumption DEF Calls
  <2> QED
    BY <2>1, <2>2, <2>3 DEF Written
<1>11. \A d \in Calls : Pending(d) /\ d < c => ~Conflict(calls[d].update, u)
  BY <1>3, <1>5, <1>6, <1>9 DEF Doomed
<1>12. ~Doomed
  BY <1>2, <1>6, <1>9, <1>10 DEF Doomed
<1>13. CASE IsInit(u)
  <2>1. \A d \in Calls : Pending(d)' => d > c
    BY <1>3, <1>6, <1>9, <1>11, <1>13 DEF Conflict
  <2>2. PendingInit(c) /\ \A j \in Calls : PendingInit(j)' <=> (PendingInit(j) /\ j # c)
    BY <1>2, <1>6, <1>13 DEF PendingInit
  <2>3. ASSUME \A j \in Calls : ~PendingInit(j)', NEW n \in Node \ lost'
        PROVE  Outcome(intended[n], allData[n], PendingOf(n, 0), UpdateItem)'
    <3>1. \A k \in Calls : PendingInit(k) => k <= c
      BY <1>3, <1>9, <2>2, <2>3
    <3>2. Outcome(intended[n], u.data.items[n], PendingOf(n, c), UpdateItem)
      BY <1>2, <1>3, <1>10, <1>12, <2>2, <3>1 DEF IntendedInv
    <3>3. PendingOf(n, 0)' = PendingOf(n, c)
      BY <1>3, <1>6, <1>9, <2>1 DEF PendingOf
    <3>4. allData' = u.data.items
      BY <1>7, <1>13, <2>3 DEF DataChange, Stray, Missed
    <3> QED
      BY <1>7, <1>8, <3>2, <3>3, <3>4
  <2>4. ASSUME NEW j \in Calls, PendingInit(j)', \A k \in Calls : PendingInit(k)' => k <= j, NEW n \in Node
        PROVE  Outcome(intended[n], calls[j].update.data.items[n], PendingOf(n, j), UpdateItem)'
    <3>1. j > c
      BY <2>1, <2>4 DEF PendingInit
    <3>2. PendingInit(j) /\ \A k \in Calls : PendingInit(k) => k <= j
      BY <1>3, <1>9, <2>2, <2>4, <3>1
    <3>3. Outcome(intended[n], calls[j].update.data.items[n], PendingOf(n, j), UpdateItem)
      BY <1>10, <1>12, <3>2 DEF IntendedInv
    <3>4. PendingOf(n, j)' = PendingOf(n, j)
      BY <1>3, <1>6, <1>9, <3>1 DEF PendingOf
    <3> QED
      BY <1>6, <1>7, <1>8, <3>3, <3>4
  <2> QED
    BY <2>3, <2>4
<1>14. CASE ~IsInit(u)
  <2>1. \A j \in Calls : PendingInit(j)' <=> PendingInit(j)
    BY <1>2, <1>6, <1>14 DEF PendingInit
  <2>2. u.node \in Node /\ u.item \in Item
    BY <1>3, <1>14, UpdateFacts
  <2>3. ASSUME \A j \in Calls : ~PendingInit(j)', NEW n \in Node \ lost'
        PROVE  Outcome(intended[n], allData[n], PendingOf(n, 0), UpdateItem)'
    <3>1. Outcome(intended[n], allData[n], PendingOf(n, 0), UpdateItem)
      BY <1>7, <1>10, <1>12, <1>14, <2>1, <2>3 DEF IntendedInv, Stray, Missed
    <3>2. allData[n] \in Item \cup {Absent} /\ intended[n] \in Item \cup {Absent}
      BY <1>0 DEF Plain, StoreTypeOK
    <3>3. CASE n # u.node
      <4>1. PendingOf(n, 0)' = PendingOf(n, 0)
        BY <1>2, <1>3, <1>6, <3>3 DEF PendingOf
      <4>2. allData'[n] = allData[n]
        BY <1>7, <1>14, <3>3 DEF OthersAlone
      <4> QED
        BY <1>7, <1>8, <3>1, <4>1, <4>2
    <3>4. CASE n = u.node
      <4>1. PendingOf(n, 0)' = PendingOf(n, 0) \ {c}
        BY <1>3, <1>6 DEF PendingOf
      <4>2. c \in PendingOf(n, 0)
        BY <1>2, <1>3, <1>6, <1>14, <3>4 DEF PendingOf, Calls
      <4>3. PICK w : w = PendingOf(n, 0)
        OBVIOUS
      <4>4. w \in SUBSET Calls /\ \A d \in w : UpdateItem[d] = calls[d].update.item /\ UpdateItem[d] \in Item
        BY <4>3, WaitingFacts
      <4>5. UpdateItem[c] = u.item
        BY <1>2, <4>2, <4>3, <4>4
      <4>6. ASSUME NEW d \in w, d < c
            PROVE  UpdateItem[d].version # UpdateItem[c].version
        <5>1. Pending(d) /\ calls[d].update.node = n /\ d \in Calls
          BY <4>3, <4>6 DEF PendingOf
        <5> QED
          BY <1>11, <3>4, <4>4, <4>5, <4>6, <5>1 DEF Conflict
      <4>7. allData'[n] = IF allData[n] = Absent \/ allData[n].version < u.item.version
                          THEN u.item ELSE allData[n]
        <5>1. Accepted(u) <=> (allData[n] = Absent \/ allData[n].version < u.item.version)
          BY <1>1, <1>3, <3>4, HeadFacts DEF Accepted, Accepts
        <5>2. DataChange(u)
          BY <1>7, <1>14, <2>3, <3>4 DEF Stray, Missed
        <5> QED
          BY <1>0, <1>14, <2>2, <3>4, <5>1, <5>2 DEF DataChange, Plain, StoreTypeOK
      <4>8. PICK item : item = UpdateItem
        OBVIOUS
      <4>9. PICK b : b = allData[n]
        OBVIOUS
      <4>10. Outcome(intended[n], IF b = Absent \/ b.version < item[c].version THEN item[c] ELSE b,
                     w \ {c}, item)
        <5>1. Outcome(intended[n], b, w, item)
          BY <3>1, <4>3, <4>8, <4>9
        <5>2. c \in w /\ (\A d \in w : item[d] \in Item)
              /\ \A d \in w : d < c => item[d].version # item[c].version
          BY <4>2, <4>3, <4>4, <4>6, <4>8
        <5> HIDE DEF Outcome
        <5> QED
          BY <3>2, <4>4, <4>9, <5>1, <5>2, OutcomeOfWrite
      <4> QED
        BY <1>7, <1>8, <4>1, <4>3, <4>5, <4>7, <4>8, <4>9, <4>10
    <3> QED
      BY <3>3, <3>4
  <2>4. ASSUME NEW j \in Calls, PendingInit(j)', \A k \in Calls : PendingInit(k)' => k <= j, NEW n \in Node
        PROVE  Outcome(intended[n], calls[j].update.data.items[n], PendingOf(n, j), UpdateItem)'
    <3>1. PendingInit(j) /\ \A k \in Calls : PendingInit(k) => k <= j
      BY <2>1, <2>4
    <3>2. Outcome(intended[n], calls[j].update.data.items[n], PendingOf(n, j), UpdateItem)
      BY <1>10, <1>12, <3>1 DEF IntendedInv
    <3>3. c < j
      BY <1>2, <1>3, <1>9, <1>11, <1>14, <3>1 DEF PendingInit, Conflict
    <3>4. PendingOf(n, j)' = PendingOf(n, j)
      BY <1>3, <1>6, <1>9, <3>3 DEF PendingOf
    <3> QED
      BY <1>6, <1>7, <1>8, <3>2, <3>4
  <2> QED
    BY <2>3, <2>4
<1> QED
  BY <1>13, <1>14

LEMMA NextIntended ==
  ASSUME Types, IntendedInv, [Next]_vars
  PROVE  IntendedInv'
<1>0. Plain
  BY TypesParts
<1>1. ASSUME NEW c \in Calls, NEW r \in CallRecord, calls' = [calls EXCEPT ![c] = r],
             r.update = calls[c].update,
             \/ /\ calls[c].stage \in {"asked", "read", "queued"}
                /\ r.stage \in {"asked", "read", "queued"}
             \/ calls[c].stage = "written" /\ r.stage = "done"
      PROVE  SameUpdates
  <2>1. calls'[c] = r /\ \A d \in Calls : d # c => calls'[d] = calls[d]
    BY <1>0, <1>1, OneCall DEF Plain
  <2> QED
    BY <1>1, <2>1 DEF SameUpdates, Pending, Written
<1>2. ASSUME NEW c \in Calls, StoreReads(c)
      PROVE  IntendedInv'
  <2>1. PICK r \in WaitingRecord :
          calls' = [calls EXCEPT ![c] = r] /\ r.stage = "read" /\ r.update = calls[c].update
    BY <1>2, ReadEffect
  <2>2. calls[c].stage = "asked" /\ r \in CallRecord
    BY <1>2, ReadEffect DEF CallRecord
  <2>3. SameUpdates
    BY <1>1, <2>1, <2>2
  <2> QED
    BY <1>2, <2>3, IntendedStays DEF StoreReads, historyVars, storeVars
<1>3. ASSUME NEW c \in Calls, ReadCallback(c)
      PROVE  IntendedInv'
  <2>1. PICK r \in WaitingRecord :
          /\ calls' = [calls EXCEPT ![c] = r] /\ r.update = calls[c].update
          /\ r.stage = IF ReadsAgain(calls[c]) THEN "asked" ELSE "queued"
    BY <1>3, ReadCallbackEffect
  <2>2. calls[c].stage = "read" /\ r \in CallRecord
    BY <1>3, ReadCallbackEffect DEF CallRecord
  <2>3. SameUpdates
    BY <1>1, <2>1, <2>2
  <2> QED
    BY <1>3, <2>3, IntendedStays DEF ReadCallback, historyVars, storeVars
<1>4. CASE WriteCallback
  <2>1. PICK r \in DoneRecord :
          calls' = [calls EXCEPT ![Head(queue)] = r] /\ r.update = calls[Head(queue)].update
    BY <1>4, WriteCallbackEffect
  <2>2. calls[Head(queue)].stage = "written" /\ Head(queue) \in Calls
        /\ r \in CallRecord /\ r.stage = "done"
    BY <1>4, WriteCallbackEffect, HeadFacts DEF CallRecord, DoneRecord
  <2>3. SameUpdates
    BY <1>1, <2>1, <2>2
  <2> QED
    BY <1>4, <2>3, IntendedStays DEF WriteCallback, storeVars
<1>5. CASE SetListening \/ Emit \/ UNCHANGED vars
  <2>1. /\ storeVars' = storeVars /\ historyVars' = historyVars /\ calls' = calls
    BY <1>5 DEF SetListening, Emit, vars, callVars
  <2>2. SameUpdates
    BY <2>1 DEF SameUpdates, Pending, Written
  <2> QED
    BY <2>1, <2>2, IntendedStays DEF historyVars, storeVars
<1> QED
  BY <1>2, <1>3, <1>4, <1>5, OperateIntended, CallIntended, WritesIntended DEF Next, Calls

-----------------------------------------------------------------------------
(* What a call has read *)

ReadOne(c) ==
  /\ calls[c].stage \in {"asked", "read"} => calls[c].checks
  /\ calls[c].stage = "queued" /\ calls[c].checks /\ IsInit(calls[c].update) =>
       calls[c].kind = "segments"
  /\ Pending(c) /\ calls[c].checks => StillTells(calls[c])

LEMMA ReadParts == ReadInv <=> \A c \in Calls : ReadOne(c)
BY DEF ReadInv, ReadOne

LEMMA ReadPartsNext == (\A c \in Calls : ReadOne(c)') => ReadInv'
BY DEF ReadInv, ReadOne

\* A waiting call reads nodes.
LEMMA ReadNodes ==
  ASSUME NEW call \in WaitingRecord
  PROVE  /\ call.update \in Updates /\ call.kind \in Kinds
         /\ IsInit(call.update) =>
              Read(call) = IF call.kind = "features" THEN Flag ELSE Segment
         /\ ~IsInit(call.update) => Read(call) = {call.update.node} /\ call.update.node \in Node
<1>1. call.update \in Updates /\ call.kind \in Kinds
  BY DEF WaitingRecord
<1>2. ASSUME IsInit(call.update)
      PROVE  Read(call) = IF call.kind = "features" THEN Flag ELSE Segment
  BY <1>1, <1>2, StoreAssumption DEF Read, Kind, Kinds, Node
<1>3. ASSUME ~IsInit(call.update)
      PROVE  Read(call) = {call.update.node} /\ call.update.node \in Node
  BY <1>1, <1>3, UpdateFacts DEF Read
<1> QED
  BY <1>1, <1>2, <1>3

LEMMA HasReadNodes ==
  ASSUME NEW call \in WaitingRecord
  PROVE  HasRead(call) \subseteq Node
<1>1. Read(call) \subseteq Node
  BY ReadNodes DEF Node
<1> QED
  BY <1>1 DEF HasRead, WaitingRecord, Node

\* The store as it was tells what it told.
LEMMA TellsSame ==
  ASSUME NEW call, StillTells(call), allData' = allData
  PROVE  StillTells(call)'
BY DEF StillTells, Misleading, VisibleItem

LEMMA InitRead == Init => ReadInv
<1> SUFFICES ASSUME Init PROVE ReadInv
  OBVIOUS
<1>1. \A c \in Calls : calls[c].stage = "none"
  BY DEF Init, Calls, NotCalled
<1> QED
  BY <1>1 DEF ReadInv, Pending

LEMMA CallRead ==
  ASSUME Types, ReadInv, NEW u \in Updates, Call(u)
  PROVE  ReadInv'
<1>0. Plain /\ QueueInv
  BY TypesParts
<1>1. PICK c : c = updates + 1
  OBVIOUS
<1>2. PICK r \in WaitingRecord :
        /\ calls' = [calls EXCEPT ![c] = r] /\ r.update = u /\ r.checks = listening
        /\ r.stage = IF listening THEN "asked" ELSE "queued"
        /\ r.kind = IF IsInit(u) THEN "features" ELSE Kind(u.node)
  BY <1>1, CallEffect
<1>3. c \in Calls /\ r \in CallRecord
  BY <1>1, CallEffect DEF CallRecord
<1>4. calls'[c] = r /\ \A d \in Calls : d # c => calls'[d] = calls[d]
  BY <1>0, <1>2, <1>3, OneCall DEF Plain
<1>5. allData' = allData
  BY DEF Call, storeVars
<1>6. ASSUME listening
      PROVE  HasRead(r) = {}
  <2>1. r.stage = "asked" /\ ~(r.kind = "segments" /\ IsInit(r.update))
    BY <1>2, <1>6
  <2> QED
    BY <2>1 DEF HasRead
<1>7. ReadOne(c)'
  <2>1. listening => StillTells(r)'
    BY <1>6 DEF StillTells
  <2> QED
    BY <1>2, <1>4, <2>1 DEF ReadOne
<1>8. ASSUME NEW d \in Calls, d # c
      PROVE  ReadOne(d)'
  BY <1>4, <1>5, <1>8, ReadParts, TellsSame DEF ReadOne, Pending
<1> QED
  BY <1>7, <1>8, ReadPartsNext

LEMMA StoreReadsRead ==
  ASSUME Types, ReadInv, NEW c \in Calls, StoreReads(c)
  PROVE  ReadInv'
<1>0. Plain /\ ReadOne(c)
  BY TypesParts, ReadParts
<1>1. PICK r \in WaitingRecord :
        /\ calls' = [calls EXCEPT ![c] = r]
        /\ r.update = calls[c].update /\ r.checks = calls[c].checks
        /\ r.stage = "read" /\ r.kind = calls[c].kind
        /\ calls[c].misled \subseteq r.misled
        /\ \A n \in Node : n \notin Read(calls[c]) => r.old[n] = calls[c].old[n]
        /\ \A n \in Read(calls[c]) \ r.misled : ~Misleading(calls[c], n, r.old[n])
  BY ReadEffect
<1>2. PICK old : old = calls[c]
  OBVIOUS
<1>3. old \in WaitingRecord /\ old.stage = "asked" /\ r \in CallRecord
  BY <1>2, ReadEffect DEF CallRecord
<1>4. calls'[c] = r /\ \A d \in Calls : d # c => calls'[d] = calls[d]
  BY <1>0, <1>1, <1>3, OneCall DEF Plain
<1>5. allData' = allData
  BY DEF StoreReads, storeVars
<1>6. r.checks /\ StillTells(old)
  BY <1>0, <1>1, <1>2, <1>3 DEF ReadOne, Pending
<1>7. StillTells(r)
  <2> SUFFICES ASSUME NEW x \in HasRead(r) \ r.misled
               PROVE  ~Misleading(r, x, r.old[x])
    BY DEF StillTells
  <2>1. Read(r) = Read(old) /\ \A item : Misleading(r, x, item) <=> Misleading(old, x, item)
    BY <1>1, <1>2 DEF Read, Misleading
  <2>2. CASE x \in Read(old)
    BY <1>1, <1>2, <2>1, <2>2
  <2>3. CASE x \notin Read(old)
    <3>1. IsInit(r.update) /\ r.kind = "segments" /\ x \in Node
      BY <1>1, <2>1, <2>3 DEF HasRead
    <3>2. Read(old) = Segment
      BY <1>1, <1>2, <1>3, <3>1, ReadNodes
    <3>3. x \in HasRead(old) \ old.misled
      BY <1>1, <1>2, <1>3, <2>3, <3>1, <3>2 DEF HasRead, Node
    <3> QED
      BY <1>1, <1>2, <1>6, <2>1, <2>3, <3>1, <3>3 DEF StillTells
  <2> QED
    BY <2>2, <2>3
<1>8. ReadOne(c)'
  BY <1>1, <1>4, <1>5, <1>6, <1>7, TellsSame DEF ReadOne
<1>9. ASSUME NEW d \in Calls, d # c
      PROVE  ReadOne(d)'
  BY <1>4, <1>5, <1>9, ReadParts, TellsSame DEF ReadOne, Pending
<1> QED
  BY <1>8, <1>9, ReadPartsNext

LEMMA ReadCallbackRead ==
  ASSUME Types, ReadInv, NEW c \in Calls, ReadCallback(c)
  PROVE  ReadInv'
<1>0. Plain /\ ReadOne(c)
  BY TypesParts, ReadParts
<1>1. PICK r \in WaitingRecord :
        /\ calls' = [calls EXCEPT ![c] = r]
        /\ r.update = calls[c].update /\ r.checks = calls[c].checks
        /\ r.stage = IF ReadsAgain(calls[c]) THEN "asked" ELSE "queued"
        /\ r.kind = IF ReadsAgain(calls[c]) THEN "segments" ELSE calls[c].kind
        /\ r.misled = calls[c].misled /\ r.old = calls[c].old
  BY ReadCallbackEffect
<1>2. PICK old : old = calls[c]
  OBVIOUS
<1>3. old \in WaitingRecord /\ old.stage = "read" /\ r \in CallRecord
  BY <1>2, ReadCallbackEffect DEF CallRecord
<1>4. calls'[c] = r /\ \A d \in Calls : d # c => calls'[d] = calls[d]
  BY <1>0, <1>1, <1>3, OneCall DEF Plain
<1>5. allData' = allData
  BY DEF ReadCallback, storeVars
<1>6. r.checks /\ StillTells(old)
  BY <1>0, <1>1, <1>2, <1>3 DEF ReadOne, Pending
<1>7. HasRead(r) = HasRead(old)
  <2>1. CASE ReadsAgain(old)
    <3>1. HasRead(old) = Flag
      BY <1>3, <2>1, ReadNodes DEF HasRead, ReadsAgain
    <3>2. HasRead(r) = Flag
      BY <1>1, <1>2, <2>1 DEF HasRead, ReadsAgain
    <3> QED
      BY <3>1, <3>2
  <2>2. CASE ~ReadsAgain(old)
    BY <1>1, <1>2, <1>3, <2>2 DEF HasRead, Read
  <2> QED
    BY <2>1, <2>2
<1>8. StillTells(r)
  BY <1>1, <1>2, <1>6, <1>7 DEF StillTells, Misleading
<1>9. r.stage = "queued" /\ IsInit(r.update) => r.kind = "segments"
  BY <1>1, <1>2, <1>3 DEF ReadsAgain, WaitingRecord, Kinds
<1>10. ReadOne(c)'
  BY <1>4, <1>5, <1>6, <1>8, <1>9, TellsSame DEF ReadOne
<1>11. ASSUME NEW d \in Calls, d # c
       PROVE  ReadOne(d)'
  BY <1>4, <1>5, <1>11, ReadParts, TellsSame DEF ReadOne, Pending
<1> QED
  BY <1>10, <1>11, ReadPartsNext

\* A write keeps what the other calls have read true, or says that it does not.
LEMMA WritesRead ==
  ASSUME Types, ReadInv, StoreWrites
  PROVE  ReadInv'
<1>0. Plain
  BY TypesParts
<1>1. PICK c : c = Head(queue)
  OBVIOUS
<1>2. PICK u : u = calls[c].update
  OBVIOUS
<1>3. /\ c \in Calls /\ calls[c] \in WaitingRecord /\ u \in Updates /\ StoreTypeOK'
      /\ calls'[c] = [calls[c] EXCEPT !.stage = "written"]
  BY <1>1, <1>2, WriteEffect, HeadFacts, StoreWritesEffect
<1>4. \A d \in Calls : d # c =>
        \/ calls'[d] = calls[d] /\ HasRead(calls[d]) = {}
        \/ /\ calls[d] \in WaitingRecord /\ calls'[d] \in WaitingRecord
           /\ OvertakenAs(calls[d], calls'[d])
  BY <1>1, <1>2, WriteEffect
<1>5. calls'[c].stage = "written"
  BY <1>3 DEF WaitingRecord
<1>6. ReadOne(c)'
  BY <1>5 DEF ReadOne, Pending
<1>7. ASSUME NEW d \in Calls, d # c, HasRead(calls[d]) = {}, calls'[d] = calls[d]
      PROVE  ReadOne(d)'
  <2>1. PICK call : call = calls[d]
    OBVIOUS
  <2>2. StillTells(call)'
    BY <1>7, <2>1 DEF StillTells
  <2> QED
    BY <1>7, <2>1, <2>2, ReadParts DEF ReadOne, Pending
<1>8. ASSUME NEW d \in Calls, d # c, calls[d] \in WaitingRecord, calls'[d] \in WaitingRecord,
             OvertakenAs(calls[d], calls'[d])
      PROVE  ReadOne(d)'
  <2>1. PICK old : old = calls[d]
    OBVIOUS
  <2>2. PICK new : new = calls'[d]
    OBVIOUS
  <2>3. /\ new.update = old.update /\ new.checks = old.checks /\ new.stage = old.stage
        /\ new.kind = old.kind /\ new.old = old.old
        /\ new.misled = old.misled \cup Overtaken(old)
    BY <1>8, <2>1, <2>2 DEF OvertakenAs
  <2>4. HasRead(new) = HasRead(old)
    BY <2>3 DEF HasRead, Read
  <2>5. ASSUME StillTells(old)
        PROVE  StillTells(new)'
    <3> SUFFICES ASSUME NEW x \in HasRead(old), x \notin old.misled, x \notin Overtaken(old)
                 PROVE  ~Misleading(new, x, new.old[x])'
      BY <2>3, <2>4 DEF StillTells
    <3>1. x \in Node
      BY <1>8, <2>1, HasReadNodes
    <3>2. /\ allData[x] # Absent => allData[x].version \in Nat
          /\ allData'[x] # Absent => allData'[x].version \in Nat
          /\ old.old[x] # Absent => old.old[x].version \in Nat
      BY <1>0, <1>3, <1>8, <2>1, <3>1, ItemFacts DEF Plain, StoreTypeOK, WaitingRecord
    <3>3. ~Misleading(old, x, old.old[x])
      BY <2>5 DEF StillTells
    <3>4. ~GoesBack(x) /\ (IsInit(old.update) => allData'[x] = allData[x])
      BY DEF Overtaken
    <3>5. old.old[x] # Absent => allData'[x] # Absent /\ ~(allData'[x].version < old.old[x].version)
      BY <3>2, <3>3, <3>4 DEF Misleading, GoesBack
    <3>6. IsInit(old.update) => (old.old[x] = Absent) = (VisibleItem(x)' = Absent)
      BY <3>3, <3>4 DEF Misleading, VisibleItem
    <3> QED
      BY <2>3, <3>5, <3>6 DEF Misleading
  <2>6. ReadOne(d)
    BY ReadParts
  <2> QED
    BY <2>1, <2>2, <2>3, <2>5, <2>6 DEF ReadOne, Pending
<1> QED
  BY <1>4, <1>6, <1>7, <1>8, ReadPartsNext

LEMMA NextRead ==
  ASSUME Types, ReadInv, [Next]_vars
  PROVE  ReadInv'
<1>0. Plain /\ QueueInv
  BY TypesParts
<1>1. ASSUME NEW u \in Updates, Operate(u)
      PROVE  ReadInv'
  <2>1. storeKind = "memory" /\ calls' = calls
    BY <1>1 DEF Operate, callVars
  <2>2. \A d \in Calls : calls'[d].stage = "none"
    BY <1>0, <2>1 DEF QueueInv
  <2> QED
    BY <2>2 DEF ReadInv, Pending
<1>2. CASE WriteCallback
  <2>1. PICK r \in DoneRecord : calls' = [calls EXCEPT ![Head(queue)] = r]
    BY <1>2, WriteCallbackEffect
  <2>2. Head(queue) \in Calls /\ r \in CallRecord /\ r.stage = "done"
    BY <1>2, WriteCallbackEffect, HeadFacts DEF CallRecord, DoneRecord
  <2>3. calls'[Head(queue)] = r /\ \A d \in Calls : d # Head(queue) => calls'[d] = calls[d]
    BY <1>0, <2>1, <2>2, OneCall DEF Plain
  <2>4. allData' = allData
    BY <1>2 DEF WriteCallback, storeVars
  <2>6. ASSUME NEW d \in Calls, d # Head(queue)
        PROVE  ReadOne(d)'
    BY <2>3, <2>4, <2>6, ReadParts, TellsSame DEF ReadOne, Pending
  <2>7. ASSUME NEW d \in Calls, d = Head(queue)
        PROVE  ReadOne(d)'
    BY <2>2, <2>3, <2>7 DEF ReadOne, Pending
  <2> QED
    BY <2>6, <2>7, ReadPartsNext
<1>3. CASE SetListening \/ Emit \/ UNCHANGED vars
  <2>1. calls' = calls /\ allData' = allData
    BY <1>3 DEF SetListening, Emit, vars, callVars, storeVars
  <2>2. ASSUME NEW d \in Calls
        PROVE  ReadOne(d)'
    BY <2>1, ReadParts, TellsSame DEF ReadOne, Pending
  <2> QED
    BY <2>2, ReadPartsNext
<1> QED
  BY <1>1, <1>2, <1>3, CallRead, StoreReadsRead, ReadCallbackRead, WritesRead DEF Next, Calls

-----------------------------------------------------------------------------
(* What is announced *)

LEMMA ReachedGrows ==
  ASSUME NEW nodes, NEW nodes2, nodes \subseteq nodes2,
         NEW rely, NEW rely2, \A m \in Node : rely[m] \subseteq rely2[m]
  PROVE  Reached(nodes, rely) \subseteq Reached(nodes2, rely2)
<1> SUFFICES ASSUME NEW n \in Reached(nodes, rely),
                    NEW S \in SUBSET Node, nodes2 \subseteq S, \A m \in S : rely2[m] \subseteq S
             PROVE  n \in S
  BY DEF Reached
<1>1. nodes \subseteq S /\ \A m \in S : rely[m] \subseteq S
  OBVIOUS
<1> QED
  BY <1>1 DEF Reached

\* A tracker that agrees with the store finds whatever relies on a modified node.
LEMMA ModifiedHasAffected ==
  ASSUME TrackerInv', ~Writing', NEW nodes, NEW x \in nodes
  PROVE  Affected(x, allData', Node \ rejected') \subseteq Modified(nodes) \cap Flag
<1> DEFINE rely == [m \in Node |-> {n \in Node \ rejected' : m \in DepsOf(allData'[n])}]
<1>1. ASSUME NEW m \in Node, NEW n \in rely[m]
      PROVE  n \in dependenciesTo'[m]
  BY <1>1 DEF TrackerInv, Tracked, Mutual
<1>2. \A m \in Node : rely[m] \subseteq dependenciesTo'[m]
  BY <1>1
<1>3. Reached({x}, rely) \subseteq Reached(nodes, dependenciesTo')
  <2> HIDE DEF rely
  <2> QED
    BY <1>2, ReachedGrows
<1> QED
  BY <1>3 DEF Affected, Modified

LEMMA AnnouncedIs ==
  ASSUME scheduled \in Seq(SUBSET Flag), NEW nodes, SendChangeEvents(TRUE, nodes)
  PROVE  Announced = Modified(nodes) \cap Flag
<1>1. PICK flags \in SUBSET Flag : flags = Modified(nodes) \cap Flag
  OBVIOUS
<1>2. scheduled' = Append(scheduled, flags)
  BY <1>1 DEF SendChangeEvents
<1>3. Len(scheduled') = Len(scheduled) + 1 /\ scheduled'[Len(scheduled) + 1] = flags
  BY <1>2, AppendProperties
<1>4. Len(scheduled) \in Nat
  OBVIOUS
<1> QED
  BY <1>1, <1>3, <1>4 DEF Announced

\* A change that what was read does not hide is found to be a modification.
LEMMA ChangesModified ==
  ASSUME Types, NEW u \in Updates, DataChange(u), NEW x \in Node, Changes(x),
         NEW old, old[x] \in Item \cup {Absent},
         NEW call, call.update = u, ~Misleading(call, x, old[x])
  PROVE  x \in ModifiedBy(u, old)
<1>0. /\ allData \in [Node -> Item \cup {Absent}]
      /\ allData[x] # Absent => allData[x].version \in Nat
      /\ old[x] # Absent => old[x].version \in Nat
  BY TypesParts, ItemFacts DEF Plain, StoreTypeOK
<1>1. /\ VisibleItem(x)' # VisibleItem(x)
      /\ Kind(x) \in namespaces'
      /\ VisibleItem(x) # Absent /\ allData'[x] # Absent => allData[x].version < allData'[x].version
  BY DEF Changes
<1>2. allData'[x] # allData[x]
  BY <1>1 DEF VisibleItem
<1>3. old[x] # Absent => allData[x] # Absent /\ old[x].version <= allData[x].version
  BY <1>0 DEF Misleading
<1>4. CASE IsInit(u)
  <2>1. /\ allData' = u.data.items /\ namespaces' = u.data.kinds
        /\ old[x] = Absent <=> VisibleItem(x) = Absent
    BY <1>4 DEF DataChange, Misleading
  <2>2. old[x] # Absent \/ u.data.items[x] # Absent
    BY <1>1, <2>1 DEF VisibleItem
  <2>3. ASSUME u.data.items[x] # Absent, old[x] # Absent
        PROVE  ~(u.data.items[x].version <= old[x].version)
    <3>1. u.data.items[x] \in Item
      BY <1>4, <2>3, UpdateFacts
    <3>2. u.data.items[x].version \in Nat
      BY <3>1, ItemFacts
    <3>3. allData[x].version < u.data.items[x].version
      BY <1>1, <2>1, <2>3
    <3> QED
      BY <1>0, <1>3, <2>3, <3>2, <3>3
  <2> QED
    BY <1>1, <1>4, <2>1, <2>2, <2>3 DEF ModifiedBy, IsModified
<1>5. CASE ~IsInit(u)
  <2>1. u.node \in Node /\ u.item.version \in Nat
    BY <1>5, UpdateFacts, ItemFacts
  <2>2. x = u.node /\ Accepted(u)
    BY <1>0, <1>2, <1>5, <2>1 DEF DataChange
  <2>3. ASSUME old[x] # Absent
        PROVE  ~(u.item.version <= old[x].version)
    <3>1. allData[x] # Absent /\ old[x].version <= allData[x].version
      BY <1>3, <2>3
    <3>2. allData[x].version < u.item.version
      BY <2>2, <3>1 DEF Accepted, Accepts
    <3> QED
      BY <1>0, <2>1, <2>3, <3>1, <3>2
  <2> QED
    BY <1>5, <2>2, <2>3 DEF ModifiedBy, IsModified
<1> QED
  BY <1>4, <1>5

LEMMA NextOwed ==
  ASSUME Types, TrackerInv, ReadInv, OwedInv, Types', TrackerInv', [Next]_vars
  PROVE  OwedInv'
<1>0. Plain /\ QueueInv
  BY TypesParts
<1>1. ASSUME NEW u \in Updates, Operate(u)
      PROVE  OwedInv'
  <2>1. ~Writing /\ ~Writing'
    <3>1. storeKind = "memory" /\ queue' = queue
      BY <1>1 DEF Operate, callVars
    <3>2. queue = <<>>
      BY <3>1, HeadFacts
    <3> QED
      BY <3>1, <3>2 DEF Writing
  <2>2. owed = {}
    BY <2>1 DEF OwedInv
  <2>3. ASSUME listening
        PROVE  owed' = {}
    <3>1. PICK old : old = Old
      OBVIOUS
    <3>2. PICK nodes : nodes = ModifiedBy(u, old)
      OBVIOUS
    <3>3. Announced = Modified(nodes) \cap Flag
      <4>1. SendChangeEvents(TRUE, nodes)
        BY <1>0, <1>1, <2>3, <3>1, <3>2 DEF Operate, Follow, SendChangeEvents
      <4> QED
        BY <1>0, <4>1, AnnouncedIs DEF Plain
    <3>4. ASSUME NEW x \in Node, Changes(x)
          PROVE  Affected(x, allData', Node \ rejected') \subseteq Announced
      <4>1. allData[x] \in Item \cup {Absent} /\ old[x] = VisibleItem(x)
        BY <1>0, <3>1 DEF Plain, StoreTypeOK, Old
      <4>5. PICK call : call = [update |-> u]
        OBVIOUS
      <4>2. old[x] \in Item \cup {Absent} /\ call.update = u /\ ~Misleading(call, x, old[x])
        BY <4>1, <4>5, ItemFacts DEF VisibleItem, Misleading
      <4>3. DataChange(u)
        BY <1>1, OperateEffect
      <4>4. x \in nodes
        BY <3>2, <3>4, <4>1, <4>2, <4>3, ChangesModified
      <4> QED
        BY <2>1, <3>3, <4>4, ModifiedHasAffected
    <3>5. Owing(Node) \subseteq Announced
      BY <3>4 DEF Owing
    <3> QED
      BY <1>1, <2>3, <3>5 DEF Operate
  <2>4. ~listening => owed' = owed
    BY <1>1 DEF Operate
  <2> QED
    BY <2>1, <2>2, <2>3, <2>4 DEF OwedInv
<1>2. CASE StoreWrites
  <2>1. PICK c : c = Head(queue)
    OBVIOUS
  <2>2. PICK u : u = calls[c].update
    OBVIOUS
  <2>3. PICK call : call = calls[c]
    OBVIOUS
  <2>4. /\ c \in Calls /\ call \in WaitingRecord /\ u \in Updates
        /\ queue # <<>> /\ call.stage = "queued" /\ u = call.update
        /\ calls'[c] = [call EXCEPT !.stage = "written"]
    BY <1>2, <2>1, <2>2, <2>3, WriteEffect, HeadFacts, StoreWritesEffect
  <2>5. /\ calls'[c].update = u /\ calls'[c].checks = call.checks /\ calls'[c].old = call.old
        /\ calls'[c].stage = "written"
    BY <2>4 DEF WaitingRecord
  <2>6. ~Writing /\ Writing' /\ queue' = queue
    BY <1>2, <2>1, <2>3, <2>4, <2>5 DEF Writing, StoreWrites
  <2>7. owed = {}
    BY <2>6 DEF OwedInv
  <2>8. \/ owed' = {}
        \/ DataChange(u) /\ call.checks /\ owed' = Owing(Node \ call.misled)
    BY <1>2, <2>1, <2>2, <2>3, <2>7, StoreWritesEffect
  <2>9. ASSUME DataChange(u), call.checks, NEW x \in Node \ call.misled, Changes(x)
        PROVE  x \in ModifiedBy(u, call.old)
    <3>1. StillTells(call) /\ (IsInit(u) => call.kind = "segments")
      BY <2>3, <2>4, <2>9 DEF ReadInv, Pending
    <3>2. /\ allData \in [Node -> Item \cup {Absent}] /\ call.old[x] \in Item \cup {Absent}
      BY <1>0, <2>4 DEF Plain, StoreTypeOK, WaitingRecord
    <3>3. allData'[x] # allData[x]
      BY <2>9 DEF Changes, VisibleItem
    <3>4. x \in HasRead(call)
      <4>1. CASE IsInit(u)
        BY <2>4, <3>1, <4>1 DEF HasRead
      <4>2. CASE ~IsInit(u)
        <5>1. x = u.node
          BY <2>9, <3>2, <3>3, <4>2 DEF DataChange
        <5> QED
          BY <2>4, <4>2, <5>1 DEF HasRead, Read
      <4> QED
        BY <4>1, <4>2
    <3>5. ~Misleading(call, x, call.old[x])
      BY <2>4, <2>9, <3>1, <3>4 DEF StillTells
    <3> QED
      BY <2>4, <2>9, <3>2, <3>5, ChangesModified
  <2>10. ASSUME NEW f \in owed'
         PROVE  /\ call.checks
                /\ \E x \in ModifiedBy(u, call.old) : f \in Affected(x, allData', Node \ rejected')
    BY <2>8, <2>9, <2>10 DEF Owing
  <2>11. WillAnnounce(calls[Head(queue)])'
    BY <2>1, <2>5, <2>6, <2>10 DEF WillAnnounce
  <2> QED
    BY <2>6, <2>11 DEF OwedInv
<1>3. CASE WriteCallback
  <2>1. PICK call : call = calls[Head(queue)]
    OBVIOUS
  <2>2. queue # <<>> /\ call.stage = "written" /\ call \in WaitingRecord
    BY <1>3, <2>1, WriteCallbackEffect, HeadFacts
  <2>3. Writing /\ WillAnnounce(call)
    BY <2>1, <2>2 DEF Writing, OwedInv
  <2>4. ~Writing'
    <3>1. queue' = Tail(queue) /\ QueueInv'
      BY <1>3, TypesParts, PTL DEF WriteCallback
    <3>2. PICK r \in DoneRecord : calls' = [calls EXCEPT ![Head(queue)] = r]
      BY <1>3, WriteCallbackEffect
    <3>3. /\ \A d \in Calls : d # Head(queue) => calls'[d] = calls[d]
          /\ Head(queue) \in Calls
      BY <1>0, <2>2, <3>2, HeadFacts, OneCall DEF Plain, CallRecord
    <3>4. Tail(queue) # <<>> => /\ Head(Tail(queue)) \in Calls
                                /\ Head(Tail(queue)) # Head(queue)
      BY <1>0, <2>2, TailOnce DEF Plain, QueueInv
    <3> QED
      BY <1>0, <3>1, <3>3, <3>4 DEF Writing, QueueInv
  <2>5. allData' = allData /\ rejected' = rejected /\ owed' = owed \ Announced
        /\ SendChangeEvents(call.checks, ModifiedBy(call.update, call.old))
    BY <1>3, <2>1 DEF WriteCallback, Follow, storeVars
  <2>6. ASSUME NEW f \in owed
        PROVE  f \in Announced
    <3>1. PICK nodes : nodes = ModifiedBy(call.update, call.old)
      OBVIOUS
    <3>2. call.checks = TRUE
      BY <2>2, <2>3, <2>6 DEF WillAnnounce, WaitingRecord
    <3>3. PICK x \in nodes : f \in Affected(x, allData', Node \ rejected')
      BY <2>3, <2>5, <2>6, <3>1 DEF WillAnnounce
    <3>4. Announced = Modified(nodes) \cap Flag
      BY <1>0, <2>5, <3>1, <3>2, AnnouncedIs DEF Plain
    <3> QED
      BY <2>4, <3>3, <3>4, ModifiedHasAffected
  <2> QED
    BY <2>4, <2>5, <2>6 DEF OwedInv
<1>4. CASE Quiet
  <2>1. /\ allData' = allData /\ rejected' = rejected /\ owed' = owed /\ SameHead
    BY <1>4, QuietEffect DEF storeVars
  <2>2. \A call : WillAnnounce(call) => WillAnnounce(call)'
    BY <2>1 DEF WillAnnounce
  <2>3. ASSUME Writing'
        PROVE  WillAnnounce(calls[Head(queue)])'
    <3>1. PICK call : call = calls[Head(queue)]
      OBVIOUS
    <3>2. Writing /\ calls'[Head(queue')] = call
      BY <2>1, <2>3, <3>1 DEF SameHead
    <3>3. WillAnnounce(call)'
      BY <2>2, <3>1, <3>2 DEF OwedInv
    <3> QED
      BY <3>2, <3>3
  <2> QED
    BY <2>1, <2>3 DEF OwedInv, SameHead
<1> QED
  BY <1>1, <1>2, <1>3, <1>4 DEF Next, Quiet, Calls

-----------------------------------------------------------------------------
(* Theorems *)

LEMMA InvHolds == Spec => []Inv
<1>1. Init => Inv
  <2>1. Init => OwedInv
    BY DEF Init, OwedInv, Writing
  <2> QED
    BY <2>1, InitTypes, InitTracker, InitIntended, InitRead DEF Inv
<1>2. Inv /\ [Next]_vars => Inv'
  <2> SUFFICES ASSUME Inv, [Next]_vars PROVE Inv'
    OBVIOUS
  <2>1. Types' /\ TrackerInv' /\ IntendedInv' /\ ReadInv'
    BY NextTypes, NextTracker, NextIntended, NextRead DEF Inv
  <2>2. OwedInv'
    BY <2>1, NextOwed DEF Inv
  <2> QED
    BY <2>1, <2>2 DEF Inv
<1> QED
  BY <1>1, <1>2, PTL DEF Spec

\* Every variable keeps its type, and the update queue holds each waiting call once,
\* with the written one at its head.
THEOREM WrapperTypeCorrect == Spec => []TypeOK
<1>1. Inv => TypeOK
  BY DEF Inv, Types
<1> QED
  BY <1>1, InvHolds, PTL

\* The dependency tracker's two maps are inverse, and between writes they agree with
\* the items in the store, except for items whose last update the store did not take.
THEOREM TrackerFollows == Spec => []TrackerAgrees
<1>1. Inv => TrackerAgrees
  BY DEF Inv, TrackerInv, Mutual, Tracked, TrackerAgrees
<1> QED
  BY <1>1, InvHolds, PTL

\* Every flag a change may affect is announced when the write is called back, whatever
\* other updates are read and written in between, but for the excuses ChangesAnnounced
\* states.
THEOREM EveryChangeAnnounced == Spec => []ChangesAnnounced
<1>1. Inv => ChangesAnnounced
  BY DEF Inv, OwedInv, ChangesAnnounced
<1> QED
  BY <1>1, InvHolds, PTL

\* When nothing is in flight the store holds what the updates amount to in the order of
\* the calls, unless updates that do not commute were written in another order, for every
\* node of which the store did not refuse or misplace a write.
THEOREM LatestUpdateWins == Spec => []LatestWins
<1>1. Inv => LatestWins
  <2> SUFFICES ASSUME Inv, \A c \in 1..MaxUpdates : calls[c].stage \in {"none", "done"}, ~disordered
               PROVE  \A n \in Node \ lost : allData[n] = intended[n]
    BY DEF LatestWins
  <2>1. \A c \in Calls : ~Pending(c)
    BY DEF Calls, Pending
  <2>2. ~Doomed /\ (\A j \in Calls : ~PendingInit(j)) /\ \A n : PendingOf(n, 0) = {}
    BY <2>1 DEF Doomed, PendingInit, PendingOf
  <2> QED
    BY <2>2 DEF Inv, IntendedInv, Outcome
<1> QED
  BY <1>1, InvHolds, PTL

=============================================================================
