-------------------------- MODULE DataSourcesProofs --------------------------
(* What the client tells the application is right, and the store follows the service, for
   any flags, requests, failures and callers.

   Inv needs nothing of what the service answers: the client is ready only over a store
   with data, no promise outlives the outcome, and close() is final.

   SyncInv says what messages, answers, the store and the service have to do with one
   another: a version names one content (PastInv, StoreInv); on an open stream the latest
   version of a node has been announced or is on the way (ToldInv); the store shows what
   was announced, or an answer at least as new is awaited (KnownInv).          *)
EXTENDS DataSources, SequenceTheorems, TLAPS

\* A closed data source is in a state it sends no request from.
ClosedInv ==
  closed => IF mode = "stream" THEN connection = "closed" ELSE stopped

RequestShape == request = [s \in Slot |-> request[s]]

Inv == ReadyAfterInit /\ ClientTypeOK /\ WaitersSettled /\ ClosedInv /\ RequestShape

-----------------------------------------------------------------------------
(* What a step may do to the client and the store *)

ClientStep ==
  \/ UNCHANGED clientVars
  \/ ReportFailure
  \/ ReportSuccess
  \/ \E w \in Waiter : WaitForInitialization(w)

\* A step that reports success has given the store data, and no step takes it back.
StoreStep ==
  /\ initCalled => initCalled'
  /\ ~initComplete /\ initComplete' => initCalled'

SourceStep == ClientStep /\ StoreStep

\* The data sources call back only with a data set in the store.
LEMMA DeliverStep == ASSUME Deliver PROVE SourceStep
<1> DEFINE message == Head(stream)
<1>1. CASE Put(message)
  BY <1>1 DEF Put, Replace, SourceStep, ClientStep, StoreStep
<1>2. CASE Patch(message)
  BY <1>2 DEF Patch, PatchCallback, StoreUpsert, clientVars, SourceStep, ClientStep, StoreStep
<1>3. CASE Delete(message)
  BY <1>3 DEF Delete, StoreDelete, clientVars, SourceStep, ClientStep, StoreStep
<1>4. CASE IndirectPut(message) \/ IndirectPatch(message)
  BY <1>4 DEF IndirectPut, IndirectPatch, storeVars, clientVars, SourceStep, ClientStep, StoreStep
<1> QED
  BY <1>1, <1>2, <1>3, <1>4 DEF Deliver

LEMMA StreamAnswerStep == ASSUME NEW s \in Slot, StreamAnswer(s) PROVE SourceStep
<1>1. CASE AllAnswer(s)
  BY <1>1 DEF AllAnswer, Replace, ReportFailure, storeVars, clientVars,
              SourceStep, ClientStep, StoreStep
<1>2. CASE ObjectAnswer(s)
  BY <1>2 DEF ObjectAnswer, StoreUpsert, ReportFailure, storeVars, clientVars,
              SourceStep, ClientStep, StoreStep
<1> QED
  BY <1>1, <1>2 DEF StreamAnswer

LEMMA PollAnswerStep == ASSUME NEW s \in Slot, PollAnswer(s) PROVE SourceStep
  BY DEF PollAnswer, Replace, ReportFailure, storeVars, clientVars,
         SourceStep, ClientStep, StoreStep

LEMMA NextStep == ASSUME [Next]_vars PROVE SourceStep
<1> USE DEF SourceStep, ClientStep, StoreStep, sdkVars, storeVars, clientVars
<1>1. CASE Close
  BY <1>1 DEF Close, CloseStream, ClosePolling
<1>2. ASSUME NEW w \in Waiter, Wait(w) PROVE SourceStep
  BY <1>2 DEF Wait, WaitForInitialization
<1>3. CASE Service
  BY <1>3 DEF Service, Change
<1>4. ASSUME NEW s \in Slot, Network(ServiceAnswers(s)) \/ Network(ServiceFails(s))
      PROVE  SourceStep
  BY <1>4 DEF Network
<1>5. CASE Streaming(Connect) \/ Streaming(Disconnect)
  BY <1>5 DEF Streaming, Connect, Disconnect
<1>6. CASE Streaming(ConnectionRefused) \/ Streaming(DeliverBad)
  <2>1. ReportFailure /\ UNCHANGED storeVars
    BY <1>6 DEF Streaming, ConnectionRefused, DeliverBad
  <2>2. UNCHANGED initComplete
    BY <2>1 DEF ReportFailure
  <2> QED
    BY <2>1, <2>2
<1>7. CASE Streaming(Deliver)
  BY <1>7, DeliverStep DEF Streaming
<1>8. ASSUME NEW s \in Slot, Streaming(StreamAnswer(s)) \/ Polling(PollAnswer(s))
      PROVE  SourceStep
  BY <1>8, StreamAnswerStep, PollAnswerStep DEF Streaming, Polling
<1>9. CASE Polling(Poll)
  BY <1>9 DEF Polling, Poll
<1>10. CASE UNCHANGED vars
  BY <1>10 DEF vars
<1> QED
  BY <1>1, <1>2, <1>3, <1>4, <1>5, <1>6, <1>7, <1>8, <1>9, <1>10 DEF Next

\* No step of the client leaves a promise pending over an outcome.
LEMMA ClientStepInv ==
  ASSUME ClientTypeOK, WaitersSettled, ClientStep
  PROVE  ClientTypeOK' /\ WaitersSettled'
<1> USE DEF ClientTypeOK, WaitersSettled
<1>1. CASE UNCHANGED clientVars
  BY <1>1 DEF clientVars
<1>2. CASE ReportFailure
  <2>1. PICK asking \in SUBSET {w \in Waiter : waiter[w] = "uncalled"} :
          /\ waiter' = [w \in Waiter |-> IF w \in asking THEN Returned
                                                        ELSE Settled("rejected")[w]]
          /\ missed' = missed \cup {w \in asking : Returned = "pending"}
    BY <1>2 DEF ReportFailure
  <2>2. ASSUME NEW w \in Waiter
        PROVE  /\ waiter'[w] \in {"uncalled", "pending", "resolved", "rejected"}
               /\ waiter'[w] = "pending" => ~initComplete /\ w \in missed'
    <3>1. CASE w \notin asking
      BY <2>1, <3>1 DEF Settled
    <3>2. CASE w \in asking
      BY <2>1, <3>2 DEF Returned
    <3> QED
      BY <3>1, <3>2
  <2> QED
    BY <1>2, <2>1, <2>2 DEF ReportFailure
<1>3. CASE ReportSuccess
  BY <1>3 DEF ReportSuccess, Settled
<1>4. ASSUME NEW w \in Waiter, WaitForInitialization(w)
      PROVE  ClientTypeOK' /\ WaitersSettled'
  BY <1>4 DEF WaitForInitialization, Returned
<1> QED
  BY <1>1, <1>2, <1>3, <1>4 DEF ClientStep

-----------------------------------------------------------------------------
(* What a step may do to the requests *)

\* A step leaves the requests a function, and only a source that is not closed asks.
RequestStep ==
  /\ RequestShape'
  /\ ClosedInv /\ closed =>
       \A s \in Slot : request'[s].stage = "sent" => request[s].stage = "sent"

LEMMA ReceiveStep == ASSUME RequestShape, NEW s \in Slot, Receive(s) PROVE RequestStep
  BY DEF Receive, RequestStep, RequestShape, NoRequest

LEMMA NetworkStep ==
  ASSUME RequestShape, NEW s \in Slot, ServiceAnswers(s) \/ ServiceFails(s)
  PROVE  RequestStep
<1>1. PICK stage, answer : request[s].stage = "sent" /\ Answered(s, stage, answer)
  BY DEF ServiceAnswers, ServiceFails
<1> QED
  BY <1>1 DEF Answered, RequestStep, RequestShape

LEMMA AskShape ==
  ASSUME RequestShape, RequestAllData \/ \E n \in Node : RequestObject(n)
  PROVE  RequestShape'
  BY DEF RequestAllData, RequestObject, Ask, RequestShape

LEMMA NextRequestStep == ASSUME RequestShape, ClosedInv, [Next]_vars PROVE RequestStep
<1>1. ASSUME UNCHANGED request PROVE RequestStep
  BY <1>1 DEF RequestStep, RequestShape
<1>2. CASE Close \/ Service \/ \E w \in Waiter : Wait(w)
  BY <1>1, <1>2 DEF Close, CloseStream, ClosePolling, Service, Change, Wait,
                    sdkVars, requestorVars
<1>3. ASSUME NEW s \in Slot, Network(ServiceAnswers(s)) \/ Network(ServiceFails(s))
      PROVE  RequestStep
  BY <1>3, NetworkStep DEF Network
<1>4. CASE Streaming(Connect) \/ Streaming(Disconnect) \/ Streaming(ConnectionRefused)
             \/ Streaming(DeliverBad)
  BY <1>1, <1>4 DEF Streaming, Connect, Disconnect, ConnectionRefused, DeliverBad,
                    sdkVars, requestorVars
<1>5. CASE Streaming(Deliver)
  <2>1. ~closed \/ ~ClosedInv
    BY <1>5 DEF Streaming, Deliver, ClosedInv
  <2>2. UNCHANGED request \/ RequestAllData \/ \E n \in {Head(stream).node} : RequestObject(n)
    BY <1>5 DEF Streaming, Deliver, Put, Patch, Delete, IndirectPut, IndirectPatch,
                requestorVars
  <2>3. RequestShape'
    BY <2>2 DEF RequestAllData, RequestObject, Ask, RequestShape
  <2> QED
    BY <2>1, <2>3 DEF RequestStep
<1>6. ASSUME NEW s \in Slot, Streaming(StreamAnswer(s)) \/ Polling(PollAnswer(s))
      PROVE  RequestStep
  BY <1>6, ReceiveStep DEF Streaming, Polling, StreamAnswer, PollAnswer
<1>7. CASE Polling(Poll)
  <2>1. CASE stopped
    BY <1>1, <1>7, <2>1 DEF Polling, Poll, Stops, requestorVars
  <2>2. CASE ~stopped
    <3>1. RequestAllData /\ mode = "poll"
      BY <1>7, <2>2 DEF Polling, Poll, Stops
    <3> QED
      BY <2>2, <3>1, AskShape DEF RequestStep, ClosedInv
  <2> QED
    BY <2>1, <2>2
<1>8. CASE UNCHANGED vars
  BY <1>1, <1>8 DEF vars, sdkVars, requestorVars
<1> QED
  BY <1>2, <1>3, <1>4, <1>5, <1>6, <1>7, <1>8 DEF Next

\* Once closed, a data source stays in its final state.
LEMMA ClosedStep == ASSUME ClosedInv, [Next]_vars PROVE ClosedInv'
<1> USE DEF ClosedInv, sourceVars, streamVars, pollVars
<1>1. CASE Close
  BY <1>1 DEF Close, Running, CloseStream, ClosePolling
<1>2. ASSUME UNCHANGED <<connection, stopped, mode, closed>> PROVE ClosedInv'
  BY <1>2
<1>3. CASE Service
  BY <1>2, <1>3 DEF Service, Running, Change
<1>4. ASSUME NEW w \in Waiter, Wait(w) PROVE ClosedInv'
  BY <1>2, <1>4 DEF Wait, Running
<1>5. ASSUME NEW s \in Slot, Network(ServiceAnswers(s)) \/ Network(ServiceFails(s))
       PROVE  ClosedInv'
  <2>1. UNCHANGED <<sourceVars, mode, closed>>
    BY <1>5 DEF Network, Running
  <2> QED
    BY <1>2, <2>1
<1>6. CASE Streaming(Connect) \/ Streaming(Disconnect) \/ Streaming(ConnectionRefused)
             \/ Streaming(Deliver) \/ Streaming(DeliverBad)
  BY <1>6 DEF Streaming, Running, Connect, Disconnect, ConnectionRefused, Deliver, DeliverBad
<1>7. ASSUME NEW s \in Slot, Streaming(StreamAnswer(s)) PROVE ClosedInv'
  BY <1>7 DEF Streaming, Running, StreamAnswer
<1>8. ASSUME NEW s \in Slot, Polling(PollAnswer(s)) PROVE ClosedInv'
  BY <1>8 DEF Polling, Running, PollAnswer
<1>9. CASE Polling(Poll)
  BY <1>9 DEF Polling, Running, Poll
<1>10. CASE UNCHANGED vars
  BY <1>10 DEF vars
<1> QED
  BY <1>1, <1>3, <1>4, <1>5, <1>6, <1>7, <1>8, <1>9, <1>10 DEF Next

-----------------------------------------------------------------------------
(* What the store, the messages and the answers know of the service *)

Offer == [version : 1..MaxVersion, deleted : BOOLEAN, deps : {{}}]
Body == [Node -> Offer]

\* What a request, a message holds.
RequestRecord ==
  {r \in [op : {"none", "all"} \cup Node, known : Body \cup {None},
          stage : {"free", "sent", "body", "unchanged", "failed", "refused"},
          answer : Body \cup {None}] :
     /\ r.stage = "body" => r.answer \in Body
     /\ r.stage # "free" => r.op # "none"
     /\ r.stage = "unchanged" => r.op = "all"}
MessageRecord ==
  {m \in [type : {"put", "patch", "delete", "indirect/put", "indirect/patch"},
          node : Node \cup {None}, items : Body] :
     /\ m.node = None <=> m.type \in {"put", "indirect/put"}
     /\ m.type = "delete" => m.items[m.node].deleted}

Types ==
  /\ allData \in [Node -> Offer \cup {Absent}] /\ namespaces \subseteq Kinds
  /\ initCalled \in BOOLEAN
  /\ service \in Body /\ etag \in Body \cup {None} /\ errors \in 0..MaxErrors
  /\ request \in [Slot -> RequestRecord]
  /\ announced \in [Node -> 0..MaxVersion] /\ behind \subseteq Node
  /\ stream \in Seq(MessageRecord)
  /\ connection \in {"connecting", "open", "closed"} /\ thrown \in BOOLEAN
  /\ timer \in BOOLEAN /\ stopped \in BOOLEAN
  /\ mode \in {"stream", "poll"} /\ closed \in BOOLEAN

NamespaceInv == \A n \in Node : Kind(n) \notin namespaces => allData[n] = Absent

\* A version of an item names its content, and the service has the latest.
Past(item, n) ==
  item.version <= service[n].version /\ (item.version = service[n].version => item = service[n])
PastBody(items) == \A n \in Node : Past(items[n], n)

PastInv ==
  /\ \A i \in DOMAIN stream : PastBody(stream[i].items)
  /\ \A s \in Slot : request[s].stage = "body" => PastBody(request[s].answer)

StoreInv ==
  \A n \in Node :
    /\ announced[n] <= service[n].version
    /\ allData[n] # Absent => allData[n].version <= announced[n] /\ Past(allData[n], n)

\* The latest version of every node is known or still on the stream.
Speaks(message, n) == message.node \in {None, n}
OnTheWay(n) ==
  \E i \in DOMAIN stream :
    Speaks(stream[i], n) /\ stream[i].items[n].version = service[n].version
ToldInv ==
  connection = "open" => \A n \in Node : announced[n] = service[n].version \/ OnTheWay(n)

\* The store shows the version announced, or has asked for it.
Reflects(n) ==
  \/ announced[n] = 0
  \/ allData[n] # Absent /\ allData[n].version = announced[n]
  \/ allData[n] = Absent /\ (announced[n] = service[n].version => service[n].deleted)
Answers(s, n) ==
  /\ request[s].stage # "free" /\ request[s].op \in {"all", n}
  /\ request[s].stage = "body" => request[s].answer[n].version >= announced[n]
KnownInv ==
  mode = "stream" /\ ~thrown =>
    \A n \in Node \ behind : Reflects(n) \/ \E s \in Slot : Answers(s, n)

\* Polling waits for an answer before it asks again.
PollInv ==
  mode = "poll" =>
    /\ behind = {}
    /\ timer => Free = Slot
    /\ \A s, t \in Slot : s \notin Free /\ t \notin Free => s = t
    /\ \A s \in Slot : request[s].stage = "body" =>
         \A n \in Node : announced[n] <= request[s].answer[n].version

SyncInv == Types /\ NamespaceInv /\ PastInv /\ StoreInv /\ ToldInv /\ KnownInv /\ PollInv

LEMMA OfferIsItem == Offer \subseteq Item /\ Body \subseteq Bodies
<1>1. ASSUME NEW o \in Offer PROVE o \in Item
  <2>1. o = [version |-> o.version, deleted |-> o.deleted, deps |-> {}]
    BY DEF Offer
  <2>2. o.version \in 1..MaxVersion /\ o.deleted \in BOOLEAN
    BY DEF Offer
  <2> QED
    BY <2>1, <2>2, ServiceAssumption
<1> QED
  BY <1>1 DEF Body, Bodies

LEMMA OfferFacts ==
  ASSUME NEW o \in Offer
  PROVE  /\ o.version \in Nat /\ o.version \in 1..MaxVersion /\ o.version > 0
         /\ o.deleted \in BOOLEAN /\ o # Absent
         /\ o.deleted => Tombstone(o.version) = o
<1>1. o.version \in 1..MaxVersion /\ o.deleted \in BOOLEAN
  BY DEF Offer
<1>2. o # Absent
  BY OfferIsItem, StoreAssumption
<1>3. o.deleted => Tombstone(o.version) = o
  BY DEF Offer, Tombstone
<1> QED
  BY <1>1, <1>2, <1>3, ServiceAssumption

LEMMA ToldFacts ==
  ASSUME NEW message \in MessageRecord
  PROVE  /\ DOMAIN Told(message) = {n \in Node : Speaks(message, n)}
         /\ \A n \in Node : Speaks(message, n) => Told(message)[n] = message.items[n].version
<1>1. CASE message.node = None
  BY <1>1 DEF Told, Versions, Speaks
<1>2. CASE message.node # None
  <2>1. Told(message) = [n \in {message.node} |-> message.items[n].version]
    BY <1>2 DEF Told
  <2>2. message.node \in Node
    BY <1>2 DEF MessageRecord
  <2> QED
    BY <1>2, <2>1, <2>2 DEF Speaks
<1> QED
  BY <1>1, <1>2

LEMMA TypesSuffice == ASSUME Types, ClientTypeOK PROVE TypeOK
<1>1. allData \in [Node -> Item \cup {Absent}]
  BY OfferIsItem DEF Types
<1>2. ServiceTypeOK
  <2>1. request \in [Slot -> [op : {"none", "all"} \cup Node, known : Bodies \cup {None},
                 stage : {"free", "sent", "body", "unchanged", "failed", "refused"},
                 answer : Bodies \cup {None}]]
    BY OfferIsItem DEF Types, RequestRecord
  <2> QED
    BY <2>1, OfferIsItem DEF Types, ServiceTypeOK
<1>3. stream \in Seq([type : {"put", "patch", "delete", "indirect/put", "indirect/patch"},
                      node : Node \cup {None}, items : Bodies])
  <2>1. MessageRecord \subseteq
          [type : {"put", "patch", "delete", "indirect/put", "indirect/patch"},
           node : Node \cup {None}, items : Bodies]
    BY OfferIsItem DEF MessageRecord
  <2>2. stream \in Seq(MessageRecord)
    BY DEF Types
  <2> QED
    BY <2>1, <2>2, SeqMonotonic
<1> QED
  BY <1>1, <1>2, <1>3 DEF Types, TypeOK, StoreTypeOK, StreamTypeOK, PollTypeOK

-----------------------------------------------------------------------------
(* What the store learns *)

\* The store was told version v of n: either it shows what is announced, or what it was
\* told is of no use and leaves n as it was.
Learns(n, v) ==
  n \notin behind' =>
    \/ Reflects(n)'
    \/ /\ n \notin behind /\ ~Reflects(n)
       /\ v < announced[n] /\ announced'[n] = announced[n]

\* A node nothing was told of.
Same(n) ==
  /\ announced'[n] = announced[n] /\ allData'[n] = allData[n]
  /\ n \in behind' <=> n \in behind

StoreShape ==
  /\ allData' \in [Node -> Offer \cup {Absent}] /\ namespaces' \subseteq Kinds
  /\ announced' \in [Node -> 0..MaxVersion] /\ behind' \subseteq Node
  /\ initCalled' \in BOOLEAN

LEMMA LaterFacts ==
  ASSUME Types, NEW told, announced' = Later(told)
  PROVE  /\ \A n \in Node \ DOMAIN told : announced'[n] = announced[n]
         /\ \A n \in Node \cap DOMAIN told :
              announced'[n] = IF told[n] > announced[n] THEN told[n] ELSE announced[n]
         /\ (\A n \in Node \cap DOMAIN told : told[n] \in 1..MaxVersion) =>
              announced' \in [Node -> 0..MaxVersion]
<1>1. announced' = [n \in Node |->
     IF n \in DOMAIN told /\ told[n] > announced[n] THEN told[n] ELSE announced[n]]
  BY DEF Later
<1>2. announced \in [Node -> 0..MaxVersion] /\ MaxVersion \in Nat
  BY ServiceAssumption DEF Types
<1> QED
  BY <1>1, <1>2

LEMMA AnnouncedFacts ==
  ASSUME Types, NEW n \in Node
  PROVE  announced[n] \in Nat /\ service[n] \in Offer /\ allData[n] \in Offer \cup {Absent}
  BY ServiceAssumption DEF Types, Body

LEMMA AllLearned ==
  ASSUME Types, StoreInv, NEW items \in Body, PastBody(items),
         Replace(DataOf(items)), LearnAll(Versions(items)), UNCHANGED service
  PROVE  /\ StoreShape /\ StoreInv' /\ NamespaceInv'
         /\ \A n \in Node : /\ Learns(n, items[n].version)
                            /\ announced'[n] >= items[n].version /\ announced'[n] >= announced[n]
         /\ (\A n \in Node : announced[n] <= items[n].version) => behind' = {}
<1> DEFINE told == Versions(items)
<1>1. /\ allData' = Offered(items) /\ namespaces' = Kinds /\ initCalled' = TRUE
      /\ announced' = Later(told)
      /\ behind' = {n \in Node : /\ told[n] < announced[n]
                                 /\ n \in behind \/ allData'[n] # allData[n]}
  BY DEF Replace, DataOf, LearnAll
<1>2. /\ DOMAIN told = Node
      /\ \A n \in Node : told[n] = items[n].version /\ told[n] \in 1..MaxVersion
  BY OfferFacts DEF Versions, Body
<1> HIDE DEF told
<1>3. /\ announced' \in [Node -> 0..MaxVersion]
      /\ \A n \in Node : announced'[n] = IF told[n] > announced[n] THEN told[n] ELSE announced[n]
  BY <1>1, <1>2, LaterFacts
<1>4. allData' \in [Node -> Offer \cup {Absent}]
  BY <1>1 DEF Offered, Body
<1>5. StoreShape
  BY <1>1, <1>3, <1>4 DEF StoreShape
<1>6. NamespaceInv'
  BY <1>1 DEF NamespaceInv, Kind, Kinds
<1>7. ASSUME NEW n \in Node
      PROVE  /\ announced'[n] \in Nat /\ announced[n] \in Nat /\ told[n] \in Nat /\ told[n] > 0
             /\ announced'[n] <= service[n].version
             /\ announced'[n] >= told[n] /\ announced'[n] >= announced[n]
             /\ items[n].deleted => allData'[n] = Absent
             /\ ~items[n].deleted => allData'[n] = items[n] /\ items[n] # Absent
  <2>1. announced[n] \in Nat /\ told[n] \in Nat /\ told[n] > 0 /\ announced[n] <= service[n].version
    BY <1>2, AnnouncedFacts, ServiceAssumption DEF StoreInv
  <2>2. told[n] <= service[n].version
    BY <1>2 DEF PastBody, Past
  <2>3. /\ items[n].deleted => allData'[n] = Absent
        /\ ~items[n].deleted => allData'[n] = items[n] /\ items[n] # Absent
    BY <1>1, OfferFacts DEF Offered, Body
  <2> QED
    BY <1>3, <2>1, <2>2, <2>3
<1>8. StoreInv'
  BY <1>2, <1>7 DEF StoreInv, PastBody, Past
<1>9. ASSUME NEW n \in Node PROVE Learns(n, items[n].version)
  <2> SUFFICES ASSUME n \notin behind' PROVE Learns(n, items[n].version)
    BY DEF Learns
  <2>1. CASE told[n] >= announced[n]
    <3>1. announced'[n] = told[n]
      BY <1>3, <1>7, <2>1
    <3>2. items[n].version = service'[n].version => items[n] = service'[n]
      BY DEF PastBody, Past
    <3>3. Reflects(n)'
      BY <1>2, <1>7, <3>1, <3>2 DEF Reflects
    <3> QED
      BY <3>3 DEF Learns
  <2>2. CASE ~(told[n] >= announced[n])
    <3>1. told[n] < announced[n]
      BY <1>7, <2>2
    <3>2. n \notin behind /\ allData'[n] = allData[n]
      BY <1>1, <3>1
    <3>3. announced'[n] = announced[n]
      BY <1>3, <2>2, <1>7
    <3>4. Reflects(n) => Reflects(n)'
      BY <3>2, <3>3 DEF Reflects
    <3> QED
      BY <1>2, <3>1, <3>2, <3>3, <3>4 DEF Learns
  <2> QED
    BY <2>1, <2>2
<1>10. (\A n \in Node : announced[n] <= items[n].version) => behind' = {}
  BY <1>1, <1>2, <1>7
<1> QED
  BY <1>2, <1>5, <1>6, <1>7, <1>8, <1>9, <1>10

LEMMA OneLearned ==
  ASSUME Types, StoreInv, NamespaceInv, NEW n \in Node, NEW item \in Offer, Past(item, n),
         \/ StoreUpsert(n, item)
         \/ StoreDelete(n, item.version) /\ item.deleted,
         LearnOne(n, item.version), UNCHANGED service
  PROVE  /\ StoreShape /\ StoreInv' /\ NamespaceInv'
         /\ Learns(n, item.version)
         /\ announced'[n] >= item.version /\ announced'[n] >= announced[n]
         /\ \A m \in Node \ {n} : Same(m)
<1> DEFINE v == item.version
<1>1. /\ v \in Nat /\ v > 0 /\ v \in 1..MaxVersion /\ item # Absent /\ item.deleted \in BOOLEAN
      /\ item.deleted => Tombstone(v) = item
  BY OfferFacts
<1>2. /\ announced[n] \in Nat /\ announced[n] <= service[n].version /\ service[n].version \in Nat
      /\ allData[n] # Absent => allData[n].version \in Nat /\ allData[n].version <= announced[n]
  BY AnnouncedFacts, OfferFacts DEF StoreInv
<1>3. /\ allData \in [Node -> Offer \cup {Absent}] /\ namespaces \subseteq Kinds
      /\ behind \subseteq Node /\ initCalled \in BOOLEAN
  BY DEF Types
<1>4. \/ allData' = [allData EXCEPT ![n] = item] /\ Accepts(n, v)
      \/ allData' = allData /\ ~Accepts(n, v)
      \/ allData' = allData /\ allData[n] = Absent /\ item.deleted
  BY <1>1 DEF StoreUpsert, StoreDelete, NamespaceInv
<1>5. /\ namespaces' \subseteq Kinds /\ namespaces \subseteq namespaces'
      /\ initCalled' = initCalled /\ (Kind(n) \in namespaces' \/ allData'[n] = Absent)
  BY <1>3 DEF StoreUpsert, StoreDelete, NamespaceInv, Kind, Kinds
<1>6. /\ announced' \in [Node -> 0..MaxVersion]
      /\ announced'[n] = IF v > announced[n] THEN v ELSE announced[n]
      /\ \A m \in Node \ {n} : announced'[m] = announced[m]
  <2>1. announced' = Later([m \in {n} |-> v])
    BY DEF LearnOne
  <2> QED
    BY <1>1, <2>1, LaterFacts
<1>7. behind' = IF v >= announced[n] THEN behind \ {n}
                ELSE IF allData[n] = Absent /\ allData'[n] # Absent THEN behind \cup {n}
                ELSE behind
  BY DEF LearnOne
<1>8. v <= service[n].version /\ (v = service[n].version => item = service[n])
  BY DEF Past
<1> HIDE DEF v
<1>9. /\ allData' \in [Node -> Offer \cup {Absent}]
      /\ \A m \in Node \ {n} : allData'[m] = allData[m]
      /\ allData'[n] \in {item, allData[n]}
  BY <1>3, <1>4
<1>10. StoreShape
  BY <1>3, <1>5, <1>6, <1>7, <1>9 DEF StoreShape
<1>11. NamespaceInv'
  BY <1>5, <1>9 DEF NamespaceInv
<1>12. \A m \in Node \ {n} : Same(m)
  BY <1>6, <1>7, <1>9 DEF Same
<1>13. announced'[n] >= v /\ announced'[n] >= announced[n] /\ announced'[n] <= service[n].version
  BY <1>1, <1>2, <1>6, <1>8
<1>14. StoreInv'
  <2> SUFFICES ASSUME NEW m \in Node
               PROVE  /\ announced'[m] <= service[m].version
                      /\ allData'[m] # Absent =>
                           allData'[m].version <= announced'[m] /\ Past(allData'[m], m)
    BY DEF StoreInv, Past
  <2>1. CASE m # n
    BY <1>12, <2>1 DEF Same, StoreInv
  <2>2. CASE m = n /\ allData'[n] = item
    BY <1>13, <2>2 DEF v
  <2>3. CASE m = n /\ allData'[n] = allData[n]
    BY <1>2, <1>13, <1>6, <2>3 DEF StoreInv
  <2> QED
    BY <1>9, <2>1, <2>2, <2>3
<1>15. Learns(n, v)
  <2> SUFFICES ASSUME n \notin behind' PROVE Learns(n, v)
    BY DEF Learns
  <2>1. CASE v >= announced[n]
    <3>1. announced'[n] = v
      BY <1>1, <1>2, <1>6, <2>1
    <3>2. CASE allData'[n] = item
      BY <1>1, <3>1, <3>2 DEF Learns, Reflects, v
    <3>3. CASE allData' = allData /\ ~Accepts(n, v)
      BY <1>1, <1>2, <2>1, <3>1, <3>3 DEF Learns, Reflects, Accepts
    <3>4. CASE allData' = allData /\ allData[n] = Absent /\ item.deleted
      BY <1>8, <3>1, <3>4 DEF Learns, Reflects
    <3> QED
      BY <1>3, <1>4, <3>2, <3>3, <3>4
  <2>2. CASE ~(v >= announced[n])
    <3>1. v < announced[n] /\ announced'[n] = announced[n]
      BY <1>1, <1>2, <1>6, <2>2
    <3>2. n \notin behind /\ ~(allData[n] = Absent /\ allData'[n] # Absent)
      BY <1>7, <2>2
    <3>3. ASSUME Reflects(n) PROVE Reflects(n)'
      <4>1. CASE allData'[n] = allData[n]
        BY <3>1, <3>3, <4>1 DEF Reflects
      <4>2. CASE allData'[n] # allData[n]
        <5>1. allData[n] # Absent /\ allData[n].version < v
          BY <1>1, <1>3, <1>4, <3>2, <4>2 DEF Accepts
        <5> QED
          BY <1>1, <1>2, <3>1, <3>3, <5>1 DEF Reflects
      <4> QED
        BY <4>1, <4>2
    <3> QED
      BY <3>1, <3>2, <3>3 DEF Learns
  <2> QED
    BY <2>1, <2>2
<1> QED
  BY <1>10, <1>11, <1>12, <1>13, <1>14, <1>15 DEF v

-----------------------------------------------------------------------------
(* Steps of the environment *)

syncFacts == <<allData, namespaces, initCalled, service, etag, errors, request, announced, behind>>
sourceFacts == <<stream, connection, thrown, timer, stopped, mode, closed>>

LEMMA CloseSync == ASSUME SyncInv, Close PROVE SyncInv'
<1> USE DEF SyncInv
<1>1. /\ UNCHANGED <<syncFacts, thrown, timer, mode>> /\ closed' = TRUE
      /\ stopped' \in BOOLEAN /\ connection' \in {"connecting", "open", "closed"}
      /\ stream' \in Seq(MessageRecord)
      /\ ((connection' = "closed" /\ stream' = <<>>) \/ UNCHANGED <<connection, stream>>)
  BY EmptySeq DEF Close, Running, CloseStream, ClosePolling, sdkVars, storeVars, requestorVars,
     syncVars, serviceVars, pollVars, streamVars, syncFacts, Types
<1>2. Types'
  BY <1>1 DEF Types, syncFacts
<1>3. PastInv'
  BY <1>1 DEF PastInv, PastBody, Past, syncFacts
<1>4. ToldInv'
  BY <1>1 DEF ToldInv, OnTheWay, syncFacts
<1>5. NamespaceInv' /\ StoreInv' /\ KnownInv' /\ PollInv'
  BY <1>1 DEF NamespaceInv, StoreInv, KnownInv, PollInv, Past, Reflects, Answers, Free, syncFacts
<1> QED
  BY <1>2, <1>3, <1>4, <1>5

LEMMA IdleSync == ASSUME SyncInv, UNCHANGED <<syncFacts, sourceFacts>> PROVE SyncInv'
<1> USE DEF SyncInv, syncFacts, sourceFacts
<1>1. Types'
  BY DEF Types
<1>2. PastInv' /\ ToldInv'
  BY DEF PastInv, PastBody, Past, ToldInv, OnTheWay
<1>3. NamespaceInv' /\ StoreInv' /\ KnownInv' /\ PollInv'
  BY DEF NamespaceInv, StoreInv, KnownInv, PollInv, Past, Reflects, Answers, Free
<1> QED
  BY <1>1, <1>2, <1>3

\* What was of the past stays of the past.
LEMMA ChangedFacts ==
  ASSUME Types, NEW n \in Node, NEW deleted \in BOOLEAN, Changed(n, deleted)
  PROVE  /\ service' \in Body /\ errors' = errors
         /\ service'[n].version = service[n].version + 1
         /\ service'[n].deleted = deleted
         /\ \A m \in Node \ {n} : service'[m] = service[m]
         /\ \A m \in Node, o \in Offer : Past(o, m) => Past(o, m)'
<1>1. service \in Body /\ service[n] \in Offer /\ service[n].version < MaxVersion
  BY DEF Changed, Types, Body
<1>2. [service[n] EXCEPT !.version = @ + 1, !.deleted = deleted] \in Offer
  <2>1. service[n].version + 1 \in 1..MaxVersion
    BY <1>1, ServiceAssumption DEF Offer
  <2> QED
    BY <1>1, <2>1 DEF Offer
<1>3. service' = [service EXCEPT ![n] =
                    [service[n] EXCEPT !.version = @ + 1, !.deleted = deleted]]
  BY <1>1 DEF Changed, Body, Offer
<1>4. /\ service' \in Body
      /\ service'[n] = [service[n] EXCEPT !.version = @ + 1, !.deleted = deleted]
      /\ \A m \in Node \ {n} : service'[m] = service[m]
  BY <1>1, <1>2, <1>3 DEF Body
<1>5. service'[n].version = service[n].version + 1 /\ service'[n].deleted = deleted
  BY <1>1, <1>4 DEF Offer
<1>6. ASSUME NEW m \in Node, NEW o \in Offer, Past(o, m) PROVE Past(o, m)'
  <2>1. o.version \in Nat /\ service[m].version \in Nat
    BY <1>1, OfferFacts DEF Body
  <2>2. CASE m # n
    BY <1>4, <1>6, <2>2 DEF Past
  <2>3. CASE m = n
    BY <1>5, <1>6, <2>1, <2>3 DEF Past
  <2> QED
    BY <2>2, <2>3
<1> QED
  BY <1>4, <1>5, <1>6 DEF Changed

LEMMA ServiceSync == ASSUME SyncInv, Service PROVE SyncInv'
<1> USE DEF SyncInv
<1>0. PICK n \in Node, deleted \in BOOLEAN : Change(n, deleted)
  BY DEF Service
<1>1. Changed(n, deleted)
  BY <1>0 DEF Change
<1> DEFINE news(type) == [type |-> type, node |-> n, items |-> service']
<1>2. /\ UNCHANGED <<allData, namespaces, initCalled, etag, request, announced, behind>>
      /\ UNCHANGED <<connection, thrown, timer, stopped, mode, closed>>
  BY <1>0 DEF Service, Running, Change, sdkVars, storeVars, requestorVars, syncVars, pollVars
<1>3. \/ connection # "open" /\ stream' = stream
      \/ \E type \in {IF deleted THEN "delete" ELSE "patch", "indirect/patch"} :
           stream' = Append(stream, news(type))
  BY <1>0 DEF Change
<1>4. /\ service' \in Body /\ errors' = errors
      /\ service'[n].version = service[n].version + 1
      /\ service'[n].deleted = deleted
      /\ \A m \in Node \ {n} : service'[m] = service[m]
      /\ \A m \in Node, o \in Offer : Past(o, m) => Past(o, m)'
  BY <1>1, ChangedFacts
<1>5. ASSUME NEW type \in {IF deleted THEN "delete" ELSE "patch", "indirect/patch"}
      PROVE  news(type) \in MessageRecord
  <2>1. None # n
    BY ServiceAssumption
  <2> QED
    BY <1>4, <2>1 DEF MessageRecord
<1> HIDE DEF news
<1>6. /\ stream' \in Seq(MessageRecord) /\ Len(stream) \in Nat
      /\ \/ connection # "open" /\ stream' = stream
         \/ \E type \in {IF deleted THEN "delete" ELSE "patch", "indirect/patch"} :
              /\ Len(stream') = Len(stream) + 1
              /\ stream'[Len(stream) + 1] = news(type)
              /\ \A i \in 1..Len(stream) : stream'[i] = stream[i]
  <2>1. stream \in Seq(MessageRecord)
    BY DEF Types
  <2>2. Len(stream) \in Nat
    BY <2>1, LenProperties
  <2>3. ASSUME NEW type \in {IF deleted THEN "delete" ELSE "patch", "indirect/patch"},
               stream' = Append(stream, news(type))
        PROVE  /\ stream' \in Seq(MessageRecord)
               /\ Len(stream') = Len(stream) + 1
               /\ stream'[Len(stream) + 1] = news(type)
               /\ \A i \in 1..Len(stream) : stream'[i] = stream[i]
    BY <1>5, <2>1, <2>3, AppendProperties
  <2> QED
    BY <1>3, <2>1, <2>2, <2>3
<1>7. DOMAIN stream = 1..Len(stream) /\ DOMAIN stream' = 1..Len(stream')
  BY <1>6, LenProperties DEF Types
<1>8. Types'
  BY <1>2, <1>4, <1>6 DEF Types
<1>9. \A items \in Body : PastBody(items) => PastBody(items)'
  BY <1>4 DEF PastBody, Body
<1>10. \A i \in 1..Len(stream) : stream[i].items \in Body
  BY <1>7, ElementOfSeq DEF Types, MessageRecord
<1>11. ASSUME NEW i \in 1..Len(stream'), NEW items, items = stream'[i].items
       PROVE  PastBody(items)'
  <2>1. CASE i \in 1..Len(stream)
    <3>1. stream'[i] = stream[i] /\ PastBody(items)
      BY <1>6, <1>7, <1>11, <2>1, Zenon DEF PastInv
    <3> QED
      BY <1>9, <1>10, <1>11, <2>1, <3>1, SMTT(30)
  <2>2. CASE i \notin 1..Len(stream)
    <3>1. items = service'
      BY <1>6, <1>11, <2>2 DEF news
    <3>2. \A m \in Node : service'[m].version \in Nat
      BY <1>4, OfferFacts DEF Body
    <3> QED
      BY <3>1, <3>2 DEF PastBody, Past
  <2> QED
    BY <2>1, <2>2
<1>12. \A s \in Slot : request[s].stage = "body" => request[s].answer \in Body
  BY DEF Types, RequestRecord
<1>13. PastInv'
  BY <1>2, <1>7, <1>9, <1>11, <1>12 DEF PastInv
<1>14. NamespaceInv'
  BY <1>2 DEF NamespaceInv
<1>15. \A m \in Node : /\ announced[m] \in Nat /\ service[m].version \in Nat
                       /\ allData[m] \in Offer \cup {Absent}
                       /\ announced[m] <= service[m].version
                       /\ service'[m].version >= service[m].version
  <2> SUFFICES ASSUME NEW m \in Node
               PROVE  /\ announced[m] \in Nat /\ service[m].version \in Nat
                      /\ allData[m] \in Offer \cup {Absent}
                      /\ announced[m] <= service[m].version
                      /\ service'[m].version >= service[m].version
    OBVIOUS
  <2>1. /\ announced[m] \in Nat /\ service[m].version \in Nat
        /\ allData[m] \in Offer \cup {Absent}
    BY AnnouncedFacts, OfferFacts
  <2> QED
    BY <1>4, <2>1 DEF StoreInv
<1>16. StoreInv'
  <2> SUFFICES ASSUME NEW m \in Node
               PROVE  /\ announced[m] <= service'[m].version
                      /\ allData[m] # Absent =>
                           allData[m].version <= announced[m] /\ Past(allData[m], m)'
    BY <1>2 DEF StoreInv, Past
  <2>1. announced[m] <= service'[m].version
    BY <1>4, <1>15
  <2>2. allData[m] # Absent => allData[m].version <= announced[m] /\ Past(allData[m], m)
    BY DEF StoreInv
  <2> SUFFICES ASSUME allData[m] # Absent PROVE Past(allData[m], m)'
    BY <2>1, <2>2
  <2>3. PICK o \in Offer : o = allData[m]
    BY <1>15
  <2>4. Past(o, m)'
    BY <1>4, <2>2, <2>3
  <2> QED
    BY <1>2, <2>3, <2>4 DEF Past
<1>17. ToldInv'
  <2> SUFFICES ASSUME connection = "open", NEW m \in Node
               PROVE  announced[m] = service'[m].version \/ OnTheWay(m)'
    BY <1>2 DEF ToldInv
  <2>1. CASE m = n
    <3>1. OnTheWay(n)'
      <4>1. PICK type : stream'[Len(stream) + 1] = news(type) /\ Len(stream') = Len(stream) + 1
        BY <1>6
      <4>2. Len(stream) + 1 \in DOMAIN stream'
        BY <1>6, <1>7, <4>1
      <4>3. /\ Speaks(stream'[Len(stream) + 1], n)
            /\ stream'[Len(stream) + 1].items[n].version = service'[n].version
        BY <4>1 DEF Speaks, news
      <4> QED
        BY <4>2, <4>3 DEF OnTheWay, Speaks
    <3> QED
      BY <2>1, <3>1
  <2>2. CASE m # n /\ announced[m] = service[m].version
    BY <1>4, <2>2
  <2>3. CASE m # n /\ OnTheWay(m)
    <3>1. PICK i \in 1..Len(stream) :
            Speaks(stream[i], m) /\ stream[i].items[m].version = service[m].version
      BY <1>7, <2>3 DEF OnTheWay
    <3>2. i \in 1..Len(stream') /\ stream'[i] = stream[i]
      BY <1>6
    <3> QED
      BY <1>4, <1>7, <2>3, <3>1, <3>2 DEF OnTheWay, Speaks
  <2> QED
    BY <2>1, <2>2, <2>3 DEF ToldInv
<1>18. KnownInv'
  <2> SUFFICES ASSUME mode = "stream", ~thrown, NEW m \in Node \ behind
               PROVE  Reflects(m)' \/ \E s \in Slot : Answers(s, m)'
    BY <1>2 DEF KnownInv
  <2>1. CASE Reflects(m)
    <3>1. announced[m] = service'[m].version => announced[m] = service[m].version /\ m # n
      BY <1>4, <1>15
    <3> QED
      BY <1>2, <1>4, <2>1, <3>1 DEF Reflects
  <2>2. CASE \E s \in Slot : Answers(s, m)
    BY <1>2, <2>2 DEF Answers
  <2> QED
    BY <2>1, <2>2 DEF KnownInv
<1>19. PollInv'
  BY <1>2 DEF PollInv, Free
<1> QED
  BY <1>8, <1>13, <1>14, <1>16, <1>17, <1>18, <1>19

LEMMA NetworkEffect ==
  ASSUME Types, NEW s \in Slot, ServiceAnswers(s) \/ ServiceFails(s)
  PROVE  /\ request[s].stage = "sent" /\ request' \in [Slot -> RequestRecord]
         /\ \A t \in Slot \ {s} : request'[t] = request[t]
         /\ request'[s].op = request[s].op
         /\ request'[s].stage \in {"body", "unchanged", "failed", "refused"}
         /\ request'[s].stage = "body" => request'[s].answer = service
         /\ service' = service /\ etag' = etag /\ errors' \in 0..MaxErrors
<1>1. request \in [Slot -> RequestRecord] /\ request[s] \in RequestRecord /\ service \in Body
  BY DEF Types
<1>2. request[s].stage = "sent" /\ service' = service /\ etag' = etag
  BY DEF ServiceAnswers, ServiceFails, Fails, serviceVars
<1>3. errors' \in 0..MaxErrors
  <2>1. errors \in 0..MaxErrors /\ MaxErrors \in Nat
    BY ServiceAssumption DEF Types
  <2>2. errors' = errors \/ (errors < MaxErrors /\ errors' = errors + 1)
    <3>1. CASE ServiceAnswers(s)
      <4>1. UNCHANGED serviceVars
        BY <3>1, Zenon DEF ServiceAnswers
      <4> QED
        BY <4>1 DEF serviceVars
    <3>2. CASE ServiceFails(s)
      BY <3>2 DEF ServiceFails, Fails
    <3> QED
      BY <3>1, <3>2
  <2> QED
    BY <2>1, <2>2
<1>4. \E stage \in {"body", "unchanged", "failed", "refused"}, answer \in {service, None} :
        /\ Answered(s, stage, answer)
        /\ stage = "body" => answer = service
        /\ stage = "unchanged" => request[s].op = "all"
  <2>1. CASE ServiceFails(s)
    BY <2>1 DEF ServiceFails
  <2>2. CASE ServiceAnswers(s) /\ request[s].op # "all"
    BY <2>2 DEF ServiceAnswers
  <2>3. CASE ServiceAnswers(s) /\ request[s].op = "all"
    BY <2>3 DEF ServiceAnswers
  <2> QED
    BY <2>1, <2>2, <2>3
<1>5. PICK stage \in {"body", "unchanged", "failed", "refused"}, answer \in {service, None} :
        /\ Answered(s, stage, answer)
        /\ stage = "body" => answer = service
        /\ stage = "unchanged" => request[s].op = "all"
  BY <1>4
<1> DEFINE r == [request[s] EXCEPT !.stage = stage, !.answer = answer]
<1>6. r.op = request[s].op /\ r.stage = stage /\ r.answer = answer
  BY <1>1 DEF RequestRecord
<1>7. r \in RequestRecord
  BY <1>1, <1>2, <1>5 DEF RequestRecord
<1>8. request' = [request EXCEPT ![s] = r]
  BY <1>1, <1>5 DEF Answered, RequestRecord
<1> HIDE DEF r
<1>9. /\ request' \in [Slot -> RequestRecord] /\ request'[s] = r
      /\ \A t \in Slot \ {s} : request'[t] = request[t]
  BY <1>1, <1>7, <1>8
<1> QED
  BY <1>2, <1>3, <1>5, <1>6, <1>9

LEMMA NetworkSync ==
  ASSUME SyncInv, NEW s \in Slot, Network(ServiceAnswers(s)) \/ Network(ServiceFails(s))
  PROVE  SyncInv'
<1> USE DEF SyncInv
<1>1. /\ ServiceAnswers(s) \/ ServiceFails(s)
      /\ UNCHANGED <<allData, namespaces, initCalled, announced, behind>>
      /\ UNCHANGED sourceFacts
  BY DEF Network, Running, storeVars, syncVars, sourceVars, streamVars, pollVars, sourceFacts
<1>2. /\ request[s].stage = "sent" /\ request' \in [Slot -> RequestRecord]
      /\ \A t \in Slot \ {s} : request'[t] = request[t]
      /\ request'[s].op = request[s].op
      /\ request'[s].stage \in {"body", "unchanged", "failed", "refused"}
      /\ request'[s].stage = "body" => request'[s].answer = service
      /\ service' = service /\ etag' = etag /\ errors' \in 0..MaxErrors
  BY <1>1, NetworkEffect
<1>3. Types'
  BY <1>1, <1>2 DEF Types, sourceFacts
<1>4. \A n \in Node : /\ announced[n] <= service[n].version
                      /\ announced[n] \in Nat /\ service[n].version \in Nat
  BY AnnouncedFacts, OfferFacts DEF StoreInv
<1>5. \A items : PastBody(items)' <=> PastBody(items)
  BY <1>2 DEF PastBody, Past
<1>6. PastBody(service)
  BY <1>4 DEF PastBody, Past
<1>7. PastInv'
  <2>1. \A i \in DOMAIN stream' : \A items : items = stream'[i].items => PastBody(items)
    BY <1>1 DEF PastInv, sourceFacts
  <2>2. ASSUME NEW t \in Slot, request'[t].stage = "body", NEW items, items = request'[t].answer
        PROVE  PastBody(items)
    <3>1. CASE t = s
      BY <1>2, <1>6, <2>2, <3>1
    <3>2. CASE t # s
      BY <1>2, <2>2, <3>2 DEF PastInv
    <3> QED
      BY <3>1, <3>2
  <2> QED
    BY <1>5, <2>1, <2>2 DEF PastInv
<1>8. NamespaceInv' /\ StoreInv'
  BY <1>1, <1>2 DEF NamespaceInv, StoreInv, Past
<1>9. ToldInv'
  BY <1>1, <1>2 DEF ToldInv, OnTheWay, sourceFacts
<1>10. KnownInv'
  <2> SUFFICES ASSUME mode = "stream", ~thrown, NEW n \in Node \ behind
               PROVE  Reflects(n)' \/ \E t \in Slot : Answers(t, n)'
    BY <1>1 DEF KnownInv, sourceFacts
  <2>1. Reflects(n)' <=> Reflects(n)
    BY <1>1, <1>2 DEF Reflects
  <2>2. ASSUME NEW t \in Slot, Answers(t, n) PROVE Answers(t, n)'
    <3>1. CASE t # s
      BY <1>1, <1>2, <2>2, <3>1 DEF Answers
    <3>2. CASE t = s
      BY <1>1, <1>2, <1>4, <2>2, <3>2 DEF Answers
    <3> QED
      BY <3>1, <3>2
  <2> QED
    BY <2>1, <2>2 DEF KnownInv
<1>11. PollInv'
  <2>1. Free' = Free
    BY <1>2 DEF Free
  <2>2. ASSUME mode = "poll", NEW t \in Slot, request'[t].stage = "body", NEW n \in Node
        PROVE  announced[n] <= request'[t].answer[n].version
    <3>1. CASE t = s
      BY <1>2, <1>4, <2>2, <3>1
    <3>2. CASE t # s
      BY <1>2, <2>2, <3>2 DEF PollInv
    <3> QED
      BY <3>1, <3>2
  <2> QED
    BY <1>1, <2>1, <2>2 DEF PollInv, sourceFacts
<1> QED
  BY <1>3, <1>7, <1>8, <1>9, <1>10, <1>11

-----------------------------------------------------------------------------
(* The connection *)

LEMMA LinkSync ==
  ASSUME SyncInv,
         Streaming(Connect) \/ Streaming(Disconnect) \/ Streaming(ConnectionRefused)
  PROVE  SyncInv'
<1> USE DEF SyncInv
<1>1. /\ UNCHANGED <<allData, namespaces, initCalled, service, etag, request, announced, behind>>
      /\ UNCHANGED <<thrown, timer, stopped, mode, closed>>
  BY DEF Streaming, Running, Connect, Disconnect, ConnectionRefused, Fails, sdkVars, storeVars,
     requestorVars, syncVars, serviceVars, pollVars
<1>2. errors' \in 0..MaxErrors /\ connection' \in {"open", "connecting", "closed"}
  BY ServiceAssumption DEF Streaming, Connect, Disconnect, ConnectionRefused, Fails,
     serviceVars, Types
<1>3. \/ UNCHANGED stream /\ connection' = "closed"
      \/ stream' = <<>> /\ connection' = "connecting"
      \/ \E type \in {"put", "indirect/put"} : stream' = <<Message(type, None)>>
  BY DEF Streaming, Connect, Disconnect, ConnectionRefused
<1>4. \A type \in {"put", "indirect/put"} : Message(type, None) \in MessageRecord
  BY DEF Message, MessageRecord, Types
<1>5. stream' \in Seq(MessageRecord)
  <2>1. \A m \in MessageRecord : <<m>> \in Seq(MessageRecord)
    OBVIOUS
  <2>2. stream \in Seq(MessageRecord) /\ <<>> \in Seq(MessageRecord)
    BY EmptySeq DEF Types
  <2> QED
    BY <1>3, <1>4, <2>1, <2>2
<1>6. Types'
  BY <1>1, <1>2, <1>5 DEF Types
<1>7. \A n \in Node : service[n].version \in Nat
  BY AnnouncedFacts, OfferFacts
<1>8. PastBody(service)
  BY <1>7 DEF PastBody, Past
<1>9. PastInv'
  <2>1. ASSUME NEW i \in DOMAIN stream', NEW items, items = stream'[i].items
        PROVE  PastBody(items)
    BY <1>3, <1>8, <2>1 DEF PastInv, Message
  <2> QED
    BY <1>1, <2>1 DEF PastInv, PastBody, Past
<1>10. NamespaceInv' /\ StoreInv' /\ KnownInv' /\ PollInv'
  BY <1>1 DEF NamespaceInv, StoreInv, KnownInv, PollInv, Past, Reflects, Answers, Free
<1>11. ToldInv'
  <2> SUFFICES ASSUME connection' = "open", NEW n \in Node PROVE OnTheWay(n)'
    BY DEF ToldInv
  <2>1. PICK type \in {"put", "indirect/put"} : stream' = <<Message(type, None)>>
    BY <1>3
  <2>2. 1 \in DOMAIN stream' /\ stream'[1] = Message(type, None)
    BY <2>1
  <2> QED
    BY <1>1, <2>2 DEF OnTheWay, Speaks, Message
<1> QED
  BY <1>6, <1>9, <1>10, <1>11

-----------------------------------------------------------------------------
(* The messages of the stream *)

LEMMA AskFacts ==
  ASSUME Types, NEW s \in Slot, NEW op \in {"all"} \cup Node, NEW known \in Body \cup {None},
         Ask(s, op, known)
  PROVE  /\ request' \in [Slot -> RequestRecord]
         /\ request'[s].stage = "sent" /\ request'[s].op = op
         /\ \A t \in Slot \ {s} : request'[t] = request[t]
<1> DEFINE r == [op |-> op, known |-> known, stage |-> "sent", answer |-> None]
<1>1. r \in RequestRecord
  BY ServiceAssumption DEF RequestRecord
<1>2. request \in [Slot -> RequestRecord] /\ request' = [request EXCEPT ![s] = r]
  BY DEF Types, Ask
<1> QED
  BY <1>1, <1>2

LEMMA TailFacts ==
  ASSUME Types, stream # <<>>, stream' = Tail(stream)
  PROVE  /\ Head(stream) \in MessageRecord /\ stream' \in Seq(MessageRecord)
         /\ 1 \in DOMAIN stream /\ Head(stream) = stream[1]
         /\ \A i \in DOMAIN stream' : i + 1 \in DOMAIN stream /\ stream'[i] = stream[i + 1]
         /\ \A j \in DOMAIN stream :
              stream[j] = Head(stream) \/ \E i \in DOMAIN stream' : stream'[i] = stream[j]
<1>1. stream \in Seq(MessageRecord)
  BY DEF Types
<1>2. /\ Head(stream) \in MessageRecord /\ Tail(stream) \in Seq(MessageRecord)
      /\ Head(stream) = stream[1] /\ Len(Tail(stream)) = Len(stream) - 1
      /\ \A i \in 1..Len(Tail(stream)) : Tail(stream)[i] = stream[i + 1]
      /\ Len(stream) \in Nat /\ Len(stream) > 0
      /\ DOMAIN stream = 1..Len(stream) /\ DOMAIN Tail(stream) = 1..Len(Tail(stream))
  BY <1>1, HeadTailProperties, LenProperties, EmptySeq
<1>3. ASSUME NEW j \in 1..Len(stream), j # 1
      PROVE  \E i \in DOMAIN stream' : stream'[i] = stream[j]
  <2>1. j - 1 \in 1..Len(Tail(stream)) /\ (j - 1) + 1 = j
    BY <1>2, <1>3
  <2>2. Tail(stream)[j - 1] = stream[j]
    BY <1>2, <2>1
  <2> QED
    BY <1>2, <2>1, <2>2
<1>4. \A i \in DOMAIN stream' : i + 1 \in DOMAIN stream /\ stream'[i] = stream[i + 1]
  BY <1>2
<1>5. \A j \in DOMAIN stream :
        stream[j] = Head(stream) \/ \E i \in DOMAIN stream' : stream'[i] = stream[j]
  BY <1>2, <1>3
<1> QED
  BY <1>2, <1>4, <1>5

\* A message is told of, and the others are still on their way.
LEMMA StreamMoves ==
  ASSUME SyncInv, stream # <<>>, stream' = Tail(stream), UNCHANGED <<service, connection>>,
         \A n \in Node : /\ announced'[n] \in Nat /\ announced'[n] >= announced[n]
                         /\ announced'[n] <= service[n].version
                         /\ Speaks(Head(stream), n) =>
                              announced'[n] >= Head(stream).items[n].version
  PROVE  /\ ToldInv'
         /\ \A i \in DOMAIN stream' : \A items : items = stream'[i].items => PastBody(items)
<1>1. /\ Head(stream) = stream[1] /\ 1 \in DOMAIN stream
      /\ \A i \in DOMAIN stream' : i + 1 \in DOMAIN stream /\ stream'[i] = stream[i + 1]
      /\ \A j \in DOMAIN stream :
           stream[j] = Head(stream) \/ \E i \in DOMAIN stream' : stream'[i] = stream[j]
  BY TailFacts DEF SyncInv
<1>2. \A i \in DOMAIN stream' : \A items : items = stream'[i].items => PastBody(items)
  BY <1>1 DEF SyncInv, PastInv
<1>3. ToldInv'
  <2> SUFFICES ASSUME connection = "open", NEW n \in Node
               PROVE  announced'[n] = service[n].version \/ OnTheWay(n)'
    BY DEF ToldInv
  <2>1. announced[n] \in Nat /\ service[n].version \in Nat /\ announced'[n] \in Nat
    BY AnnouncedFacts, OfferFacts DEF SyncInv
  <2>2. CASE announced[n] = service[n].version
    BY <2>1, <2>2
  <2>3. CASE OnTheWay(n)
    <3>1. PICK j \in DOMAIN stream :
            Speaks(stream[j], n) /\ stream[j].items[n].version = service[n].version
      BY <2>3 DEF OnTheWay
    <3>2. CASE stream[j] = Head(stream)
      BY <2>1, <3>1, <3>2
    <3>3. CASE \E i \in DOMAIN stream' : stream'[i] = stream[j]
      BY <3>1, <3>3 DEF OnTheWay, Speaks
    <3> QED
      BY <1>1, <3>2, <3>3
  <2> QED
    BY <2>2, <2>3 DEF SyncInv, ToldInv
<1> QED
  BY <1>2, <1>3

\* Nodes the store learns of or not, while the requests stay as they are.
Progresses(n) ==
  n \notin behind' =>
    Reflects(n)' \/ (n \notin behind /\ ~Reflects(n) /\ announced'[n] = announced[n])

LEMMA SameProgresses ==
  ASSUME NEW n \in Node, Same(n), UNCHANGED service PROVE Progresses(n)
  BY DEF Same, Progresses, Reflects

LEMMA LearnsProgresses == ASSUME NEW n \in Node, NEW v, Learns(n, v) PROVE Progresses(n)
  BY DEF Learns, Progresses

LEMMA KnownMoves ==
  ASSUME SyncInv, mode = "stream", ~thrown, UNCHANGED request, \A n \in Node : Progresses(n)
  PROVE  KnownInv'
<1> SUFFICES ASSUME NEW n \in Node, n \notin behind', ~Reflects(n)'
             PROVE  \E s \in Slot : Answers(s, n)'
  BY DEF KnownInv
<1>1. n \notin behind /\ ~Reflects(n) /\ announced'[n] = announced[n]
  BY DEF Progresses
<1>2. \E s \in Slot : Answers(s, n)
  BY <1>1 DEF SyncInv, KnownInv
<1> QED
  BY <1>1, <1>2 DEF Answers

\* What all deliveries have in common.
LEMMA DeliveryFacts ==
  ASSUME SyncInv, connection = "open", stream # <<>>, stream' = Tail(stream)
  PROVE  /\ Head(stream) \in MessageRecord /\ Head(stream).items \in Body
         /\ PastBody(Head(stream).items)
         /\ \A n \in Node : /\ announced[n] \in Nat /\ announced[n] <= service[n].version
                            /\ service[n].version \in Nat
                            /\ Head(stream).items[n] \in Offer
                            /\ Head(stream).items[n].version \in Nat
                            /\ Head(stream).items[n].version \in 1..MaxVersion
                            /\ Head(stream).items[n].version <= service[n].version
<1>1. Head(stream) \in MessageRecord /\ Head(stream) = stream[1] /\ 1 \in DOMAIN stream
  BY TailFacts DEF SyncInv
<1>2. Head(stream).items \in Body
  BY <1>1 DEF MessageRecord
<1>3. PastBody(Head(stream).items)
  BY <1>1 DEF SyncInv, PastInv
<1>4. ASSUME NEW n \in Node
      PROVE  /\ announced[n] \in Nat /\ announced[n] <= service[n].version
             /\ service[n].version \in Nat /\ Head(stream).items[n] \in Offer
    BY <1>2, AnnouncedFacts, OfferFacts DEF SyncInv, StoreInv, Body
<1>5. ASSUME NEW n \in Node
      PROVE  /\ Head(stream).items[n].version \in Nat
             /\ Head(stream).items[n].version \in 1..MaxVersion
             /\ Head(stream).items[n].version <= service[n].version
    BY <1>3, <1>4, OfferFacts DEF PastBody, Past
<1> QED
  BY <1>1, <1>2, <1>3, <1>4, <1>5

LEMMA ReplacedSync ==
  ASSUME SyncInv, mode = "stream", ~thrown, UNCHANGED <<mode, timer, stopped, closed>>,
         Deliver, Put(Head(stream))
  PROVE  SyncInv'
<1> DEFINE message == Head(stream)
<1>1. /\ connection = "open" /\ stream # <<>> /\ stream' = Tail(stream)
      /\ UNCHANGED <<service, errors, connection, thrown, request, etag>>
  BY DEF Deliver, Put, serviceVars, requestorVars
<1>2. message \in MessageRecord /\ message.items \in Body /\ PastBody(message.items)
  BY <1>1, DeliveryFacts
<1>3. message.node = None
  BY <1>2 DEF Put, MessageRecord
<1>4. Told(message) = Versions(message.items)
  BY <1>3 DEF Told
<1>5. Replace(DataOf(message.items)) /\ LearnAll(Versions(message.items))
  BY <1>4 DEF Put
<1>6. PICK items \in Body : items = message.items
  BY <1>2
<1>7. /\ StoreShape /\ StoreInv' /\ NamespaceInv'
      /\ \A n \in Node : /\ Learns(n, items[n].version)
                         /\ announced'[n] >= items[n].version /\ announced'[n] >= announced[n]
  BY <1>1, <1>2, <1>5, <1>6, AllLearned DEF SyncInv
<1>8. stream' \in Seq(MessageRecord)
  BY <1>1, TailFacts DEF SyncInv
<1>9. Types'
  BY <1>1, <1>7, <1>8 DEF SyncInv, Types, StoreShape
<1>10. \A n \in Node : /\ announced'[n] \in Nat /\ announced'[n] >= announced[n]
                       /\ announced'[n] <= service[n].version
                       /\ Speaks(Head(stream), n) =>
                            announced'[n] >= Head(stream).items[n].version
  BY <1>1, <1>6, <1>7, <1>9, AnnouncedFacts, ServiceAssumption DEF StoreInv, Types
<1>11. ToldInv' /\ \A i \in DOMAIN stream' : \A b : b = stream'[i].items => PastBody(b)
  BY <1>1, <1>10, StreamMoves
<1>12. PastInv'
  BY <1>1, <1>11 DEF SyncInv, PastInv, PastBody, Past
<1>13. KnownInv'
  BY <1>1, <1>7, LearnsProgresses, KnownMoves
<1>14. PollInv'
  BY DEF PollInv
<1> QED
  BY <1>7, <1>9, <1>11, <1>12, <1>13, <1>14 DEF SyncInv

LEMMA PatchedSync ==
  ASSUME SyncInv, mode = "stream", ~thrown, UNCHANGED <<mode, timer, stopped, closed>>,
         Deliver, Patch(Head(stream)) \/ Delete(Head(stream))
  PROVE  SyncInv'
<1>1. /\ connection = "open" /\ stream # <<>> /\ stream' = Tail(stream)
      /\ UNCHANGED <<service, errors, connection, thrown, request, etag>>
  BY DEF Deliver, Patch, Delete, serviceVars, requestorVars
<1>2. /\ Head(stream) \in MessageRecord /\ Head(stream).items \in Body
      /\ PastBody(Head(stream).items)
  BY <1>1, DeliveryFacts
<1>3. PICK n \in Node : n = Head(stream).node
  BY <1>2 DEF Patch, Delete, MessageRecord
<1>4. PICK item \in Offer : item = Head(stream).items[n]
  BY <1>2 DEF Body
<1>5. Past(item, n)
  BY <1>2, <1>4 DEF PastBody
<1>6. /\ \/ StoreUpsert(n, item)
         \/ StoreDelete(n, item.version) /\ item.deleted
      /\ LearnOne(n, item.version)
  BY <1>2, <1>3, <1>4 DEF Patch, Delete, MessageRecord
<1>7. /\ StoreShape /\ StoreInv' /\ NamespaceInv'
      /\ Learns(n, item.version)
      /\ announced'[n] >= item.version /\ announced'[n] >= announced[n]
      /\ \A m \in Node \ {n} : Same(m)
  BY <1>1, <1>5, <1>6, OneLearned DEF SyncInv
<1>8. stream' \in Seq(MessageRecord)
  BY <1>1, TailFacts DEF SyncInv
<1>9. Types'
  BY <1>1, <1>7, <1>8 DEF SyncInv, Types, StoreShape
<1>10. ASSUME NEW m \in Node
       PROVE  /\ announced'[m] \in Nat /\ announced'[m] >= announced[m]
              /\ announced'[m] <= service[m].version
              /\ Speaks(Head(stream), m) =>
                   announced'[m] >= Head(stream).items[m].version
  <2>1. announced[m] \in Nat /\ announced[m] <= service[m].version
    BY <1>1, DeliveryFacts
  <2>2. CASE m = n
    BY <1>1, <1>4, <1>7, <1>9, <2>2, ServiceAssumption DEF StoreInv, Types
  <2>3. CASE m # n
    <3>1. ~Speaks(Head(stream), m)
      BY <1>3, <2>3, ServiceAssumption DEF Speaks
    <3> QED
      BY <1>7, <2>1, <2>3, <3>1 DEF Same
  <2> QED
    BY <2>2, <2>3
<1>11. ToldInv' /\ \A i \in DOMAIN stream' : \A b : b = stream'[i].items => PastBody(b)
  BY <1>1, <1>10, StreamMoves
<1>12. PastInv'
  BY <1>1, <1>11 DEF SyncInv, PastInv, PastBody, Past
<1>13. \A m \in Node : Progresses(m)
  BY <1>1, <1>7, LearnsProgresses, SameProgresses
<1>14. KnownInv'
  BY <1>1, <1>13, KnownMoves
<1>15. PollInv'
  BY DEF PollInv
<1> QED
  BY <1>7, <1>9, <1>11, <1>12, <1>14, <1>15 DEF SyncInv

\* A message that gives the store nothing is only spoken of.
LEMMA SpokenFacts ==
  ASSUME SyncInv, connection = "open", stream # <<>>, stream' = Tail(stream),
         announced' = Later(Told(Head(stream)))
  PROVE  /\ announced' \in [Node -> 0..MaxVersion]
         /\ \A n \in Node : /\ announced'[n] \in Nat /\ announced'[n] >= announced[n]
                            /\ announced'[n] <= service[n].version
                            /\ Speaks(Head(stream), n) =>
                                 announced'[n] >= Head(stream).items[n].version
                            /\ ~Speaks(Head(stream), n) => announced'[n] = announced[n]
<1> DEFINE told == Told(Head(stream))
<1>1. /\ DOMAIN told = {n \in Node : Speaks(Head(stream), n)}
      /\ \A n \in Node : Speaks(Head(stream), n) => told[n] = Head(stream).items[n].version
  BY DeliveryFacts, ToldFacts
<1> HIDE DEF told
<1>2. announced' = Later(told)
  BY DEF told
<1>3. /\ \A n \in Node \ DOMAIN told : announced'[n] = announced[n]
      /\ \A n \in Node \cap DOMAIN told :
           announced'[n] = IF told[n] > announced[n] THEN told[n] ELSE announced[n]
      /\ (\A n \in Node \cap DOMAIN told : told[n] \in 1..MaxVersion) =>
           announced' \in [Node -> 0..MaxVersion]
  BY <1>2, LaterFacts DEF SyncInv
<1>4. announced' \in [Node -> 0..MaxVersion]
  BY <1>1, <1>3, DeliveryFacts
<1>5. ASSUME NEW n \in Node
      PROVE  /\ announced'[n] \in Nat /\ announced'[n] >= announced[n]
             /\ announced'[n] <= service[n].version
             /\ Speaks(Head(stream), n) =>
                  announced'[n] >= Head(stream).items[n].version
             /\ ~Speaks(Head(stream), n) => announced'[n] = announced[n]
  <2>1. /\ announced[n] \in Nat /\ announced[n] <= service[n].version
        /\ service[n].version \in Nat /\ Head(stream).items[n].version \in Nat
        /\ Head(stream).items[n].version <= service[n].version
    BY DeliveryFacts
  <2> QED
    BY <1>1, <1>3, <2>1
<1> QED
  BY <1>4, <1>5

\* The store is told nothing: a request was made, or nodes are known to be behind.
LEMMA SpokenSync ==
  ASSUME SyncInv, mode = "stream", UNCHANGED <<mode, timer, stopped, closed, thrown>>,
         connection = "open", stream # <<>>, stream' = Tail(stream),
         announced' = Later(Told(Head(stream))),
         UNCHANGED <<allData, namespaces, initCalled, service, etag, connection>>,
         errors' \in 0..MaxErrors, request' \in [Slot -> RequestRecord], behind' \subseteq Node,
         \A s \in Slot : request'[s] = request[s] \/ request'[s].stage = "sent",
         KnownInv'
  PROVE  SyncInv'
<1>1. /\ announced' \in [Node -> 0..MaxVersion]
      /\ \A n \in Node : /\ announced'[n] \in Nat /\ announced'[n] >= announced[n]
                         /\ announced'[n] <= service[n].version
                         /\ Speaks(Head(stream), n) =>
                              announced'[n] >= Head(stream).items[n].version
  BY SpokenFacts
<1>2. stream' \in Seq(MessageRecord)
  BY TailFacts DEF SyncInv
<1>3. Types'
  BY <1>1, <1>2 DEF SyncInv, Types
<1>4. ToldInv' /\ \A i \in DOMAIN stream' : \A b : b = stream'[i].items => PastBody(b)
  BY <1>1, StreamMoves
<1>5. PastInv'
  <2>1. ASSUME NEW s \in Slot, request'[s].stage = "body", NEW b, b = request'[s].answer
        PROVE  PastBody(b)
    BY <2>1 DEF SyncInv, PastInv
  <2> QED
    BY <1>4, <2>1 DEF PastInv, PastBody, Past
<1>6. NamespaceInv'
  BY DEF SyncInv, NamespaceInv
<1>7. StoreInv'
  <2> SUFFICES ASSUME NEW n \in Node
               PROVE  /\ announced'[n] <= service[n].version
                      /\ allData[n] # Absent =>
                           allData[n].version <= announced'[n] /\ Past(allData[n], n)
    BY DEF StoreInv, Past
  <2>1. allData[n] # Absent =>
          /\ allData[n].version <= announced[n] /\ Past(allData[n], n)
          /\ allData[n].version \in Nat
    BY AnnouncedFacts, OfferFacts DEF SyncInv, StoreInv
  <2>2. announced[n] \in Nat
    BY AnnouncedFacts DEF SyncInv
  <2> QED
    BY <1>1, <2>1, <2>2
<1>8. PollInv'
  BY DEF PollInv
<1> QED
  BY <1>3, <1>4, <1>5, <1>6, <1>7, <1>8 DEF SyncInv

LEMMA IndirectSync ==
  ASSUME SyncInv, mode = "stream", ~thrown, UNCHANGED <<mode, timer, stopped, closed>>,
         Deliver, IndirectPut(Head(stream)) \/ IndirectPatch(Head(stream))
  PROVE  SyncInv'
<1>1. /\ connection = "open" /\ stream # <<>> /\ stream' = Tail(stream)
      /\ UNCHANGED <<service, errors, connection, thrown, etag>>
      /\ UNCHANGED <<allData, namespaces, initCalled, behind>>
      /\ announced' = Later(Told(Head(stream)))
  BY DEF Deliver, IndirectPut, IndirectPatch, RequestAllData, RequestObject, serviceVars, storeVars
<1>2. Head(stream) \in MessageRecord
  BY <1>1, DeliveryFacts
<1>3. \A n \in Node : ~Speaks(Head(stream), n) => announced'[n] = announced[n]
  BY <1>1, SpokenFacts
<1>4. \E s \in Free, op \in {"all"} \cup Node, known \in Body \cup {None} :
        /\ Ask(s, op, known)
        /\ \A n \in Node : Speaks(Head(stream), n) => op \in {"all", n}
  <2>1. CASE IndirectPut(Head(stream))
    BY <2>1 DEF IndirectPut, RequestAllData, SyncInv, Types
  <2>2. CASE IndirectPatch(Head(stream))
    <3>1. Head(stream).node \in Node
      BY <1>2, <2>2 DEF IndirectPatch, MessageRecord
    <3>2. \A n \in Node : Speaks(Head(stream), n) => Head(stream).node = n
      BY <3>1, ServiceAssumption DEF Speaks
    <3> QED
      BY <2>2, <3>1, <3>2 DEF IndirectPatch, RequestObject
  <2> QED
    BY <2>1, <2>2
<1>5. PICK s \in Free, op \in {"all"} \cup Node, known \in Body \cup {None} :
        /\ Ask(s, op, known)
        /\ \A n \in Node : Speaks(Head(stream), n) => op \in {"all", n}
  BY <1>4
<1>6. s \in Slot /\ request[s].stage = "free"
  BY DEF Free
<1>7. /\ request' \in [Slot -> RequestRecord]
      /\ request'[s].stage = "sent" /\ request'[s].op = op
      /\ \A t \in Slot \ {s} : request'[t] = request[t]
  BY <1>5, <1>6, AskFacts DEF SyncInv
<1>8. KnownInv'
  <2> SUFFICES ASSUME NEW n \in Node \ behind
               PROVE  Reflects(n)' \/ \E t \in Slot : Answers(t, n)'
    BY <1>1 DEF KnownInv
  <2>1. CASE Speaks(Head(stream), n)
    BY <1>5, <1>6, <1>7, <2>1 DEF Answers
  <2>2. CASE ~Speaks(Head(stream), n)
    <3>1. announced'[n] = announced[n]
      BY <1>3, <2>2
    <3>2. Reflects(n) => Reflects(n)'
      BY <1>1, <3>1 DEF Reflects
    <3>3. \A t \in Slot : Answers(t, n) => Answers(t, n)'
      BY <1>6, <1>7, <3>1 DEF Answers
    <3> QED
      BY <3>2, <3>3 DEF SyncInv, KnownInv
  <2> QED
    BY <2>1, <2>2
<1>9. behind' \subseteq Node /\ errors' \in 0..MaxErrors
  BY <1>1 DEF SyncInv, Types
<1> QED
  BY <1>1, <1>7, <1>8, <1>9, SpokenSync

LEMMA BadSync ==
  ASSUME SyncInv, mode = "stream", ~thrown, UNCHANGED <<mode, timer, stopped, closed>>, DeliverBad
  PROVE  SyncInv'
<1>1. /\ connection = "open" /\ stream # <<>> /\ stream' = Tail(stream)
      /\ UNCHANGED <<service, connection, thrown, etag, request, allData, namespaces, initCalled>>
      /\ announced' = Later(Told(Head(stream)))
      /\ behind' = behind \cup DOMAIN Told(Head(stream))
      /\ errors < MaxErrors /\ errors' = errors + 1
  BY DEF DeliverBad, Fails, Lose, storeVars, requestorVars
<1>2. errors' \in 0..MaxErrors
  BY <1>1, ServiceAssumption DEF SyncInv, Types
<1>3. DOMAIN Told(Head(stream)) = {n \in Node : Speaks(Head(stream), n)}
  BY <1>1, DeliveryFacts, ToldFacts
<1>4. \A n \in Node : ~Speaks(Head(stream), n) => announced'[n] = announced[n]
  BY <1>1, SpokenFacts
<1>5. \A n \in Node \ behind' : Same(n)
  BY <1>1, <1>3, <1>4 DEF Same
<1>6. \A n \in Node : Progresses(n)
  BY <1>1, <1>5, SameProgresses DEF Progresses
<1>7. KnownInv'
  BY <1>1, <1>6, KnownMoves
<1>8. behind' \subseteq Node /\ request' \in [Slot -> RequestRecord]
  BY <1>1, <1>3 DEF SyncInv, Types
<1> QED
  BY <1>1, <1>2, <1>7, <1>8, SpokenSync

LEMMA DeliverSync ==
  ASSUME SyncInv, Streaming(Deliver) \/ Streaming(DeliverBad) PROVE SyncInv'
<1>1. /\ mode = "stream" /\ ~thrown /\ UNCHANGED <<mode, timer, stopped, closed>>
      /\ Deliver \/ DeliverBad
  BY DEF Streaming, Running, pollVars
<1>2. CASE Deliver
  <2>1. \/ Put(Head(stream)) \/ Patch(Head(stream)) \/ Delete(Head(stream))
        \/ IndirectPut(Head(stream)) \/ IndirectPatch(Head(stream))
    BY <1>2 DEF Deliver
  <2> QED
    BY <1>1, <1>2, <2>1, ReplacedSync, PatchedSync, IndirectSync
<1> QED
  BY <1>1, <1>2, BadSync

-----------------------------------------------------------------------------
(* The answers of the service *)

LEMMA ReceiveFacts ==
  ASSUME SyncInv, NEW s \in Slot, Receive(s)
  PROVE  /\ request' \in [Slot -> RequestRecord] /\ request'[s].stage = "free"
         /\ \A t \in Slot \ {s} : request'[t] = request[t]
         /\ etag' \in Body \cup {None}
         /\ request[s].stage # "free" /\ request[s] \in RequestRecord
         /\ request[s].stage = "body" =>
              request[s].answer \in Body /\ PastBody(request[s].answer)
<1>1. request \in [Slot -> RequestRecord] /\ request[s] \in RequestRecord
  BY DEF SyncInv, Types
<1>2. NoRequest \in RequestRecord
  BY DEF NoRequest, RequestRecord
<1>3. /\ request' \in [Slot -> RequestRecord] /\ request'[s] = NoRequest
      /\ \A t \in Slot \ {s} : request'[t] = request[t]
  BY <1>1, <1>2 DEF Receive
<1>4. request[s].stage = "body" => request[s].answer \in Body /\ PastBody(request[s].answer)
  BY <1>1 DEF RequestRecord, SyncInv, PastInv
<1>5. etag' \in Body \cup {None}
  BY <1>4 DEF Receive, EtagAfter, SyncInv, Types
<1>6. request[s].stage # "free"
  BY DEF Receive
<1> QED
  BY <1>1, <1>3, <1>4, <1>5, <1>6 DEF NoRequest

\* What all answers have in common.
LEMMA AnswerSync ==
  ASSUME SyncInv, NEW s \in Slot, Receive(s),
         UNCHANGED <<service, errors, stream, connection, stopped, mode, closed>>,
         thrown' \in BOOLEAN, timer' \in BOOLEAN,
         StoreShape, StoreInv', NamespaceInv', \A n \in Node : announced'[n] >= announced[n],
         KnownInv', PollInv'
  PROVE  SyncInv'
<1>1. /\ request' \in [Slot -> RequestRecord] /\ request'[s].stage = "free"
      /\ \A t \in Slot \ {s} : request'[t] = request[t]
      /\ etag' \in Body \cup {None}
  BY ReceiveFacts
<1>2. Types'
  BY <1>1 DEF SyncInv, Types, StoreShape
<1>3. PastInv'
  <2>1. ASSUME NEW t \in Slot, request'[t].stage = "body", NEW b, b = request'[t].answer
        PROVE  PastBody(b)
    BY <1>1, <2>1 DEF SyncInv, PastInv
  <2>2. \A i \in DOMAIN stream : PastBody(stream[i].items)
    BY DEF SyncInv, PastInv
  <2> QED
    BY <2>1, <2>2 DEF PastInv, PastBody, Past
<1>4. ToldInv'
  <2> SUFFICES ASSUME connection = "open", NEW n \in Node, ~OnTheWay(n)
               PROVE  announced'[n] = service[n].version
    BY DEF ToldInv, OnTheWay
  <2>1. announced[n] = service[n].version
    BY DEF SyncInv, ToldInv
  <2>2. announced'[n] <= service[n].version
    BY DEF StoreInv
  <2>3. announced[n] \in Nat /\ service[n].version \in Nat /\ announced'[n] \in Nat
    BY AnnouncedFacts, OfferFacts, ServiceAssumption DEF SyncInv, StoreShape
  <2> QED
    BY <2>1, <2>2, <2>3
<1> QED
  BY <1>2, <1>3, <1>4 DEF SyncInv

\* Nothing the answer says of n was still awaited for n.
LEMMA KnownAnswered ==
  ASSUME SyncInv, mode = "stream", ~thrown, NEW s \in Slot, Receive(s),
         \A n \in Node : n \notin behind' =>
           \/ Reflects(n)'
           \/ /\ n \notin behind /\ ~Reflects(n) /\ announced'[n] = announced[n]
              /\ ~Answers(s, n)
  PROVE  KnownInv'
<1> SUFFICES ASSUME NEW n \in Node, n \notin behind', ~Reflects(n)'
             PROVE  \E t \in Slot : Answers(t, n)'
  BY DEF KnownInv
<1>1. /\ n \notin behind /\ ~Reflects(n) /\ announced'[n] = announced[n]
      /\ ~Answers(s, n)
  OBVIOUS
<1>2. PICK t \in Slot : Answers(t, n)
  BY <1>1 DEF SyncInv, KnownInv
<1>3. t # s /\ request'[t] = request[t]
  BY <1>1, <1>2, ReceiveFacts
<1> QED
  BY <1>1, <1>2, <1>3 DEF Answers

\* The answer brought the store nothing.
LEMMA NothingLearned ==
  ASSUME SyncInv, UNCHANGED <<allData, namespaces, initCalled, announced, service>>,
         behind' \subseteq Node
  PROVE  /\ StoreShape /\ StoreInv' /\ NamespaceInv'
         /\ \A n \in Node : announced'[n] >= announced[n]
<1>1. \A n \in Node : announced[n] \in Nat
  BY AnnouncedFacts DEF SyncInv
<1>2. StoreShape
  BY DEF SyncInv, Types, StoreShape
<1> QED
  BY <1>1, <1>2 DEF SyncInv, StoreInv, NamespaceInv, Past

LEMMA AllAnswerSync ==
  ASSUME SyncInv, NEW s \in Slot, Streaming(StreamAnswer(s)), AllAnswer(s) PROVE SyncInv'
<1>1. /\ mode = "stream" /\ ~thrown /\ Receive(s)
      /\ UNCHANGED <<service, errors, stream, connection, stopped, mode, closed, timer>>
      /\ request[s].op = "all"
  BY DEF Streaming, Running, StreamAnswer, AllAnswer, pollVars, serviceVars, streamVars
<1>2. timer' \in BOOLEAN /\ PollInv'
  BY <1>1 DEF SyncInv, Types, PollInv
<1>3. CASE request[s].stage \in {"failed", "refused"}
  <2>1. /\ UNCHANGED <<allData, namespaces, initCalled, announced, thrown>>
        /\ behind' = Node
    BY <1>3 DEF AllAnswer, storeVars
  <2>2. KnownInv' /\ thrown' \in BOOLEAN
    BY <2>1 DEF KnownInv, SyncInv, Types
  <2> QED
    BY <1>1, <1>2, <2>1, <2>2, NothingLearned, AnswerSync
<1>4. CASE request[s].stage = "body"
  <2>1. PICK items \in Body : items = request[s].answer /\ PastBody(items)
    BY <1>1, <1>4, ReceiveFacts
  <2>2. /\ Replace(DataOf(items)) /\ LearnAll(Versions(items)) /\ thrown' = thrown
    BY <1>4, <2>1 DEF AllAnswer
  <2>3. /\ StoreShape /\ StoreInv' /\ NamespaceInv'
        /\ \A n \in Node : /\ Learns(n, items[n].version)
                           /\ announced'[n] >= announced[n]
    BY <1>1, <2>1, <2>2, AllLearned DEF SyncInv
  <2>4. ASSUME NEW n \in Node, items[n].version < announced[n] PROVE ~Answers(s, n)
    <3>1. items[n].version \in Nat /\ announced[n] \in Nat
      BY AnnouncedFacts, OfferFacts DEF SyncInv, Body
    <3> QED
      BY <1>4, <2>1, <2>4, <3>1 DEF Answers
  <2>5. KnownInv'
    BY <1>1, <2>3, <2>4, KnownAnswered DEF Learns
  <2>6. thrown' \in BOOLEAN
    BY <2>2 DEF SyncInv, Types
  <2> QED
    BY <1>1, <1>2, <2>3, <2>5, <2>6, AnswerSync
<1>5. CASE request[s].stage = "unchanged"
  <2>1. /\ UNCHANGED <<allData, namespaces, initCalled, announced, behind>>
        /\ thrown' = TRUE
    BY <1>5 DEF AllAnswer, storeVars, syncVars
  <2>2. KnownInv' /\ behind' \subseteq Node
    BY <2>1 DEF KnownInv, SyncInv, Types
  <2> QED
    BY <1>1, <1>2, <2>1, <2>2, NothingLearned, AnswerSync
<1> QED
  BY <1>3, <1>4, <1>5 DEF AllAnswer

LEMMA ObjectAnswerSync ==
  ASSUME SyncInv, NEW s \in Slot, Streaming(StreamAnswer(s)), ObjectAnswer(s) PROVE SyncInv'
<1>1. /\ mode = "stream" /\ ~thrown /\ Receive(s)
      /\ UNCHANGED <<service, errors, stream, connection, stopped, mode, closed, timer, thrown>>
  BY DEF Streaming, Running, StreamAnswer, ObjectAnswer, pollVars, serviceVars, streamVars
<1>2. timer' \in BOOLEAN /\ PollInv' /\ thrown' \in BOOLEAN
  BY <1>1 DEF SyncInv, Types, PollInv
<1>3. PICK n \in Node : n = request[s].op
  BY DEF ObjectAnswer
<1>4. \A m \in Node \ {n} : ~Answers(s, m)
  BY <1>3, ServiceAssumption DEF Answers
<1>5. CASE request[s].stage \in {"failed", "refused"}
  <2>1. /\ UNCHANGED <<allData, namespaces, initCalled, announced>>
        /\ behind' = behind \cup {n}
    BY <1>3, <1>5 DEF ObjectAnswer, storeVars
  <2>2. \A m \in Node : m \notin behind' => m \notin behind /\ m # n
    BY <2>1
  <2>3. \A m \in Node : Reflects(m)' <=> Reflects(m)
    BY <1>1, <2>1 DEF Reflects
  <2>4. KnownInv'
    BY <1>1, <1>4, <2>1, <2>2, <2>3, KnownAnswered
  <2>5. behind' \subseteq Node
    BY <2>1 DEF SyncInv, Types
  <2> QED
    BY <1>1, <1>2, <2>1, <2>4, <2>5, NothingLearned, AnswerSync
<1>6. CASE request[s].stage = "body"
  <2>1. PICK items \in Body : items = request[s].answer /\ PastBody(items)
    BY <1>1, <1>6, ReceiveFacts
  <2>2. PICK item \in Offer : item = items[n] /\ Past(item, n)
    BY <2>1 DEF Body, PastBody
  <2>3. StoreUpsert(n, item) /\ LearnOne(n, item.version)
    BY <1>3, <1>6, <2>1, <2>2 DEF ObjectAnswer
  <2>4. /\ StoreShape /\ StoreInv' /\ NamespaceInv'
        /\ Learns(n, item.version) /\ announced'[n] >= announced[n]
        /\ \A m \in Node \ {n} : Same(m)
    BY <1>1, <2>2, <2>3, OneLearned DEF SyncInv
  <2>5. \A m \in Node : announced[m] \in Nat
    BY AnnouncedFacts DEF SyncInv
  <2>6. \A m \in Node : announced'[m] >= announced[m]
    BY <2>4, <2>5 DEF Same
  <2>7. ASSUME item.version < announced[n] PROVE ~Answers(s, n)
    <3>1. item.version \in Nat
      BY OfferFacts
    <3> QED
      BY <1>6, <2>1, <2>2, <2>5, <2>7, <3>1 DEF Answers
  <2>8. \A m \in Node \ {n} : Reflects(m)' <=> Reflects(m)
    BY <1>1, <2>4 DEF Same, Reflects
  <2>9. KnownInv'
    <3>1. ASSUME NEW m \in Node, m \notin behind'
          PROVE  \/ Reflects(m)'
                 \/ /\ m \notin behind /\ ~Reflects(m) /\ announced'[m] = announced[m]
                    /\ ~Answers(s, m)
      <4>1. CASE m = n
        BY <2>4, <2>7, <3>1, <4>1 DEF Learns
      <4>2. CASE m # n
        BY <1>4, <2>4, <2>8, <3>1, <4>2 DEF Same
      <4> QED
        BY <4>1, <4>2
    <3> QED
      BY <1>1, <3>1, KnownAnswered
  <2> QED
    BY <1>1, <1>2, <2>4, <2>6, <2>9, AnswerSync
<1> QED
  BY <1>5, <1>6 DEF ObjectAnswer

-----------------------------------------------------------------------------
(* Polling *)

LEMMA PollAnswerSync ==
  ASSUME SyncInv, NEW s \in Slot, Polling(PollAnswer(s)) PROVE SyncInv'
<1>1. /\ mode = "poll" /\ Receive(s)
      /\ UNCHANGED <<service, errors, stream, connection, stopped, mode, closed, thrown>>
      /\ timer' = TimerAfter(s)
  BY DEF Polling, Running, PollAnswer, streamVars, serviceVars
<1>2. timer' \in BOOLEAN /\ thrown' \in BOOLEAN
  BY <1>1 DEF SyncInv, Types, TimerAfter
<1>3. KnownInv'
  BY <1>1 DEF KnownInv
<1>4. /\ request'[s].stage = "free" /\ request[s].stage # "free"
      /\ \A t \in Slot \ {s} : request'[t] = request[t]
  BY <1>1, ReceiveFacts
<1>5. Free' = Slot
  BY <1>1, <1>4 DEF SyncInv, PollInv, Free
<1>6. \A t \in Slot : request'[t].stage = "free"
  BY <1>5 DEF Free
<1>7. behind' = {} => PollInv'
  BY <1>5, <1>6 DEF PollInv
<1>8. behind = {}
  BY <1>1 DEF SyncInv, PollInv
<1>9. CASE request[s].stage = "body"
  <2>1. PICK items \in Body : items = request[s].answer /\ PastBody(items)
    BY <1>1, <1>9, ReceiveFacts
  <2>2. Replace(DataOf(items)) /\ LearnAll(Versions(items))
    BY <1>9, <2>1 DEF Polling, PollAnswer
  <2>3. \A n \in Node : announced[n] <= items[n].version
    BY <1>1, <1>9, <2>1 DEF SyncInv, PollInv
  <2>4. /\ StoreShape /\ StoreInv' /\ NamespaceInv' /\ behind' = {}
        /\ \A n \in Node : announced'[n] >= announced[n]
    BY <1>1, <2>1, <2>2, <2>3, AllLearned DEF SyncInv
  <2> QED
    BY <1>1, <1>2, <1>3, <1>7, <2>4, AnswerSync
<1>10. CASE request[s].stage # "body"
  <2>1. UNCHANGED <<allData, namespaces, initCalled, announced, behind>>
    BY <1>10 DEF Polling, PollAnswer, storeVars, syncVars
  <2>2. behind' \subseteq Node
    BY <1>8, <2>1
  <2> QED
    BY <1>1, <1>2, <1>3, <1>7, <1>8, <2>1, <2>2, NothingLearned, AnswerSync
<1> QED
  BY <1>9, <1>10

LEMMA PollSync == ASSUME SyncInv, Polling(Poll) PROVE SyncInv'
<1>1. /\ mode = "poll" /\ timer /\ timer' = FALSE
      /\ UNCHANGED <<allData, namespaces, initCalled, announced, behind, service, errors>>
      /\ UNCHANGED <<stream, connection, thrown, stopped, mode, closed, etag>>
  BY DEF Polling, Running, Poll, storeVars, syncVars, serviceVars, streamVars, requestorVars,
         RequestAllData
<1>2. Free = Slot /\ behind = {}
  BY <1>1 DEF SyncInv, PollInv
<1>3. \/ request' = request
      \/ \E s \in Slot : Ask(s, "all", etag)
  BY DEF Polling, Poll, RequestAllData, requestorVars, Free
<1>4. etag \in Body \cup {None}
  BY DEF SyncInv, Types
<1>5. request' \in [Slot -> RequestRecord]
  BY <1>3, <1>4, AskFacts DEF SyncInv, Types
<1>6. \/ request' = request
      \/ \E s \in Slot : /\ request'[s].stage = "sent"
                         /\ \A t \in Slot \ {s} : request'[t] = request[t]
  BY <1>3, <1>4, AskFacts DEF SyncInv
<1>7. \A s \in Slot : request'[s] = request[s] \/ request'[s].stage = "sent"
  BY <1>6
<1>8. \A s, t \in Slot : request'[s].stage # "free" /\ request'[t].stage # "free" => s = t
  BY <1>2, <1>6 DEF Free
<1>9. Types'
  BY <1>1, <1>5 DEF SyncInv, Types
<1>10. PastInv'
  <2>1. ASSUME NEW t \in Slot, request'[t].stage = "body", NEW b, b = request'[t].answer
        PROVE  PastBody(b)
    BY <1>7, <2>1 DEF SyncInv, PastInv
  <2>2. \A i \in DOMAIN stream : PastBody(stream[i].items)
    BY DEF SyncInv, PastInv
  <2> QED
    BY <1>1, <2>1, <2>2 DEF PastInv, PastBody, Past
<1>11. NamespaceInv' /\ StoreInv' /\ ToldInv' /\ KnownInv'
  BY <1>1 DEF SyncInv, NamespaceInv, StoreInv, Past, ToldInv, OnTheWay, KnownInv
<1>12. PollInv'
  <2>1. \A s \in Slot : request'[s].stage # "body"
    BY <1>2, <1>7 DEF Free
  <2> QED
    BY <1>1, <1>2, <1>8, <2>1 DEF PollInv, Free
<1> QED
  BY <1>9, <1>10, <1>11, <1>12 DEF SyncInv

-----------------------------------------------------------------------------
(* The invariant *)

LEMMA SyncInit == Init => SyncInv
<1> SUFFICES ASSUME Init PROVE SyncInv
  OBVIOUS
<1>1. \A d \in BOOLEAN : [version |-> 1, deleted |-> d, deps |-> {}] \in Offer
  BY ServiceAssumption DEF Offer
<1>2. service \in Body /\ \A n \in Node : service[n].version = 1
  BY <1>1 DEF Init, ServiceInit, Body
<1>3. NoRequest \in RequestRecord /\ NoRequest.stage = "free"
  BY DEF NoRequest, RequestRecord
<1>4. stream = <<>> /\ stream \in Seq(MessageRecord)
  BY EmptySeq DEF Init, StreamInit
<1>5. /\ allData \in [Node -> Offer \cup {Absent}] /\ \A n \in Node : allData[n] = Absent
      /\ announced \in [Node -> 0..MaxVersion] /\ \A n \in Node : announced[n] = 0
      /\ request \in [Slot -> RequestRecord] /\ \A s \in Slot : request[s].stage = "free"
      /\ errors \in 0..MaxErrors
  BY <1>3, ServiceAssumption DEF Init, StoreInit, ServiceInit
<1>6. Types
  BY <1>2, <1>4, <1>5 DEF Types, Init, StoreInit, ServiceInit, StreamInit, PollInit
<1>7. NamespaceInv /\ StoreInv
  BY <1>2, <1>5 DEF NamespaceInv, StoreInv
<1>8. PastInv
  BY <1>4, <1>5, EmptySeq DEF PastInv
<1>9. ToldInv /\ KnownInv
  BY <1>5 DEF ToldInv, KnownInv, Reflects, Init, StreamInit
<1>10. PollInv
  BY <1>5 DEF PollInv, Free, Init, ServiceInit
<1> QED
  BY <1>6, <1>7, <1>8, <1>9, <1>10 DEF SyncInv

LEMMA SyncNext == SyncInv /\ [Next]_vars => SyncInv'
<1> SUFFICES ASSUME SyncInv, [Next]_vars PROVE SyncInv'
  OBVIOUS
<1>1. ASSUME NEW w \in Waiter, Wait(w) PROVE SyncInv'
  <2>1. UNCHANGED <<syncFacts, sourceFacts>>
    BY <1>1 DEF Wait, Running, storeVars, requestorVars, syncVars, serviceVars, sourceVars,
       streamVars, pollVars, syncFacts, sourceFacts
  <2> QED
    BY <2>1, IdleSync
<1>2. CASE UNCHANGED vars
  <2>1. UNCHANGED <<syncFacts, sourceFacts>>
    BY <1>2 DEF vars, sdkVars, storeVars, requestorVars, syncVars, serviceVars, sourceVars,
       streamVars, pollVars, syncFacts, sourceFacts
  <2> QED
    BY <2>1, IdleSync
<1>3. ASSUME NEW s \in Slot, Streaming(StreamAnswer(s)) PROVE SyncInv'
  <2>1. AllAnswer(s) \/ ObjectAnswer(s)
    BY <1>3 DEF Streaming, StreamAnswer
  <2> QED
    BY <1>3, <2>1, AllAnswerSync, ObjectAnswerSync
<1> QED
  BY <1>1, <1>2, <1>3, CloseSync, ServiceSync, NetworkSync, LinkSync, DeliverSync, PollSync,
     PollAnswerSync DEF Next

LEMMA AlwaysSync == Spec => []SyncInv
BY SyncInit, SyncNext, PTL DEF Spec

-----------------------------------------------------------------------------
(* The theorems *)

LEMMA InvInit == Init => Inv
  BY DEF Init, StoreInit, ClientInit, ServiceInit, Inv, ReadyAfterInit, ClientTypeOK,
         WaitersSettled, ClosedInv, RequestShape

LEMMA InvNext == Inv /\ [Next]_vars => Inv'
<1> SUFFICES ASSUME Inv, [Next]_vars PROVE Inv'
  OBVIOUS
<1>1. ClientStep /\ StoreStep
  BY NextStep DEF SourceStep
<1>2. ClientTypeOK' /\ WaitersSettled'
  BY <1>1, ClientStepInv DEF Inv
<1>3. ReadyAfterInit'
  BY <1>1, <1>2 DEF Inv, ReadyAfterInit, StoreStep, ClientTypeOK
<1>4. RequestShape'
  BY NextRequestStep DEF Inv, RequestStep
<1> QED
  BY <1>2, <1>3, <1>4, ClosedStep DEF Inv

\* The client says ready only when the store has been given a complete data set.
THEOREM ReadyIsTrue == Spec => []ReadyAfterInit
<1>1. Inv => ReadyAfterInit
  BY DEF Inv
<1> QED
  BY <1>1, InvInit, InvNext, PTL DEF Spec

\* No promise of waitForInitialization() is pending once the client is ready, and once it
\* has failed only those are that a listener of the first failed event asked for.
THEOREM OnlyMissedWait == Spec => []WaitersSettled
<1>1. Inv => WaitersSettled
  BY DEF Inv
<1> QED
  BY <1>1, InvInit, InvNext, PTL DEF Spec

\* No request is sent after close().
THEOREM CloseIsFinal == Spec => ClosedStartsNothing
<1>1. Inv /\ [Next]_vars =>
        [closed => \A s \in Slot : request'[s].stage = "sent" => request[s].stage = "sent"]_vars
  BY NextRequestStep DEF Inv, RequestStep
<1> QED
  BY <1>1, InvInit, InvNext, PTL DEF Spec, ClosedStartsNothing

\* Every variable has a value of its type, what the messages and answers hold included.
THEOREM SourcesTypeCorrect == Spec => []TypeOK
<1>1. SyncInv /\ Inv => TypeOK
  BY TypesSuffice DEF SyncInv, Inv
<1> QED
  BY <1>1, AlwaysSync, InvInit, InvNext, PTL DEF Spec

\* On an open stream with nothing under way the store shows what the service offers,
\* however patches, deletes, puts and late answers to indirect messages were interleaved.
THEOREM StreamCatchesUp == Spec => []InSync
<1>1. SyncInv => InSync
  <2> SUFFICES ASSUME SyncInv, mode = "stream", ~thrown, connection = "open", stream = <<>>,
                      Free = Slot, NEW n \in Node \ behind
               PROVE  UpToDate(n)
    BY DEF InSync
  <2>1. ~OnTheWay(n)
    BY EmptySeq DEF OnTheWay
  <2>2. announced[n] = service[n].version
    BY <2>1 DEF SyncInv, ToldInv
  <2>3. Reflects(n)
    BY DEF SyncInv, KnownInv, Answers, Free
  <2>4. /\ service[n] \in Offer /\ service[n].version > 0 /\ service[n].version \in Nat
        /\ service[n] # Absent /\ service[n].deleted \in BOOLEAN
    BY AnnouncedFacts, OfferFacts DEF SyncInv
  <2>5. allData[n] # Absent => allData[n] = service[n]
    BY <2>2, <2>3, <2>4 DEF Reflects, SyncInv, StoreInv, Past
  <2>6. allData[n] = Absent => service[n].deleted
    BY <2>2, <2>3, <2>4 DEF Reflects
  <2> QED
    BY <2>4, <2>5, <2>6 DEF UpToDate, VisibleItem, Offered
<1> QED
  BY <1>1, AlwaysSync, PTL

\* A polling client never stores older data over newer.
THEOREM PollingGoesForward == Spec => []PollNeverGoesBack
<1>1. SyncInv => PollNeverGoesBack
  BY DEF SyncInv, PollInv, PollNeverGoesBack
<1> QED
  BY <1>1, AlwaysSync, PTL
=============================================================================
