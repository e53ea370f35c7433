----------------------------- MODULE FlagService -----------------------------
(* requestor.js with its ETag cache (utils/httpUtils.js), and the LaunchDarkly service
   behind it, which is external: it holds the current version of every flag and
   segment, and answers requests in any order with the data it has at that moment.

   The event wrapper between a data source and the in-memory store passes every
   operation on at once (module EventWrapper), so the store is used directly.  *)
EXTENDS InMemoryStore

CONSTANTS
  Slot,         \* bound: requests under way at a time
  MaxVersion,   \* bound: versions of one flag or segment
  MaxErrors,    \* bound: failures of the network, the service or the data
  None          \* no data

ASSUME ServiceAssumption ==
  /\ None \notin [Node -> Item \cup {Absent}] /\ {None, "all", "none"} \cap Node = {}
  /\ MaxVersion \in Nat \ {0} /\ MaxErrors \in Nat
  /\ \A v \in 1..MaxVersion, d \in BOOLEAN : [version |-> v, deleted |-> d, deps |-> {}] \in Item

VARIABLES
  service,     \* the service's items; it remembers the version of a deletion
  request,     \* the request in every slot
  etag,        \* the body in the ETag cache
  errors,      \* failures so far
  announced,   \* history: the latest version a message or answer spoke of
  behind       \* history: nodes the store was not given the latest of, or given older data of

serviceVars == <<service, errors>>
requestorVars == <<request, etag>>
syncVars == <<announced, behind>>

NoRequest == [op |-> "none", known |-> None, stage |-> "free", answer |-> None]

ServiceInit ==
  /\ service = [n \in Node |-> [version |-> 1, deleted |-> FALSE, deps |-> {}]]
  /\ request = [s \in Slot |-> NoRequest]
  /\ etag = None /\ errors = 0
  /\ announced = [n \in Node |-> 0] /\ behind = {}

Fails == errors < MaxErrors /\ errors' = errors + 1 /\ UNCHANGED service

Offered(items) == [n \in Node |-> IF items[n].deleted THEN Absent ELSE items[n]]
DataOf(items) == [kinds |-> Kinds, items |-> Offered(items)]

\* The service changes or deletes an item, or restores a deleted one.
Changed(n, deleted) ==
  /\ service[n].version < MaxVersion
  /\ deleted => ~service[n].deleted
  /\ service' = [service EXCEPT ![n].version = @ + 1, ![n].deleted = deleted]
  /\ UNCHANGED errors

-----------------------------------------------------------------------------
(* History: what the messages and answers told the store *)

Later(told) ==
  [n \in Node |->
     IF n \in DOMAIN told /\ told[n] > announced[n] THEN told[n] ELSE announced[n]]

\* A data set of the versions told replaced the store's.
LearnAll(told) ==
  /\ announced' = Later(told)
  /\ behind' = {n \in Node : /\ told[n] < announced[n]
                             /\ n \in behind \/ allData'[n] # allData[n]}

\* The store was offered version v of n.  Where it holds nothing of n, not even the
\* tombstone of a deletion it was told of, it has no version to refuse an older one by.
LearnOne(n, v) ==
  /\ announced' = Later([m \in {n} |-> v])
  /\ behind' = IF v >= announced[n] THEN behind \ {n}
               ELSE IF allData[n] = Absent /\ allData'[n] # Absent THEN behind \cup {n}
               ELSE behind

\* The store was not given the versions told.
Lose(told) == announced' = Later(told) /\ behind' = behind \cup DOMAIN told

Versions(items) == [n \in Node |-> items[n].version]

-----------------------------------------------------------------------------
(* requestor.js *)

Free == {s \in Slot : request[s].stage = "free"}
Ask(s, op, known) ==
  request' = [request EXCEPT ![s] = [op |-> op, known |-> known, stage |-> "sent",
                                     answer |-> None]]

\* requestAllData sends the ETag of the body it has.
RequestAllData == \E s \in Free : Ask(s, "all", etag) /\ UNCHANGED etag

\* requestObject uses no cache.
RequestObject(n) == \E s \in Free : Ask(s, n, None) /\ UNCHANGED etag

Answered(s, stage, answer) ==
  request' = [request EXCEPT ![s].stage = stage, ![s].answer = answer]

\* A body; 304 for a body the requestor has; 404 for a deleted item.
ServiceAnswers(s) ==
  /\ request[s].stage = "sent"
  /\ CASE request[s].op # "all" ->
            Answered(s, IF service[request[s].op].deleted THEN "refused" ELSE "body", service)
       [] request[s].op = "all" ->
            IF request[s].known # None /\ Offered(request[s].known) = Offered(service)
              THEN Answered(s, "unchanged", None) ELSE Answered(s, "body", service)
  /\ UNCHANGED <<etag, serviceVars>>

\* A network error or a recoverable status; or an unrecoverable status.
ServiceFails(s) ==
  /\ request[s].stage = "sent"
  /\ Fails
  /\ \E stage \in {"failed", "refused"} : Answered(s, stage, None)
  /\ UNCHANGED etag

\* The requestor hands an answer to its caller and keeps a new body.
EtagAfter(s) ==
  IF request[s].op = "all" /\ request[s].stage = "body" THEN request[s].answer ELSE etag
Receive(s) ==
  /\ request[s].stage \in {"body", "unchanged", "failed", "refused"}
  /\ request' = [request EXCEPT ![s] = NoRequest]
  /\ etag' = EtagAfter(s)

Bodies == [Node -> Item]
ServiceTypeOK ==
  /\ service \in Bodies /\ etag \in Bodies \cup {None} /\ errors \in 0..MaxErrors
  /\ request \in
       [Slot -> [op : {"none", "all"} \cup Node, known : Bodies \cup {None},
                 stage : {"free", "sent", "body", "unchanged", "failed", "refused"},
                 answer : Bodies \cup {None}]]
  /\ announced \in [Node -> 0..MaxVersion] /\ behind \subseteq Node
=============================================================================
