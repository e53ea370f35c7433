--------------------------- MODULE VersionedStore ---------------------------
(* What the head of caching_store_wrapper.js asks of a persistent store, for stores
   that share a database: initInternal replaces the data in one step, upsertInternal
   writes in one step and only over an older version, and reports the final item.

   The excuses are variables of the environment: `unguarded` says that a call's
   connection has failed it, `spoiled` that its connection holds a watch of data that
   were modified since.  Nothing is promised of how they change.             *)
EXTENDS Naturals

CONSTANTS
  Store,        \* the stores, in one process or in several
  Key,          \* keys of the data kind
  Item,         \* item values, tombstones included
  Absent,       \* the database has no such item
  Request,      \* what the stores are asked to do
  NoRequest,    \* the store is not asked anything
  Nothing,      \* the call has yet to be performed
  Error,        \* the call reports an error
  OK            \* the call reports its end, and nothing else

VARIABLES
  data, inited,         \* the database
  request,              \* the unfinished call of every store
  outcome,              \* what it will report
  reported,             \* the last report: of which store's call, and what it was
  unguarded, spoiled    \* excuses

versionedVars == <<data, inited, request, outcome, reported>>

Init ==
  /\ data \in [Key -> Item \cup {Absent}] /\ inited \in BOOLEAN
  /\ request = [s \in Store |-> NoRequest]
  /\ outcome = [s \in Store |-> Nothing]
  /\ reported = <<>>

Newer(item, old) == old = Absent \/ old.version < item.version

Call(s, req) ==
  /\ request[s] = NoRequest
  /\ request' = [request EXCEPT ![s] = req]
  /\ UNCHANGED <<data, inited, outcome, reported>>

Upsert(s) ==
  /\ request[s].op = "upsert" /\ outcome[s] = Nothing
  /\ LET k == request[s].key
         final == IF Newer(request[s].item, data[k]) THEN request[s].item ELSE data[k]
     IN  /\ data' = [data EXCEPT ![k] = final]
         /\ outcome' = [outcome EXCEPT ![s] = final]
  /\ UNCHANGED <<inited, request, reported>>

ReplaceAll(s) ==
  /\ request[s].op = "init" /\ outcome[s] = Nothing
  /\ data' = request[s].data /\ inited' = TRUE
  /\ outcome' = [outcome EXCEPT ![s] = OK]
  /\ UNCHANGED <<request, reported>>

\* Without its guard an upsert compares with nothing.
Overwrite(s) ==
  /\ request[s].op = "upsert" /\ outcome[s] = Nothing
  /\ unguarded[s]
  /\ data' = [data EXCEPT ![request[s].key] = request[s].item]
  /\ outcome' = [outcome EXCEPT ![s] = request[s].item]
  /\ UNCHANGED <<inited, request, reported>>

\* An init may end without having been performed, and does not say so.
LoseInit(s) ==
  /\ request[s].op = "init" /\ outcome[s] = Nothing
  /\ spoiled[s]
  /\ outcome' = [outcome EXCEPT ![s] = OK]
  /\ UNCHANGED <<data, inited, request, reported>>

\* A connection fails: the answers of its calls are lost, whatever has been done.
Disturb ==
  /\ \A s \in Store : outcome'[s] # outcome[s] =>
       /\ unguarded'[s]
       /\ \/ request[s].op = "upsert" /\ outcome'[s] \in {Nothing, Error}
          \/ request[s].op = "init" /\ outcome'[s] = OK
  /\ outcome' \in [Store -> Item \cup {Nothing, Error, OK}]
  /\ UNCHANGED <<data, inited, request, reported>>

Return(s) ==
  /\ request[s] # NoRequest /\ outcome[s] # Nothing
  /\ reported' = <<s, outcome[s]>>
  /\ request' = [request EXCEPT ![s] = NoRequest]
  /\ outcome' = [outcome EXCEPT ![s] = Nothing]
  /\ UNCHANGED <<data, inited>>

Next ==
  \/ \E s \in Store :
       \/ \E req \in Request : Call(s, req)
       \/ Upsert(s) \/ ReplaceAll(s) \/ Overwrite(s) \/ LoseInit(s) \/ Return(s)
  \/ Disturb

Spec == Init /\ [][Next]_versionedVars
=============================================================================
