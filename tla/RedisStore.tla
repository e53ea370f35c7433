----------------------------- MODULE RedisStore -----------------------------
(* redis_feature_store.js: stores that share a database and one data kind, each with
   a connection of its own or one it shares with another store of the process.

   The update queue of the caching wrapper gives a store one write at a time.  What
   has been sent to Redis and not been answered is the store's stage; the commands of
   a store are performed in the order they were sent in, those of two stores in any
   order.  Redis and its client package are external: commands given to a connection
   that is down wait until it is up again, those that were sent when it breaks are
   answered with an error, what a multi has queued is only sent by exec, so that
   multi.discard() sends nothing.  Reads send one command, change no state and are
   left out, and so is close().  Operators named <name>_<variant> are mistakes the
   runs must detect.                                                         *)
EXTENDS Naturals

CONSTANTS
  Store, Conn,
  ConnOf,       \* the connection of every store
  ClientFrom,   \* "created" by the store, from redisOpts ("option") or the "argument"
  Key, Item,    \* keys and item values, tombstones included
  Absent,       \* null: the hash has no such field
  OK,           \* EXEC performed the transaction, or a callback without parameters
  Nil,          \* EXEC found a watched key modified
  Error,        \* the command, or the write, failed
  Nothing,      \* no answer
  Upserts,      \* [key, item] records upsertInternal may be called with
  Datasets,     \* data sets initInternal may be called with
  Before,       \* what other processes have upserted into the database before
  UpAtStart,    \* connections that the application has opened before
  MaxWrites,    \* bound: writes in a behaviour
  MaxDrops      \* bound: connections lost in a behaviour

NoRequest == [op |-> "none"]
ASSUME RedisAssumption ==
  /\ ConnOf \in [Store -> Conn]
  /\ ClientFrom \in [Store -> {"created", "option", "argument"}]
  /\ \A s, t \in Store : ClientFrom[s] = "created" /\ ConnOf[s] = ConnOf[t] => s = t
  /\ Item \subseteq [version : Nat, deleted : BOOLEAN]
  /\ Item \cap {Absent, OK, Nil, Error, Nothing} = {}
  /\ Absent \notin {OK, Nil, Error, Nothing} /\ OK \notin {Nil, Error, Nothing}
  /\ Nil \notin {Error, Nothing} /\ Error # Nothing
  /\ Upserts \subseteq [key : Key, item : Item]
  /\ Datasets \subseteq [Key -> Item \cup {Absent}]
  /\ Before \in [Key -> Item \cup {Absent}]
  /\ UpAtStart \subseteq Conn
  /\ \A s \in Store : ClientFrom[s] = "created" => ConnOf[s] \notin UpAtStart
  /\ MaxWrites \in Nat /\ MaxDrops \in Nat

VARIABLES
  data,        \* the hash of the data kind, in the database
  inited,      \* the database has the initedKey
  watch,       \* what Redis knows of every connection's watch of the hash
  link,        \* the connection is up
  connected,   \* the variable of every store
  request,     \* the arguments of the store's write
  stage,       \* how far it is
  asks,        \* this attempt of an upsert has sent HGET
  answer,      \* what Redis has answered
  reported,    \* the last callback: of which store's write, and what it was given
  writes,      \* writes so far
  drops,       \* lost connections so far
  unguarded    \* history: this attempt of an upsert has no watch to rely on

dbVars == <<data, inited>>
linkVars == <<watch, link, connected>>
callVars == <<request, stage, asks, answer, reported>>
vars == <<dbVars, linkVars, callVars, writes, drops, unguarded>>

Init ==
  /\ data = Before /\ inited = FALSE
  /\ watch = [c \in Conn |-> "none"]
  /\ link = [c \in Conn |-> c \in UpAtStart]
  /\ connected = [s \in Store |-> ClientFrom[s] = "option"]
  /\ request = [s \in Store |-> NoRequest]
  /\ stage = [s \in Store |-> "idle"]
  /\ asks = [s \in Store |-> FALSE]
  /\ answer = [s \in Store |-> Nothing]
  /\ reported = <<>>
  /\ writes = 0 /\ drops = 0
  /\ unguarded = [s \in Store |-> FALSE]

-----------------------------------------------------------------------------
(* The store *)

\* updateItemWithVersioning sends WATCH, then HGET; doGet sends nothing while the
\* store believes the connection to be down, and EXEC follows at once.
Attempt_KeepsAnswer(s) ==
  /\ stage' = [stage EXCEPT ![s] = "watch"]
  /\ asks' = [asks EXCEPT ![s] = connected[s]]
  /\ unguarded' = [unguarded EXCEPT ![s] = ~connected[s]]
  /\ UNCHANGED answer
Attempt(s) ==
  /\ stage' = [stage EXCEPT ![s] = "watch"]
  /\ asks' = [asks EXCEPT ![s] = connected[s]]
  /\ unguarded' = [unguarded EXCEPT ![s] = ~connected[s]]
  /\ answer' = [answer EXCEPT ![s] = Nothing]

UpsertInternal(s, u) ==
  /\ stage[s] = "idle" /\ writes < MaxWrites
  /\ request' = [request EXCEPT ![s] = [op |-> "upsert", key |-> u.key, item |-> u.item]]
  /\ Attempt(s)
  /\ writes' = writes + 1
  /\ UNCHANGED <<dbVars, linkVars, reported, drops>>

InitInternal(s, d) ==
  /\ stage[s] = "idle" /\ writes < MaxWrites
  /\ request' = [request EXCEPT ![s] = [op |-> "init", data |-> d]]
  /\ stage' = [stage EXCEPT ![s] = "exec"]
  /\ writes' = writes + 1
  /\ UNCHANGED <<dbVars, linkVars, asks, answer, reported, drops, unguarded>>

CallBack(s, with) ==
  /\ reported' = <<s, with>>
  /\ request' = [request EXCEPT ![s] = NoRequest]
  /\ stage' = [stage EXCEPT ![s] = "idle"]
  /\ asks' = [asks EXCEPT ![s] = FALSE]
  /\ answer' = [answer EXCEPT ![s] = Nothing]
  /\ unguarded' = [unguarded EXCEPT ![s] = FALSE]

\* doGet makes null of an error; a tombstone counts as an old item.
OldItem_Visible(s) ==
  IF answer[s] = Error \/ answer[s] = Absent THEN Absent
  ELSE IF answer[s].deleted THEN Absent ELSE answer[s]
OldItem(s) == IF answer[s] = Error THEN Absent ELSE answer[s]

Refuses(s) ==
  OldItem(s) # Absent /\ OldItem(s).version >= request[s].item.version

\* The callback of HGET: the old item stays, and the watch with it, or EXEC is sent.
GetAnswered(s) ==
  /\ stage[s] = "got"
  /\ IF Refuses(s)
       THEN CallBack(s, OldItem(s))
       ELSE /\ stage' = [stage EXCEPT ![s] = "exec"]
            /\ answer' = [answer EXCEPT ![s] = Nothing]
            /\ UNCHANGED <<request, asks, reported, unguarded>>
  /\ UNCHANGED <<dbVars, linkVars, writes, drops>>

\* A transaction that Redis refused is tried again.
Retries(s) == answer[s] = Nil

ExecAnswered_OnSuccess(s) == stage[s] = "done" /\ answer[s] # Error
ExecAnswered(s) == stage[s] = "done"

\* The callback of an upsert's EXEC.
UpsertAnswered(s) ==
  /\ ExecAnswered(s) /\ request[s].op = "upsert"
  /\ IF Retries(s)
       THEN Attempt(s) /\ UNCHANGED <<request, reported>>
       ELSE CallBack(s, IF answer[s] = Error THEN Error ELSE request[s].item)
  /\ UNCHANGED <<dbVars, linkVars, writes, drops>>

\* initInternal looks at no answer: an error is logged, nil is not noticed.
InitAnswered(s) ==
  /\ ExecAnswered(s) /\ request[s].op = "init"
  /\ CallBack(s, OK)
  /\ UNCHANGED <<dbVars, linkVars, writes, drops>>

-----------------------------------------------------------------------------
(* Redis *)

Up(s) == link[ConnOf[s]]
Sharing(s) == {t \in Store \ {s} : ConnOf[t] = ConnOf[s]}

Watch(s) ==
  /\ Up(s) /\ stage[s] = "watch"
  /\ watch' = [watch EXCEPT ![ConnOf[s]] = IF @ = "none" THEN "clean" ELSE @]
  /\ stage' = [stage EXCEPT ![s] = IF asks[s] THEN "get" ELSE "exec"]
  /\ UNCHANGED <<dbVars, link, connected, request, asks, answer, reported, writes, drops,
                 unguarded>>

HGet(s) ==
  /\ Up(s) /\ stage[s] = "get"
  /\ stage' = [stage EXCEPT ![s] = "got"]
  /\ answer' = [answer EXCEPT ![s] = data[request[s].key]]
  /\ UNCHANGED <<dbVars, linkVars, request, asks, reported, writes, drops, unguarded>>

\* EXEC forgets the watch of its connection first; then, if the transaction touches
\* the hash, the watch of every other connection finds it modified.
WatchAfterExec_OwnOnly(c, touches) == [watch EXCEPT ![c] = "none"]
WatchAfterExec(c, touches) ==
  [d \in Conn |-> IF d = c THEN "none"
                  ELSE IF touches /\ watch[d] = "clean" THEN "dirty" ELSE watch[d]]

\* The writes of a transaction: HSET, or DEL and HMSET of what there is.
Written(s) ==
  IF request[s].op = "upsert" THEN [data EXCEPT ![request[s].key] = request[s].item]
                              ELSE request[s].data

Exec(s) ==
  /\ Up(s) /\ stage[s] = "exec"
  /\ IF watch[ConnOf[s]] = "dirty"
       THEN /\ answer' = [answer EXCEPT ![s] = Nil]
            /\ watch' = WatchAfterExec(ConnOf[s], FALSE)
            /\ UNCHANGED dbVars
       ELSE /\ answer' = [answer EXCEPT ![s] = OK]
            /\ data' = Written(s)
            /\ inited' = (inited \/ request[s].op = "init")
            /\ watch' = WatchAfterExec(ConnOf[s],
                          \E k \in Key : data[k] # Absent \/ data'[k] # Absent)
  /\ stage' = [stage EXCEPT ![s] = "done"]
  /\ unguarded' = [t \in Store |-> unguarded[t] \/
                     (t \in Sharing(s) /\ stage[t] \in {"get", "got", "exec"}
                        /\ request[t].op = "upsert")]
  /\ UNCHANGED <<link, connected, request, asks, reported, writes, drops>>

\* The 'end' event, and the error for every command that has not been answered.
Disconnect(c) ==
  LET broken == {s \in Store : ConnOf[s] = c /\ stage[s] # "idle"}
      reading(s) == asks[s] /\ stage[s] \in {"watch", "get", "got"}
  IN  /\ link[c] /\ drops < MaxDrops
      /\ link' = [link EXCEPT ![c] = FALSE]
      /\ watch' = [watch EXCEPT ![c] = "none"]
      /\ connected' = [s \in Store |-> connected[s] /\ ConnOf[s] # c]
      /\ stage' = [s \in Store |-> IF s \notin broken THEN stage[s]
                                   ELSE IF reading(s) THEN "got" ELSE "done"]
      /\ answer' = [s \in Store |-> IF s \in broken THEN Error ELSE answer[s]]
      /\ unguarded' = [s \in Store |-> unguarded[s] \/ s \in broken]
      /\ drops' = drops + 1
      /\ UNCHANGED <<dbVars, request, asks, reported, writes>>

\* The 'connect' event; the errors were delivered before.
Connect(c) ==
  /\ ~link[c]
  /\ \A s \in Store : ConnOf[s] = c => answer[s] # Error
  /\ link' = [link EXCEPT ![c] = TRUE]
  /\ connected' = [s \in Store |-> connected[s] \/ ConnOf[s] = c]
  /\ UNCHANGED <<dbVars, watch, callVars, writes, drops, unguarded>>

-----------------------------------------------------------------------------

Answered(s) == GetAnswered(s) \/ UpsertAnswered(s) \/ InitAnswered(s)
Performs(s) == Watch(s) \/ HGet(s) \/ Exec(s)

Next ==
  \/ \E s \in Store :
       \/ \E u \in Upserts : UpsertInternal(s, u)
       \/ \E d \in Datasets : InitInternal(s, d)
       \/ Answered(s)
       \/ Performs(s)
  \/ \E c \in Conn : Disconnect(c) \/ Connect(c)

\* Redis performs and answers what it is sent, and the client package connects again.
\* Nobody has to write and no connection has to break.
Fairness ==
  /\ \A s \in Store : WF_vars(Answered(s)) /\ WF_vars(Performs(s))
  /\ \A c \in Conn : WF_vars(Connect(c))

Spec == Init /\ [][Next]_vars /\ Fairness

-----------------------------------------------------------------------------
(* Properties *)

Requests ==
  {[op |-> "upsert", key |-> u.key, item |-> u.item] : u \in Upserts}
    \cup {[op |-> "init", data |-> d] : d \in Datasets}

\* What is sent fits the request, and what is answered fits what was sent.
CallsFit ==
  \A s \in Store :
    /\ stage[s] = "idle" <=> request[s] = NoRequest
    /\ stage[s] \in {"watch", "get", "got"} => request[s].op = "upsert"
    /\ stage[s] = "got" => answer[s] \in Item \cup {Absent, Error}
    /\ stage[s] = "done" => answer[s] \in {OK, Nil, Error}
    /\ stage[s] \notin {"got", "done"} => answer[s] = Nothing

CallTypeOK ==
  /\ request \in [Store -> Requests \cup {NoRequest}]
  /\ stage \in [Store -> {"idle", "watch", "get", "got", "exec", "done"}]
  /\ asks \in [Store -> BOOLEAN] /\ unguarded \in [Store -> BOOLEAN]
  /\ answer \in [Store -> Item \cup {Absent, OK, Nil, Error, Nothing}]
  /\ reported \in {<<>>} \cup (Store \X (Item \cup {OK, Error}))
  /\ CallsFit

DatabaseTypeOK ==
  /\ data \in [Key -> Item \cup {Absent}] /\ inited \in BOOLEAN
  /\ watch \in [Conn -> {"none", "clean", "dirty"}]
  /\ link \in [Conn -> BOOLEAN] /\ connected \in [Store -> BOOLEAN]
  /\ writes \in 0..MaxWrites /\ drops \in 0..MaxDrops

\* Every variable keeps its type, and what is sent fits the request.
TypeOK == DatabaseTypeOK /\ CallTypeOK

Newer(item, old) == old = Absent \/ old.version < item.version

\* While an upsert relies on its watch and the watch is clean, the database still
\* holds what HGET answered, and EXEC would write over an older version only.
Guarded ==
  \A s \in Store : ~unguarded[s] /\ watch[ConnOf[s]] # "dirty" =>
    /\ stage[s] = "got" => answer[s] = data[request[s].key]
    /\ stage[s] = "exec" /\ request[s].op = "upsert" =>
         Newer(request[s].item, data[request[s].key])

\* What the callback of a write will be given, once that is settled.
Outcome(s) ==
  CASE stage[s] = "got" /\ Refuses(s) -> answer[s]
    [] stage[s] = "done" /\ request[s].op = "init" -> OK
    [] stage[s] = "done" /\ request[s].op = "upsert" /\ answer[s] = OK -> request[s].item
    [] stage[s] = "done" /\ request[s].op = "upsert" /\ answer[s] = Error -> Error
    [] OTHER -> Nothing

Versioned == INSTANCE VersionedStore WITH
  Request <- Requests,
  outcome <- [s \in Store |-> Outcome(s)],
  spoiled <- [s \in Store |-> watch[ConnOf[s]] = "dirty"]

\* WATCH, HGET and EXEC with their retries, in between the writes of other stores, are
\* one atomic versioned upsert, and init one step, except where the connection was
\* lost, is believed to be down, or is shared.
ImplementsVersionedStore == Versioned!Spec

\* Retries and lost connections end: once nobody starts another write, all writes
\* have called back.
EveryWriteCallsBack == <>[](\A s \in Store : stage[s] = "idle")

\* index.d.ts: upsert() should not overwrite any existing data if the existing version
\* is greater than or equal to the new one.
NeverOverwritesNewer ==
  [][\A k \in Key :
       data[k] # Absent /\ data'[k] # data[k] =>
         \/ \E s \in Store : request[s].op = "init" /\ Exec(s)
         \/ data'[k] # Absent /\ data[k].version < data'[k].version]_vars
=============================================================================
