-------------------------- MODULE RedisStoreProofs --------------------------
(* WATCH, HGET, EXEC and the retries of redis_feature_store.js are one atomic versioned
   upsert, for any number of stores, connections, keys and writes, with the excuses that
   VersionedStore names.

   That an upsert writes over an older version only (Guarded) is inductive together
   with what makes it rely on its watch at all (WatchInv): it has read the old item
   under a watch, which only an EXEC on its own connection or the connection's end
   takes away, and both are recorded in unguarded.                           *)
EXTENDS RedisStore, TLAPS

WatchInv ==
  \A s \in Store : ~unguarded[s] =>
    /\ stage[s] = "watch" => asks[s]
    /\ stage[s] \in {"get", "got", "exec"} /\ request[s].op = "upsert" =>
         watch[ConnOf[s]] # "none"

Inv == TypeOK /\ Guarded /\ WatchInv

-----------------------------------------------------------------------------
(* Shapes *)

\* A request that is under way is a complete record of its kind.
LEMMA RequestShape ==
  ASSUME NEW s \in Store, CallTypeOK, stage[s] # "idle"
  PROVE  /\ request[s] \in Requests
         /\ \/ /\ request[s].op = "upsert"
               /\ request[s].key \in Key /\ request[s].item \in Item
               /\ request[s].item.version \in Nat
            \/ /\ request[s].op = "init"
               /\ request[s].data \in [Key -> Item \cup {Absent}]
<1>1. request[s] \in Requests
  BY DEF CallTypeOK, CallsFit
<1> QED
  BY <1>1, RedisAssumption DEF Requests

-----------------------------------------------------------------------------
(* Types *)

LEMMA InitType == Init => TypeOK
<1>1. Init => DatabaseTypeOK
  <2> SUFFICES ASSUME Init PROVE DatabaseTypeOK
    OBVIOUS
  <2>1. link \in [Conn -> BOOLEAN]
    BY DEF Init
  <2>2. connected \in [Store -> BOOLEAN]
    BY DEF Init
  <2>3. inited \in BOOLEAN /\ watch \in [Conn -> {"none", "clean", "dirty"}]
    BY DEF Init
  <2>4. data \in [Key -> Item \cup {Absent}] /\ writes \in 0..MaxWrites /\ drops \in 0..MaxDrops
    BY RedisAssumption DEF Init
  <2> QED
    BY <2>1, <2>2, <2>3, <2>4 DEF DatabaseTypeOK
<1>2. Init => CallTypeOK
  BY DEF Init, CallTypeOK, CallsFit, NoRequest
<1> QED
  BY <1>1, <1>2 DEF TypeOK

\* A callback ends the call in order.
LEMMA CallBackType ==
  ASSUME CallTypeOK, NEW s \in Store, NEW with \in Item \cup {OK, Error}, CallBack(s, with)
  PROVE  CallTypeOK'
<1>1. CallsFit'
  BY DEF CallBack, CallTypeOK, CallsFit
<1>2. reported' \in Store \X (Item \cup {OK, Error})
  BY DEF CallBack
<1>3. /\ request' \in [Store -> Requests \cup {NoRequest}]
      /\ stage' \in [Store -> {"idle", "watch", "get", "got", "exec", "done"}]
      /\ asks' \in [Store -> BOOLEAN] /\ unguarded' \in [Store -> BOOLEAN]
      /\ answer' \in [Store -> Item \cup {Absent, OK, Nil, Error, Nothing}]
  BY DEF CallBack, CallTypeOK
<1> QED
  BY <1>1, <1>2, <1>3 DEF CallTypeOK

\* So does the start of an attempt for an upsert that is or was under way.
LEMMA AttemptType ==
  ASSUME CallTypeOK, connected \in [Store -> BOOLEAN], NEW s \in Store, Attempt(s),
         request' \in [Store -> Requests \cup {NoRequest}],
         \A t \in Store : t # s => request'[t] = request[t],
         request'[s] \in Requests, request'[s].op = "upsert",
         UNCHANGED reported
  PROVE  CallTypeOK'
<1>1. request'[s] # NoRequest
  BY DEF NoRequest
<1>2. CallsFit'
  BY <1>1 DEF Attempt, CallTypeOK, CallsFit
<1>3. /\ stage' \in [Store -> {"idle", "watch", "get", "got", "exec", "done"}]
      /\ asks' \in [Store -> BOOLEAN] /\ unguarded' \in [Store -> BOOLEAN]
      /\ answer' \in [Store -> Item \cup {Absent, OK, Nil, Error, Nothing}]
  BY DEF Attempt, CallTypeOK
<1> QED
  BY <1>2, <1>3 DEF CallTypeOK

LEMMA WriteType ==
  ASSUME TypeOK, NEW s \in Store,
         (\E u \in Upserts : UpsertInternal(s, u)) \/ (\E d \in Datasets : InitInternal(s, d))
  PROVE  TypeOK'
<1>1. DatabaseTypeOK'
  BY RedisAssumption DEF UpsertInternal, InitInternal, TypeOK, DatabaseTypeOK, dbVars, linkVars
<1>2. ASSUME NEW u \in Upserts, UpsertInternal(s, u) PROVE CallTypeOK'
  <2> DEFINE req == [op |-> "upsert", key |-> u.key, item |-> u.item]
  <2>1. req \in Requests /\ req.op = "upsert"
    BY DEF Requests
  <2>2. request' = [request EXCEPT ![s] = req]
    BY <1>2 DEF UpsertInternal
  <2> HIDE DEF req
  <2> QED
    BY <1>2, <2>1, <2>2, AttemptType DEF UpsertInternal, TypeOK, DatabaseTypeOK, CallTypeOK
<1>3. ASSUME NEW d \in Datasets, InitInternal(s, d) PROVE CallTypeOK'
  <2> DEFINE req == [op |-> "init", data |-> d]
  <2>1. req \in Requests /\ req.op = "init" /\ req # NoRequest
    BY DEF Requests, NoRequest
  <2>2. request' = [request EXCEPT ![s] = req]
    BY <1>3 DEF InitInternal
  <2> HIDE DEF req
  <2> QED
    BY <1>3, <2>1, <2>2 DEF InitInternal, TypeOK, CallTypeOK, CallsFit
<1> QED
  BY <1>1, <1>2, <1>3 DEF TypeOK

LEMMA AnsweredType == ASSUME TypeOK, NEW s \in Store, Answered(s) PROVE TypeOK'
<1>1. DatabaseTypeOK'
  BY DEF Answered, GetAnswered, UpsertAnswered, InitAnswered, TypeOK, DatabaseTypeOK,
         dbVars, linkVars
<1>2. CASE GetAnswered(s) /\ Refuses(s)
  <2>1. OldItem(s) \in Item
    BY <1>2 DEF GetAnswered, Refuses, OldItem, TypeOK, CallTypeOK, CallsFit
  <2>2. CallBack(s, OldItem(s))
    BY <1>2 DEF GetAnswered
  <2>3. CallTypeOK'
    BY <2>1, <2>2, CallBackType DEF TypeOK
  <2> QED
    BY <1>1, <2>3 DEF TypeOK
<1>3. CASE GetAnswered(s) /\ ~Refuses(s)
  <2>1. /\ stage[s] = "got" /\ stage' = [stage EXCEPT ![s] = "exec"]
        /\ answer' = [answer EXCEPT ![s] = Nothing]
        /\ UNCHANGED <<request, asks, reported, unguarded>>
    BY <1>3 DEF GetAnswered
  <2>2. CallTypeOK'
    BY <2>1 DEF TypeOK, CallTypeOK, CallsFit
  <2> QED
    BY <1>1, <2>2 DEF TypeOK
<1>4. CASE UpsertAnswered(s) /\ Retries(s)
  <2>1. request[s] \in Requests
    BY <1>4, RequestShape DEF UpsertAnswered, ExecAnswered, TypeOK
  <2>2. Attempt(s) /\ UNCHANGED <<request, reported>> /\ request[s].op = "upsert"
    BY <1>4 DEF UpsertAnswered
  <2>3. CallTypeOK'
    BY <2>1, <2>2, AttemptType DEF TypeOK, DatabaseTypeOK, CallTypeOK
  <2> QED
    BY <1>1, <2>3 DEF TypeOK
<1>5. CASE UpsertAnswered(s) /\ ~Retries(s)
  <2>1. request[s].item \in Item
    BY <1>5, RequestShape DEF UpsertAnswered, ExecAnswered, TypeOK
  <2>2. \E with \in Item \cup {Error} : CallBack(s, with)
    BY <1>5, <2>1 DEF UpsertAnswered
  <2>3. CallTypeOK'
    BY <2>2, CallBackType DEF TypeOK
  <2> QED
    BY <1>1, <2>3 DEF TypeOK
<1>6. CASE InitAnswered(s)
  <2>1. CallBack(s, OK)
    BY <1>6 DEF InitAnswered
  <2>2. CallTypeOK'
    BY <2>1, CallBackType DEF TypeOK
  <2> QED
    BY <1>1, <2>2 DEF TypeOK
<1> QED
  BY <1>2, <1>3, <1>4, <1>5, <1>6 DEF Answered

LEMMA ExecType == ASSUME TypeOK, NEW s \in Store, Exec(s) PROVE TypeOK'
<1>1. data' \in [Key -> Item \cup {Absent}]
  <2>1. CASE request[s].op = "upsert"
    BY <2>1, RequestShape DEF Exec, Written, TypeOK, DatabaseTypeOK, dbVars
  <2>2. CASE request[s].op # "upsert"
    BY <2>2, RequestShape DEF Exec, Written, TypeOK, DatabaseTypeOK, dbVars
  <2> QED
    BY <2>1, <2>2
<1>2. inited' \in BOOLEAN
  <2>1. inited' = inited \/ inited' = (inited \/ request[s].op = "init")
    BY DEF Exec, dbVars
  <2> QED
    BY <2>1, Zenon DEF TypeOK, DatabaseTypeOK
<1>3. watch' \in [Conn -> {"none", "clean", "dirty"}]
  BY DEF Exec, WatchAfterExec, TypeOK, DatabaseTypeOK
<1>4. CallTypeOK'
  <2>1. unguarded' \in [Store -> BOOLEAN]
    BY DEF Exec
  <2>2. /\ answer' \in [Store -> Item \cup {Absent, OK, Nil, Error, Nothing}]
        /\ answer'[s] \in {OK, Nil} /\ \A t \in Store \ {s} : answer'[t] = answer[t]
        /\ stage' = [stage EXCEPT ![s] = "done"] /\ stage[s] = "exec"
        /\ UNCHANGED <<request, asks, reported>>
    BY DEF Exec, TypeOK, CallTypeOK
  <2>3. CallsFit'
    BY <2>2 DEF TypeOK, CallTypeOK, CallsFit
  <2> QED
    BY <2>1, <2>2, <2>3 DEF TypeOK, CallTypeOK
<1> QED
  BY <1>1, <1>2, <1>3, <1>4 DEF Exec, TypeOK, DatabaseTypeOK

LEMMA NextType == ASSUME TypeOK, [Next]_vars PROVE TypeOK'
<1>1. ASSUME NEW s \in Store, Watch(s) PROVE TypeOK'
  BY <1>1 DEF Watch, TypeOK, DatabaseTypeOK, CallTypeOK, CallsFit, dbVars
<1>2. ASSUME NEW s \in Store, HGet(s) PROVE TypeOK'
  <2>1. request[s].key \in Key
    BY <1>2, RequestShape DEF HGet, TypeOK, CallTypeOK, CallsFit
  <2> QED
    BY <1>2, <2>1 DEF HGet, TypeOK, DatabaseTypeOK, CallTypeOK, CallsFit, dbVars, linkVars
<1>3. ASSUME NEW c \in Conn, Disconnect(c) PROVE TypeOK'
  BY <1>3, RedisAssumption
     DEF Disconnect, TypeOK, DatabaseTypeOK, CallTypeOK, CallsFit, dbVars
<1>4. ASSUME NEW c \in Conn, Connect(c) PROVE TypeOK'
  BY <1>4 DEF Connect, TypeOK, DatabaseTypeOK, CallTypeOK, CallsFit, dbVars, callVars
<1>5. CASE UNCHANGED vars
  BY <1>5 DEF vars, dbVars, linkVars, callVars, TypeOK, DatabaseTypeOK, CallTypeOK, CallsFit
<1> QED
  BY <1>1, <1>2, <1>3, <1>4, <1>5, WriteType, AnsweredType, ExecType
     DEF Next, Answered, Performs

-----------------------------------------------------------------------------
(* The watch guards the upsert *)

\* What Guarded and WatchInv say of one store.
Guards(t) ==
  ~unguarded[t] =>
    /\ stage[t] = "watch" => asks[t]
    /\ stage[t] \in {"get", "got", "exec"} /\ request[t].op = "upsert" =>
         watch[ConnOf[t]] # "none"
    /\ watch[ConnOf[t]] # "dirty" =>
         /\ stage[t] = "got" => answer[t] = data[request[t].key]
         /\ stage[t] = "exec" /\ request[t].op = "upsert" =>
              Newer(request[t].item, data[request[t].key])

LEMMA GuardsAll == Guarded /\ WatchInv <=> \A t \in Store : Guards(t)
  BY DEF Guarded, WatchInv, Guards

\* A step that changes one store's call and nothing else does not disturb the others.
LEMMA OthersGuarded ==
  ASSUME TypeOK, NEW s \in Store, NEW t \in Store \ {s}, Guards(t),
         Answered(s) \/ HGet(s)
           \/ (\E u \in Upserts : UpsertInternal(s, u))
           \/ (\E d \in Datasets : InitInternal(s, d))
  PROVE  Guards(t)'
<1>1. /\ UNCHANGED <<data, watch>>
      /\ unguarded'[t] = unguarded[t] /\ stage'[t] = stage[t] /\ asks'[t] = asks[t]
      /\ request'[t] = request[t] /\ answer'[t] = answer[t]
  BY DEF Answered, GetAnswered, UpsertAnswered, InitAnswered, HGet, UpsertInternal,
         InitInternal, Attempt, CallBack, TypeOK, CallTypeOK, dbVars, linkVars
<1> QED
  BY <1>1 DEF Guards

LEMMA AttemptGuarded ==
  ASSUME TypeOK, NEW s \in Store, Attempt(s) PROVE Guards(s)'
  BY DEF Attempt, Guards, TypeOK, DatabaseTypeOK, CallTypeOK

\* EXEC is sent only where what HGET answered allows it.
LEMMA GetAnsweredGuarded ==
  ASSUME TypeOK, NEW s \in Store, Guards(s), GetAnswered(s) PROVE Guards(s)'
<1>1. CASE Refuses(s)
  BY <1>1 DEF GetAnswered, CallBack, Guards, TypeOK, CallTypeOK
<1>2. CASE ~Refuses(s)
  <2>1. /\ stage[s] = "got" /\ stage'[s] = "exec"
        /\ UNCHANGED <<data, watch, request, unguarded>>
    BY <1>2 DEF GetAnswered, TypeOK, CallTypeOK, dbVars, linkVars
  <2>2. request[s].op = "upsert" /\ request[s].key \in Key /\ request[s].item.version \in Nat
    BY <2>1, RequestShape DEF TypeOK, CallTypeOK, CallsFit
  <2>3. data[request[s].key] \in Item \cup {Absent}
    BY <2>2 DEF TypeOK, DatabaseTypeOK
  <2>4. ASSUME answer[s] = data[request[s].key]
        PROVE  Newer(request[s].item, data[request[s].key])
    BY <1>2, <2>2, <2>3, <2>4, RedisAssumption DEF Refuses, OldItem, Newer
  <2> QED
    BY <2>1, <2>2, <2>4 DEF Guards, Newer
<1> QED
  BY <1>1, <1>2

LEMMA CallerGuarded ==
  ASSUME TypeOK, NEW s \in Store, Guards(s),
         Answered(s) \/ HGet(s)
           \/ (\E u \in Upserts : UpsertInternal(s, u))
           \/ (\E d \in Datasets : InitInternal(s, d))
  PROVE  Guards(s)'
<1>1. CASE GetAnswered(s)
  BY <1>1, GetAnsweredGuarded
<1>2. CASE UpsertAnswered(s)
  <2>1. CASE Retries(s)
    BY <1>2, <2>1, AttemptGuarded DEF UpsertAnswered
  <2>2. CASE ~Retries(s)
    BY <1>2, <2>2 DEF UpsertAnswered, CallBack, Guards, TypeOK, CallTypeOK
  <2> QED
    BY <2>1, <2>2
<1>3. CASE InitAnswered(s)
  BY <1>3 DEF InitAnswered, CallBack, Guards, TypeOK, CallTypeOK
<1>4. CASE HGet(s)
  BY <1>4 DEF HGet, Guards, TypeOK, CallTypeOK, dbVars, linkVars
<1>5. ASSUME NEW u \in Upserts, UpsertInternal(s, u) PROVE Guards(s)'
  BY <1>5, AttemptGuarded DEF UpsertInternal
<1>6. ASSUME NEW d \in Datasets, InitInternal(s, d) PROVE Guards(s)'
  <2>1. stage'[s] = "exec" /\ request'[s].op = "init"
    BY <1>6 DEF InitInternal, TypeOK, CallTypeOK
  <2> QED
    BY <2>1 DEF Guards
<1> QED
  BY <1>1, <1>2, <1>3, <1>4, <1>5, <1>6 DEF Answered

LEMMA WatchGuarded ==
  ASSUME TypeOK, NEW s \in Store, NEW t \in Store, Guards(t), Watch(s) PROVE Guards(t)'
<1>1. /\ UNCHANGED <<data, request, asks, answer, unguarded>>
      /\ t # s => stage'[t] = stage[t]
      /\ t = s => stage[t] = "watch" /\ stage'[t] = IF asks[t] THEN "get" ELSE "exec"
      /\ watch' = [watch EXCEPT ![ConnOf[s]] = IF @ = "none" THEN "clean" ELSE @]
  BY DEF Watch, TypeOK, CallTypeOK, dbVars
<1>2. ConnOf[t] \in Conn /\ ConnOf[s] \in Conn /\ watch \in [Conn -> {"none", "clean", "dirty"}]
  BY RedisAssumption DEF TypeOK, DatabaseTypeOK
<1>3. /\ watch[ConnOf[t]] # "none" => watch'[ConnOf[t]] = watch[ConnOf[t]]
      /\ t = s => watch'[ConnOf[t]] # "none"
  BY <1>1, <1>2
<1> QED
  BY <1>1, <1>3 DEF Guards, TypeOK, CallTypeOK, CallsFit

\* Another connection's EXEC that changes the data makes the watch dirty, one on the
\* same connection ends it.
LEMMA ExecGuarded ==
  ASSUME TypeOK, NEW s \in Store, NEW t \in Store, Guards(t), Exec(s) PROVE Guards(t)'
<1> SUFFICES ASSUME ~unguarded'[t] PROVE Guards(t)'
  BY DEF Guards
<1>1. /\ ~unguarded[t]
      /\ t # s /\ ConnOf[t] = ConnOf[s] =>
           ~(stage[t] \in {"get", "got", "exec"} /\ request[t].op = "upsert")
      /\ UNCHANGED <<request, asks>>
      /\ t # s => stage'[t] = stage[t] /\ answer'[t] = answer[t]
      /\ t = s => stage'[t] = "done"
  BY DEF Exec, Sharing, TypeOK, CallTypeOK
<1>2. CASE t = s
  BY <1>1, <1>2 DEF Guards
<1>3. CASE t # s /\ ConnOf[t] = ConnOf[s]
  BY <1>1, <1>3 DEF Guards, TypeOK, CallTypeOK, CallsFit
<1>4. CASE ConnOf[t] # ConnOf[s]
  <2>1. /\ watch[ConnOf[t]] # "none" => watch'[ConnOf[t]] # "none"
        /\ watch'[ConnOf[t]] # "dirty" => watch[ConnOf[t]] # "dirty"
    BY <1>4, RedisAssumption DEF Exec, WatchAfterExec, TypeOK, DatabaseTypeOK
  <2>2. ASSUME watch[ConnOf[t]] # "none", watch'[ConnOf[t]] # "dirty"
        PROVE  \A k \in Key : data'[k] = data[k]
    BY <1>4, <2>1, <2>2, RedisAssumption DEF Exec, WatchAfterExec, TypeOK, DatabaseTypeOK, dbVars
  <2>3. stage[t] \in {"got", "exec"} => request[t].op = "init" \/ request[t].key \in Key
    BY RequestShape DEF TypeOK
  <2> QED
    BY <1>1, <1>4, <2>1, <2>2, <2>3 DEF Guards, Newer, TypeOK, CallTypeOK, CallsFit
<1> QED
  BY <1>2, <1>3, <1>4

LEMMA DisconnectGuarded ==
  ASSUME TypeOK, NEW c \in Conn, NEW t \in Store, Guards(t), Disconnect(c) PROVE Guards(t)'
<1> SUFFICES ASSUME ~unguarded'[t] PROVE Guards(t)'
  BY DEF Guards
<1>1. /\ ~unguarded[t] /\ (ConnOf[t] = c => stage[t] = "idle")
      /\ stage'[t] = stage[t] /\ answer'[t] = answer[t]
      /\ UNCHANGED <<data, request, asks>>
      /\ ConnOf[t] # c => watch'[ConnOf[t]] = watch[ConnOf[t]]
  BY RedisAssumption DEF Disconnect, TypeOK, DatabaseTypeOK, CallTypeOK, dbVars
<1> QED
  BY <1>1 DEF Guards

LEMMA InitGuarded == Init => Guarded /\ WatchInv
  BY DEF Init, Guarded, WatchInv

LEMMA NextGuarded == ASSUME Inv, [Next]_vars PROVE Guarded' /\ WatchInv'
<1> SUFFICES ASSUME NEW t \in Store PROVE Guards(t)'
  BY DEF Guarded, WatchInv, Guards
<1>1. TypeOK /\ Guards(t)
  BY GuardsAll DEF Inv
<1>2. ASSUME NEW s \in Store,
             Answered(s) \/ HGet(s)
               \/ (\E u \in Upserts : UpsertInternal(s, u))
               \/ (\E d \in Datasets : InitInternal(s, d))
      PROVE  Guards(t)'
  <2>1. CASE t = s
    BY <1>1, <1>2, <2>1, CallerGuarded
  <2>2. CASE t # s
    BY <1>1, <1>2, <2>2, OthersGuarded
  <2> QED
    BY <2>1, <2>2
<1>3. ASSUME NEW s \in Store, Watch(s) PROVE Guards(t)'
  BY <1>1, <1>3, WatchGuarded
<1>4. ASSUME NEW s \in Store, Exec(s) PROVE Guards(t)'
  BY <1>1, <1>4, ExecGuarded
<1>5. ASSUME NEW c \in Conn, Disconnect(c) PROVE Guards(t)'
  BY <1>1, <1>5, DisconnectGuarded
<1>6. ASSUME NEW c \in Conn, Connect(c) PROVE Guards(t)'
  BY <1>1, <1>6 DEF Connect, Guards, dbVars, callVars
<1>7. CASE UNCHANGED vars
  BY <1>1, <1>7 DEF vars, dbVars, linkVars, callVars, Guards
<1> QED
  BY <1>2, <1>3, <1>4, <1>5, <1>6, <1>7 DEF Next, Performs

LEMMA InvHolds == Spec => []Inv
<1>1. Init => Inv
  BY InitType, InitGuarded DEF Inv
<1>2. Inv /\ [Next]_vars => Inv'
  BY NextType, NextGuarded DEF Inv
<1> QED
  BY <1>1, <1>2, PTL DEF Spec

\* Every variable of the stores, their connections and the database keeps its type.
THEOREM RedisTypeCorrect == Spec => []TypeOK
<1>1. Inv => TypeOK
  BY DEF Inv
<1> QED
  BY <1>1, InvHolds, PTL

\* An EXEC that can succeed, under a watch that can be relied on, writes over an older
\* version only, whatever other stores and processes do in between.
THEOREM UpsertGuarded == Spec => []Guarded
<1>1. Inv => Guarded
  BY DEF Inv
<1> QED
  BY <1>1, InvHolds, PTL

-----------------------------------------------------------------------------
(* The refinement *)

Outcomes == [t \in Store |-> Outcome(t)]

\* One step of one call settles the outcome of that call at most.
LEMMA OneOutcome ==
  ASSUME NEW s \in Store,
         \A t \in Store \ {s} : /\ request'[t] = request[t] /\ stage'[t] = stage[t]
                                /\ answer'[t] = answer[t]
  PROVE  Outcomes' = [Outcomes EXCEPT ![s] = Outcome(s)']
<1>1. ASSUME NEW t \in Store \ {s} PROVE Outcome(t)' = Outcome(t)
  BY <1>1 DEF Outcome, Refuses, OldItem
<1> QED
  BY <1>1 DEF Outcomes

LEMMA OutcomeType ==
  ASSUME TypeOK, NEW s \in Store PROVE Outcome(s) \in Item \cup {Nothing, Error, OK}
<1>1. CASE stage[s] = "got"
  BY <1>1 DEF Outcome, Refuses, OldItem, TypeOK, CallTypeOK, CallsFit
<1>2. CASE stage[s] = "done"
  <2>1. request[s].op = "init" \/ (request[s].op = "upsert" /\ request[s].item \in Item)
    BY <1>2, RequestShape DEF TypeOK
  <2> QED
    BY <1>2, <2>1 DEF Outcome, TypeOK, CallTypeOK, CallsFit
<1>3. CASE stage[s] \notin {"got", "done"}
  BY <1>3 DEF Outcome
<1> QED
  BY <1>1, <1>2, <1>3

\* The variables of VersionedStore, as it sees them.
Abstract == <<data, inited, request, Outcomes, reported>>

LEMMA AbstractVars == Versioned!versionedVars = Abstract
  BY DEF Versioned!versionedVars, Abstract, Outcomes

LEMMA CallRefines ==
  ASSUME TypeOK, NEW s \in Store,
         (\E u \in Upserts : UpsertInternal(s, u)) \/ (\E d \in Datasets : InitInternal(s, d))
  PROVE  Versioned!Next
<1>1. PICK req \in Requests :
        /\ request[s] = NoRequest /\ request' = [request EXCEPT ![s] = req]
        /\ stage[s] = "idle" /\ stage'[s] \in {"watch", "exec"}
        /\ \A t \in Store \ {s} : /\ request'[t] = request[t] /\ stage'[t] = stage[t]
                                  /\ answer'[t] = answer[t]
        /\ UNCHANGED <<data, inited, reported>>
  <2>1. ASSUME NEW u \in Upserts, UpsertInternal(s, u)
        PROVE  [op |-> "upsert", key |-> u.key, item |-> u.item] \in Requests
    BY DEF Requests
  <2>2. ASSUME NEW d \in Datasets, InitInternal(s, d)
        PROVE  [op |-> "init", data |-> d] \in Requests
    BY DEF Requests
  <2> QED
    BY <2>1, <2>2 DEF UpsertInternal, InitInternal, Attempt, TypeOK, CallTypeOK, CallsFit,
                      dbVars, linkVars
<1>2. Outcome(s) = Nothing /\ Outcome(s)' = Nothing
  BY <1>1 DEF Outcome
<1>3. Outcomes' = Outcomes
  BY <1>1, <1>2, OneOutcome DEF Outcomes
<1>4. Versioned!Call(s, req)
  BY <1>1, <1>3 DEF Versioned!Call, Outcomes
<1> QED
  BY <1>4 DEF Versioned!Next

\* A callback reports the outcome.
LEMMA CallBackRefines ==
  ASSUME TypeOK, NEW s \in Store, stage[s] # "idle", Outcome(s) # Nothing,
         CallBack(s, Outcome(s)), UNCHANGED dbVars
  PROVE  Versioned!Next
<1>1. Outcome(s)' = Nothing
  <2>1. stage'[s] = "idle"
    BY DEF CallBack, TypeOK, CallTypeOK
  <2> QED
    BY <2>1 DEF Outcome
<1>2. Outcomes' = [Outcomes EXCEPT ![s] = Nothing]
  BY <1>1, OneOutcome DEF CallBack, TypeOK, CallTypeOK
<1>3. request[s] # NoRequest
  BY DEF TypeOK, CallTypeOK, CallsFit
<1>4. Versioned!Return(s)
  BY <1>2, <1>3 DEF Versioned!Return, CallBack, Outcomes, dbVars
<1> QED
  BY <1>4 DEF Versioned!Next

\* A step that settles nothing is a stutter.
LEMMA Unsettled ==
  ASSUME NEW s \in Store, Outcome(s) = Nothing, Outcome(s)' = Nothing,
         \A t \in Store \ {s} : /\ request'[t] = request[t] /\ stage'[t] = stage[t]
                                /\ answer'[t] = answer[t],
         UNCHANGED <<data, inited, request, reported>>
  PROVE  UNCHANGED Versioned!versionedVars
<1>1. Outcomes' = Outcomes
  BY OneOutcome DEF Outcomes
<1> QED
  BY <1>1, AbstractVars DEF Abstract, Versioned!versionedVars, Outcomes

LEMMA AnsweredRefines ==
  ASSUME TypeOK, NEW s \in Store, Answered(s)
  PROVE  Versioned!Next \/ UNCHANGED Versioned!versionedVars
<1>1. CASE GetAnswered(s) /\ Refuses(s)
  <2>1. stage[s] = "got" /\ answer[s] \in Item /\ CallBack(s, OldItem(s)) /\ UNCHANGED dbVars
    BY <1>1 DEF GetAnswered, Refuses, OldItem, TypeOK, CallTypeOK, CallsFit
  <2>2. Outcome(s) = answer[s] /\ OldItem(s) = answer[s] /\ answer[s] # Nothing
    BY <1>1, <2>1, RedisAssumption DEF Outcome, OldItem
  <2> QED
    BY <2>1, <2>2, CallBackRefines
<1>2. CASE GetAnswered(s) /\ ~Refuses(s)
  <2>1. /\ stage[s] = "got" /\ stage'[s] = "exec"
        /\ \A t \in Store \ {s} : stage'[t] = stage[t] /\ answer'[t] = answer[t]
        /\ UNCHANGED <<data, inited, request, reported>>
    BY <1>2 DEF GetAnswered, TypeOK, CallTypeOK, dbVars
  <2>2. Outcome(s) = Nothing /\ Outcome(s)' = Nothing
    BY <1>2, <2>1 DEF Outcome
  <2> QED
    BY <2>1, <2>2, Unsettled
<1>3. CASE UpsertAnswered(s) /\ Retries(s)
  <2>1. /\ stage[s] = "done" /\ request[s].op = "upsert" /\ answer[s] = Nil
        /\ stage'[s] = "watch"
        /\ \A t \in Store \ {s} : stage'[t] = stage[t] /\ answer'[t] = answer[t]
        /\ UNCHANGED <<data, inited, request, reported>>
    BY <1>3 DEF UpsertAnswered, ExecAnswered, Retries, Attempt, TypeOK, CallTypeOK, dbVars
  <2>2. Outcome(s) = Nothing /\ Outcome(s)' = Nothing
    BY <2>1, RedisAssumption DEF Outcome
  <2> QED
    BY <2>1, <2>2, Unsettled
<1>4. CASE UpsertAnswered(s) /\ ~Retries(s)
  <2>1. /\ stage[s] = "done" /\ request[s].op = "upsert" /\ answer[s] \in {OK, Error}
        /\ CallBack(s, IF answer[s] = Error THEN Error ELSE request[s].item)
        /\ UNCHANGED dbVars
    BY <1>4 DEF UpsertAnswered, ExecAnswered, Retries, TypeOK, CallTypeOK, CallsFit
  <2>2. request[s].item \in Item
    BY <2>1, RequestShape DEF TypeOK
  <2>3. /\ Outcome(s) = IF answer[s] = Error THEN Error ELSE request[s].item
        /\ Outcome(s) # Nothing
    BY <2>1, <2>2, RedisAssumption DEF Outcome
  <2> QED
    BY <2>1, <2>3, CallBackRefines
<1>5. CASE InitAnswered(s)
  <2>1. stage[s] = "done" /\ request[s].op = "init" /\ CallBack(s, OK) /\ UNCHANGED dbVars
    BY <1>5 DEF InitAnswered, ExecAnswered
  <2>2. Outcome(s) = OK /\ OK # Nothing
    BY <2>1, RedisAssumption DEF Outcome
  <2> QED
    BY <2>1, <2>2, CallBackRefines
<1> QED
  BY <1>1, <1>2, <1>3, <1>4, <1>5 DEF Answered

LEMMA WatchRefines ==
  ASSUME TypeOK, NEW s \in Store, Watch(s) PROVE UNCHANGED Versioned!versionedVars
<1>1. /\ stage[s] = "watch" /\ stage'[s] \in {"get", "exec"}
      /\ \A t \in Store \ {s} : stage'[t] = stage[t]
      /\ UNCHANGED <<data, inited, request, answer, reported>>
  BY DEF Watch, TypeOK, CallTypeOK, dbVars
<1>2. Outcome(s) = Nothing /\ Outcome(s)' = Nothing
  BY <1>1 DEF Outcome
<1> QED
  BY <1>1, <1>2, Unsettled

\* An upsert takes effect when it reads an item that is not older ...
LEMMA HGetRefines ==
  ASSUME TypeOK, NEW s \in Store, HGet(s)
  PROVE  Versioned!Next \/ UNCHANGED Versioned!versionedVars
<1> DEFINE k == request[s].key
<1>1. /\ stage[s] = "get" /\ stage'[s] = "got" /\ answer'[s] = data[k]
      /\ \A t \in Store \ {s} : stage'[t] = stage[t] /\ answer'[t] = answer[t]
      /\ UNCHANGED <<data, inited, request, reported>>
  BY DEF HGet, TypeOK, CallTypeOK, dbVars
<1>2. request[s].op = "upsert" /\ k \in Key /\ request[s].item.version \in Nat
  BY <1>1, RequestShape DEF TypeOK, CallTypeOK, CallsFit
<1>3. data[k] \in Item \cup {Absent} /\ data \in [Key -> Item \cup {Absent}]
  BY <1>2 DEF TypeOK, DatabaseTypeOK
<1>4. Outcome(s) = Nothing
  BY <1>1 DEF Outcome
<1>5. CASE Refuses(s)'
  <2>1. data[k] # Absent /\ data[k].version >= request[s].item.version
    BY <1>1, <1>3, <1>5, RedisAssumption DEF Refuses, OldItem
  <2>2. ~Versioned!Newer(request[s].item, data[k])
    BY <1>2, <1>3, <2>1, RedisAssumption DEF Versioned!Newer
  <2>3. Outcome(s)' = data[k]
    BY <1>1, <1>5 DEF Outcome
  <2>4. Outcomes' = [Outcomes EXCEPT ![s] = data[k]]
    BY <1>1, <2>3, OneOutcome
  <2>5. data' = [data EXCEPT ![k] = data[k]]
    BY <1>1, <1>3
  <2>6. Versioned!Upsert(s)
    BY <1>1, <1>2, <1>4, <2>2, <2>4, <2>5 DEF Versioned!Upsert, Outcomes
  <2> QED
    BY <2>6 DEF Versioned!Next
<1>6. CASE ~Refuses(s)'
  <2>1. Outcome(s)' = Nothing
    BY <1>1, <1>6 DEF Outcome
  <2> QED
    BY <1>1, <1>4, <2>1, Unsettled
<1> QED
  BY <1>5, <1>6

\* ... or when EXEC finds nothing modified under its watch; init does with its EXEC.
LEMMA ExecRefines ==
  ASSUME TypeOK, Guarded, NEW s \in Store, Exec(s)
  PROVE  Versioned!Next \/ UNCHANGED Versioned!versionedVars
<1> DEFINE k == request[s].key
           dirty == watch[ConnOf[s]] = "dirty"
<1>1. /\ stage[s] = "exec" /\ stage'[s] = "done"
      /\ \A t \in Store \ {s} : stage'[t] = stage[t] /\ answer'[t] = answer[t]
      /\ UNCHANGED <<request, reported>>
  BY DEF Exec, TypeOK, CallTypeOK
<1>2. Outcome(s) = Nothing
  BY <1>1 DEF Outcome
<1>3. Outcomes' = [Outcomes EXCEPT ![s] = Outcome(s)']
  BY <1>1, OneOutcome
<1>4. answer'[s] = IF dirty THEN Nil ELSE OK
  BY DEF Exec, TypeOK, CallTypeOK
<1>5. CASE request[s].op = "upsert" /\ dirty
  <2>1. Outcome(s)' = Nothing
    BY <1>1, <1>4, <1>5, RedisAssumption DEF Outcome
  <2>2. UNCHANGED <<data, inited>>
    BY <1>5 DEF Exec, dbVars
  <2> QED
    BY <1>1, <1>2, <2>1, <2>2, Unsettled
<1>6. CASE request[s].op = "upsert" /\ ~dirty
  <2>1. Outcomes' = [Outcomes EXCEPT ![s] = request[s].item]
    BY <1>1, <1>3, <1>4, <1>6, RedisAssumption DEF Outcome
  <2>2. data' = [data EXCEPT ![k] = request[s].item]
    BY <1>6 DEF Exec, Written
  <2>3. inited' = inited
    <3>1. inited' = (inited \/ request[s].op = "init")
      BY <1>6 DEF Exec
    <3>2. ~(request[s].op = "init")
      BY <1>6
    <3>3. inited \in BOOLEAN
      BY DEF TypeOK, DatabaseTypeOK
    <3> QED
      BY <3>1, <3>2, <3>3, Zenon
  <2>4. CASE Newer(request[s].item, data[k])
    <3>1. Versioned!Newer(request[s].item, data[k])
      BY <2>4 DEF Newer, Versioned!Newer
    <3>2. Versioned!Upsert(s)
      BY <1>1, <1>2, <1>6, <2>1, <2>2, <2>3, <3>1 DEF Versioned!Upsert, Outcomes
    <3> QED
      BY <3>2 DEF Versioned!Next
  <2>5. CASE ~Newer(request[s].item, data[k])
    <3>1. unguarded[s]
      BY <1>1, <1>6, <2>5 DEF Guarded
    <3>2. Versioned!Overwrite(s)
      BY <1>1, <1>2, <1>6, <2>1, <2>2, <2>3, <3>1 DEF Versioned!Overwrite, Outcomes
    <3> QED
      BY <3>2 DEF Versioned!Next
  <2> QED
    BY <2>4, <2>5
<1>7. CASE request[s].op = "init" /\ dirty
  <2>1. Outcomes' = [Outcomes EXCEPT ![s] = OK]
    BY <1>1, <1>3, <1>7 DEF Outcome
  <2>2. Versioned!LoseInit(s)
    BY <1>1, <1>2, <1>7, <2>1 DEF Versioned!LoseInit, Outcomes, Exec, dbVars
  <2> QED
    BY <2>2 DEF Versioned!Next
<1>8. CASE request[s].op = "init" /\ ~dirty
  <2>1. Outcomes' = [Outcomes EXCEPT ![s] = OK]
    BY <1>1, <1>3, <1>8 DEF Outcome
  <2>2. data' = request[s].data
    BY <1>8 DEF Exec, Written
  <2>3. inited' = TRUE
    <3>1. inited' = (inited \/ request[s].op = "init")
      BY <1>8 DEF Exec
    <3> QED
      BY <1>8, <3>1, Zenon
  <2>4. Versioned!ReplaceAll(s)
    BY <1>1, <1>2, <1>8, <2>1, <2>2, <2>3 DEF Versioned!ReplaceAll, Outcomes
  <2> QED
    BY <2>4 DEF Versioned!Next
<1> QED
  BY <1>1, <1>5, <1>6, <1>7, <1>8, RequestShape DEF TypeOK

\* The end of a connection loses the answers of its calls, and nothing else.
LEMMA DisconnectRefines ==
  ASSUME TypeOK, NEW c \in Conn, Disconnect(c) PROVE Versioned!Next
<1> DEFINE broken(s) == ConnOf[s] = c /\ stage[s] # "idle"
<1>1. UNCHANGED <<data, inited, request, reported>>
  BY DEF Disconnect, dbVars
<1>2. ASSUME NEW s \in Store, ~broken(s) PROVE Outcome(s)' = Outcome(s)
  BY <1>1, <1>2 DEF Disconnect, Outcome, Refuses, OldItem
<1>3. ASSUME NEW s \in Store, broken(s)
      PROVE  /\ unguarded'[s]
             /\ \/ request[s].op = "upsert" /\ Outcome(s)' \in {Nothing, Error}
                \/ request[s].op = "init" /\ Outcome(s)' = OK
  <2>1. /\ unguarded'[s] /\ answer'[s] = Error
        /\ stage'[s] = IF asks[s] /\ stage[s] \in {"watch", "get", "got"}
                         THEN "got" ELSE "done"
    BY <1>3 DEF Disconnect
  <2>2. CASE stage'[s] = "got"
    <3>1. request[s].op = "upsert"
      BY <2>1, <2>2 DEF TypeOK, CallTypeOK, CallsFit
    <3>2. ~Refuses(s)'
      BY <2>1 DEF Refuses, OldItem
    <3>3. Outcome(s)' = Nothing
      BY <2>2, <3>2 DEF Outcome
    <3> QED
      BY <2>1, <3>1, <3>3
  <2>3. CASE stage'[s] = "done"
    <3>1. request[s].op \in {"upsert", "init"}
      BY <1>3, RequestShape DEF TypeOK
    <3>2. Error # OK
      BY RedisAssumption
    <3> QED
      BY <1>1, <2>1, <2>3, <3>1, <3>2 DEF Outcome
  <2> QED
    BY <2>1, <2>2, <2>3
<1>4. ASSUME NEW s \in Store PROVE Outcome(s)' \in Item \cup {Nothing, Error, OK}
  BY <1>2, <1>3, OutcomeType
<1>5. Versioned!Disturb
  BY <1>1, <1>2, <1>3, <1>4 DEF Versioned!Disturb
<1> QED
  BY <1>5 DEF Versioned!Next

LEMMA SameCalls ==
  ASSUME UNCHANGED <<dbVars, callVars>> PROVE UNCHANGED Versioned!versionedVars
<1>1. \A t \in Store : Outcome(t)' = Outcome(t)
  BY DEF callVars, Outcome, Refuses, OldItem
<1> QED
  BY <1>1 DEF Versioned!versionedVars, dbVars, callVars

LEMMA InitRefines == Init => Versioned!Init
<1> SUFFICES ASSUME Init PROVE Versioned!Init
  OBVIOUS
<1>1. \A s \in Store : Outcome(s) = Nothing
  BY DEF Init, Outcome
<1>2. data \in [Key -> Item \cup {Absent}] /\ inited \in BOOLEAN
  BY InitType DEF TypeOK, DatabaseTypeOK
<1> QED
  BY <1>1, <1>2 DEF Init, Versioned!Init

LEMMA NextRefines ==
  ASSUME Inv, [Next]_vars PROVE [Versioned!Next]_(Versioned!versionedVars)
<1>1. TypeOK /\ Guarded
  BY DEF Inv
<1>2. ASSUME NEW c \in Conn, Connect(c) PROVE UNCHANGED Versioned!versionedVars
  BY <1>2, SameCalls DEF Connect
<1>3. CASE UNCHANGED vars
  BY <1>3, SameCalls DEF vars
<1> QED
  BY <1>1, <1>2, <1>3, CallRefines, AnsweredRefines, WatchRefines, HGetRefines, ExecRefines,
     DisconnectRefines DEF Next, Performs

\* What a store does with WATCH, HGET, EXEC and its retries, in between the commands of
\* the others, is one atomic versioned upsert or init, or what VersionedStore excuses.
THEOREM RedisImplements == Spec => ImplementsVersionedStore
<1>1. Init => Versioned!Init
  BY InitRefines
<1>2. Inv /\ [Next]_vars => [Versioned!Next]_(Versioned!versionedVars)
  BY NextRefines
<1> QED
  BY <1>1, <1>2, InvHolds, PTL DEF Spec, ImplementsVersionedStore, Versioned!Spec

=============================================================================
