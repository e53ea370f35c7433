--------------------------- MODULE EventProcessor ---------------------------
(* event_processor.js and event_summarizer.js: the event queue and its limit, the
   index events, the summary, the payloads and their single retry, the shutdown
   that an unrecoverable HTTP status causes, and the diagnostic events, which are
   posted by the same function.

   The events service is external.  It recognises a payload id it has seen; any
   request may fail before or after the service has processed it.  Whether a
   debugging date has passed is left open, so the clocks are not modelled.  No timer
   is obliged to fire, so a processor whose close() cleared the timers is one that
   takes no step of theirs.

   Operators named <name>_<variant> are mistakes the runs must detect.       *)
EXTENDS Naturals, Sequences

CONSTANTS
  User, NoUser,      \* users, and an event without one
  Counter,           \* (flag, variation, version) triples of the summary
  Event,             \* [kind, user, tracked, debug, counter] records sent
  Capacity,          \* config.capacity
  UserKeysCapacity,  \* config.userKeysCapacity
  InlineUsers,       \* config.inlineUsersInEvents
  MaxEvents,         \* bound: sendEvent() calls in a behaviour
  MaxPosts           \* bound: payloads in a behaviour

ASSUME EventAssumption ==
  /\ NoUser \notin User
  /\ Event \subseteq [kind : {"feature", "identify", "custom"}, user : User \cup {NoUser},
                      tracked : BOOLEAN, debug : BOOLEAN, counter : Counter]
  /\ Capacity \in Nat /\ UserKeysCapacity \in Nat \ {0} /\ InlineUsers \in BOOLEAN
  /\ MaxEvents \in Nat /\ MaxPosts \in Nat

VARIABLES
  queue,            \* output events waiting for a flush
  summary,          \* the summarizer's counters
  userKeys,         \* userKeysCache, most recently used first
  droppedEvents,    \* since the last diagnostic event
  shutdown,
  posts,            \* every call of tryPostingEvents with a new payload, in order
  processed,        \* service: how often it processed each of them
  serviceIds,       \* service: payload ids it has seen
  nextId,           \* the next payload id uuidv4() returns
  sent,             \* history: sendEvent() calls so far
  accepted,         \* history: output events that entered the queue
  evaluated,        \* history: feature events summarized, by counter
  totalDropped, reportedDropped,   \* history: events dropped, and put in a diagnostic event
  announced,        \* history: users whose index or identify event entered the queue
  unannounced       \* history: users whose index or identify event was dropped

queueVars == <<queue, summary, userKeys, droppedEvents>>
postVars == <<posts, nextId>>
serviceVars == <<processed, serviceIds>>
historyVars ==
  <<sent, accepted, evaluated, totalDropped, reportedDropped, announced, unannounced>>
vars == <<queueVars, shutdown, postVars, serviceVars, historyVars>>

Outputs == [kind : {"index", "feature", "debug", "identify", "custom"},
            user : User \cup {NoUser}]
NoEvaluations == [c \in Counter |-> 0]
NoId == 0
Stages == {"posting", "waiting", "resolved", "rejected"}

Init ==
  /\ queue = <<>> /\ summary = NoEvaluations /\ userKeys = <<>>
  /\ droppedEvents = 0 /\ shutdown = FALSE
  /\ posts = <<>> /\ processed = [p \in 1..MaxPosts |-> 0]
  /\ serviceIds = {} /\ nextId = 1
  /\ sent = 0 /\ accepted = 0 /\ evaluated = NoEvaluations
  /\ totalDropped = 0 /\ reportedDropped = 0
  /\ announced = {} /\ unannounced = {}

-----------------------------------------------------------------------------
(* sendEvent *)

Elements(s) == {s[i] : i \in 1..Len(s)}
Prefix(s, n) == IF Len(s) <= n THEN s ELSE SubSeq(s, 1, n)
Suffix(s, n) == SubSeq(s, n + 1, Len(s))
Out(kind, user) == [kind |-> kind, user |-> user]
If(condition, output) == IF condition THEN <<output>> ELSE <<>>

Full(event) == event.kind # "feature" \/ event.tracked

\* Full events that carry the whole user need no index event.
LooksUpUser(event) == event.user # NoUser /\ ~(Full(event) /\ InlineUsers)

NeedsIndex_Untracked(event) ==
  LooksUpUser(event) /\ event.user \notin Elements(userKeys) /\ ~Full(event)
NeedsIndex(event) ==
  LooksUpUser(event) /\ event.user \notin Elements(userKeys) /\ event.kind # "identify"

\* What one event adds to the queue, in order.
OutputsOf(event, debugging) ==
  If(NeedsIndex(event), Out("index", event.user))
    \o If(Full(event), Out(event.kind, event.user))
    \o If(debugging, Out("debug", event.user))

\* A cache has at most one entry for x.
Without(s, x) ==
  IF x \notin Elements(s) THEN s
  ELSE LET i == CHOOSE i \in 1..Len(s) : s[i] = x
       IN  Prefix(s, i - 1) \o Suffix(s, i)

\* The least recently used key is dropped when the cache is full.
Used(user) == Prefix(<<user>> \o Without(userKeys, user), UserKeysCapacity)

Room_OneTooMany == Capacity + 1 - Len(queue)
Room == Capacity - Len(queue)

Announces(outputs) ==
  {o.user : o \in {e \in Elements(outputs) : e.kind \in {"index", "identify"}}} \ {NoUser}

SendEvent(event, debugging) ==
  LET outputs == OutputsOf(event, debugging)
      kept == Prefix(outputs, Room)
      dropped == Suffix(outputs, Room)
  IN  /\ sent < MaxEvents /\ sent' = sent + 1
      /\ debugging => event.kind = "feature" /\ event.debug
      /\ ~shutdown
      /\ summary' = IF event.kind = "feature"
                      THEN [summary EXCEPT ![event.counter] = @ + 1] ELSE summary
      /\ evaluated' = IF event.kind = "feature"
                        THEN [evaluated EXCEPT ![event.counter] = @ + 1] ELSE evaluated
      /\ userKeys' = IF LooksUpUser(event) THEN Used(event.user) ELSE userKeys
      /\ queue' = queue \o kept
      /\ accepted' = accepted + Len(kept)
      /\ droppedEvents' = droppedEvents + Len(dropped)
      /\ totalDropped' = totalDropped + Len(dropped)
      /\ announced' = announced \cup Announces(kept)
      /\ unannounced' = unannounced \cup Announces(dropped)
      /\ UNCHANGED <<shutdown, postVars, serviceVars, reportedDropped>>

FlushUserKeys ==
  /\ userKeys' = <<>>
  /\ UNCHANGED <<queue, summary, droppedEvents, shutdown, postVars, serviceVars,
                 historyVars>>

-----------------------------------------------------------------------------
(* flush and tryPostingEvents *)

Payload(kind, id, events, evaluations) ==
  [kind |-> kind, id |-> id, size |-> Len(events), evaluations |-> evaluations,
   attempts |-> 1, stage |-> "posting"]

CanFlush_Always == TRUE
CanFlush == ~shutdown

\* getSummary, then clearSummary.
SummaryAfterFlush_Kept == summary
SummaryAfterFlush == NoEvaluations

\* flush(), by the caller or by the flush timer.  The summary joins the payload
\* whatever its size.  A flush with nothing to send resolves at once.
Flush ==
  /\ CanFlush
  /\ queue # <<>> \/ summary # NoEvaluations
  /\ Len(posts) < MaxPosts
  /\ posts' = Append(posts, Payload("events", nextId, queue, summary))
  /\ nextId' = nextId + 1
  /\ queue' = <<>> /\ summary' = SummaryAfterFlush
  /\ UNCHANGED <<userKeys, droppedEvents, shutdown, serviceVars, historyVars>>

DroppedAfterReport_Kept == droppedEvents
DroppedAfterReport == 0

\* The diagnostics timer posts the counts and resets them; nothing looks at
\* shutdown.  Diagnostic events carry no payload id.
PostDiagnosticEvent ==
  /\ Len(posts) < MaxPosts
  /\ posts' = Append(posts, Payload("diagnostic", NoId, <<>>, NoEvaluations))
  /\ droppedEvents' = DroppedAfterReport
  /\ reportedDropped' = reportedDropped + droppedEvents
  /\ UNCHANGED <<queue, summary, userKeys, shutdown, nextId, serviceVars, sent,
                 accepted, evaluated, totalDropped, announced, unannounced>>

\* The service processes payload p, unless it has seen its id before.  What it does
\* with diagnostic events, which have no id, is not recorded.
Process(p) ==
  IF posts[p].id \in serviceIds \cup {NoId} THEN UNCHANGED serviceVars
  ELSE /\ processed' = [processed EXCEPT ![p] = @ + 1]
       /\ serviceIds' = serviceIds \cup {posts[p].id}

\* Where a failed request leaves its payload.
RetryOrReject_AlwaysRetries(p) == "waiting"
RetryOrReject_Resolves(p) == IF posts[p].attempts = 1 THEN "waiting" ELSE "resolved"
RetryOrReject_Forgets(p) == IF posts[p].attempts = 1 THEN "waiting" ELSE "forgotten"
RetryOrReject(p) == IF posts[p].attempts = 1 THEN "waiting" ELSE "rejected"

Settle(p, stage) == posts' = [posts EXCEPT ![p].stage = stage]

\* A status up to 204.
Succeeds(p) ==
  /\ posts[p].stage = "posting"
  /\ Process(p)
  /\ Settle(p, "resolved")
  /\ UNCHANGED <<queueVars, shutdown, nextId, historyVars>>

\* A network error, or a status worth a retry; the service may have done its work.
FailsForNow(p) ==
  /\ posts[p].stage = "posting"
  /\ Process(p) \/ UNCHANGED serviceVars
  /\ Settle(p, RetryOrReject(p))
  /\ UNCHANGED <<queueVars, shutdown, nextId, historyVars>>

\* A status that no retry can help, such as 401.
FailsForGood(p) ==
  /\ posts[p].stage = "posting"
  /\ Settle(p, "rejected")
  /\ shutdown' = TRUE
  /\ UNCHANGED <<queueVars, nextId, serviceVars, historyVars>>

\* One second later: the same events under the same payload id.
RetryId_Fresh(p) == nextId
RetryId(p) == posts[p].id

Retry(p) ==
  /\ posts[p].stage = "waiting"
  /\ posts' = [posts EXCEPT ![p].stage = "posting", ![p].attempts = @ + 1,
                            ![p].id = RetryId(p)]
  /\ nextId' = IF RetryId(p) = nextId THEN nextId + 1 ELSE nextId
  /\ UNCHANGED <<queueVars, shutdown, serviceVars, historyVars>>

-----------------------------------------------------------------------------

Posted == 1..Len(posts)

Next ==
  \/ \E event \in Event, debugging \in BOOLEAN : SendEvent(event, debugging)
  \/ FlushUserKeys \/ Flush \/ PostDiagnosticEvent
  \/ \E p \in Posted :
       Succeeds(p) \/ FailsForNow(p) \/ FailsForGood(p) \/ Retry(p)

\* Every request ends, which is up to the peer: httpRequest sets a timeout but does not
\* give up a request when it passes.  Timers fire.
Fairness ==
  \A p \in 1..MaxPosts :
    /\ WF_vars(p \in Posted /\ (Succeeds(p) \/ FailsForNow(p) \/ FailsForGood(p)))
    /\ WF_vars(p \in Posted /\ Retry(p))

Spec == Init /\ [][Next]_vars /\ Fairness

-----------------------------------------------------------------------------
(* Properties *)

Payloads ==
  [kind : {"events", "diagnostic"}, id : Nat, size : Nat, evaluations : [Counter -> Nat],
   attempts : {1, 2}, stage : Stages]

\* Every variable keeps its type; a payload is posted at most twice; no user is in the
\* cache twice; the queue and the cache respect their capacities, and so does every
\* payload but for the summary.
TypeOK ==
  /\ queue \in Seq(Outputs) /\ summary \in [Counter -> Nat]
  /\ userKeys \in Seq(User) /\ droppedEvents \in Nat
  /\ \A i, j \in 1..Len(userKeys) : userKeys[i] = userKeys[j] => i = j
  /\ shutdown \in BOOLEAN
  /\ posts \in Seq(Payloads)
  /\ processed \in [1..MaxPosts -> Nat] /\ serviceIds \subseteq Nat /\ nextId \in Nat
  /\ sent \in Nat /\ accepted \in Nat /\ evaluated \in [Counter -> Nat]
  /\ totalDropped \in Nat /\ reportedDropped \in Nat
  /\ announced \subseteq User /\ unannounced \subseteq User
  /\ Len(queue) <= Capacity /\ Len(userKeys) <= UserKeysCapacity
  /\ \A p \in Posted : posts[p].size <= Capacity

\* A retried payload keeps its id, so however the first request ended the service
\* counts the events of a payload once (CHANGELOG, 5.10.3).
AtMostOnce == \A p \in Posted : processed[p] <= 1

\* The sum of count over 1..n.
Total(count, n) ==
  LET total[p \in 0..n] == IF p = 0 THEN 0 ELSE total[p - 1] + count[p]
  IN  total[n]

Sizes == [p \in Posted |-> posts[p].size]
Evaluations(c) == [p \in Posted |-> posts[p].evaluations[c]]

\* No output event and no evaluation is lost or counted twice on its way from the
\* queue and the summarizer to the payloads: what was accepted is in the queue or
\* in one payload, what was evaluated is in the summarizer or in one payload.
Conserved ==
  /\ accepted = Len(queue) + Total(Sizes, Len(posts))
  /\ \A c \in Counter : evaluated[c] = summary[c] + Total(Evaluations(c), Len(posts))

\* When flush()'s promise resolves, the service has the events.
ResolvedMeansDelivered ==
  \A p \in Posted :
    posts[p].kind = "events" /\ posts[p].stage = "resolved" => processed[p] >= 1

\* Every dropped event is in exactly one diagnostic event, or will be in the next.
DropsReportedOnce == totalDropped = reportedDropped + droppedEvents

\* An event that names its user by key follows an index or identify event that
\* describes the user, unless the queue was full when that one was due.
UsersAnnounced ==
  ~InlineUsers =>
    \A o \in Elements(queue) : o.user \in announced \cup unannounced \cup {NoUser}

\* After an unrecoverable status no event enters the queue and no new payload is
\* made of the events already in it; only the retry of an older payload may run.
ShutdownIsFinal ==
  [][shutdown =>
       /\ shutdown' /\ queue' = queue
       /\ \A p \in Posted' \ Posted : posts'[p].kind = "diagnostic"]_vars

\* Every payload's promise settles.
EveryPostSettles ==
  \A p \in 1..MaxPosts :
    p \in Posted ~> p \in Posted /\ posts[p].stage \in {"resolved", "rejected"}
=============================================================================
