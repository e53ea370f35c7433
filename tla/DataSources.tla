----------------------------- MODULE DataSources -----------------------------
(* The client with the data source its configuration selects, the in-memory store and
   the service.  index.js creates a StreamProcessor or a PollingProcessor; the other
   one's variables keep their initial values.                                *)
EXTENDS StreamProcessor, PollingProcessor

VARIABLES
  mode,     \* config.stream
  closed    \* close() has been called

sourceVars == <<streamVars, thrown, pollVars>>
vars == <<sdkVars, serviceVars, sourceVars, mode, closed>>

Init ==
  /\ StoreInit /\ ClientInit /\ ServiceInit /\ StreamInit /\ PollInit
  /\ mode \in {"stream", "poll"} /\ closed = FALSE

\* After an uncaught exception the process takes no further step.
Running == ~thrown /\ UNCHANGED mode

Wait(w) ==
  /\ Running
  /\ WaitForInitialization(w)
  /\ UNCHANGED <<storeVars, requestorVars, syncVars, serviceVars, sourceVars, closed>>

\* close() stops the data source; the store's close() does nothing.
Close ==
  /\ Running
  /\ ~closed /\ closed' = TRUE
  /\ IF mode = "stream" THEN CloseStream /\ UNCHANGED pollVars
                        ELSE ClosePolling /\ UNCHANGED <<streamVars, thrown>>

Service ==
  /\ Running
  /\ \E n \in Node, deleted \in BOOLEAN : Change(n, deleted)
  /\ UNCHANGED <<pollVars, closed>>

Network(step) ==
  /\ Running
  /\ step
  /\ UNCHANGED <<storeVars, clientVars, syncVars, sourceVars, closed>>

Streaming(step) ==
  /\ Running /\ mode = "stream"
  /\ step
  /\ UNCHANGED <<pollVars, closed>>

Polling(step) ==
  /\ Running /\ mode = "poll"
  /\ step
  /\ UNCHANGED <<streamVars, thrown, closed>>

Next ==
  \/ Close \/ \E w \in Waiter : Wait(w)
  \/ Service
  \/ \E s \in Slot : Network(ServiceAnswers(s)) \/ Network(ServiceFails(s))
  \/ Streaming(Connect) \/ Streaming(Disconnect) \/ Streaming(ConnectionRefused)
  \/ Streaming(Deliver) \/ Streaming(DeliverBad)
  \/ \E s \in Slot : Streaming(StreamAnswer(s)) \/ Polling(PollAnswer(s))
  \/ Polling(Poll)

\* The service answers (httpRequest itself gives up no request), connections are made,
\* messages delivered, and timers fire.
Fairness ==
  /\ \A s \in Slot : /\ WF_vars(Network(ServiceAnswers(s)))
                     /\ WF_vars(Streaming(StreamAnswer(s)))
                     /\ WF_vars(Polling(PollAnswer(s)))
  /\ WF_vars(Streaming(Connect)) /\ WF_vars(Streaming(Deliver)) /\ WF_vars(Polling(Poll))

Spec == Init /\ [][Next]_vars /\ Fairness

-----------------------------------------------------------------------------
(* Properties *)

\* Every variable has a value of its type.
TypeOK ==
  /\ StoreTypeOK /\ ClientTypeOK /\ ServiceTypeOK /\ StreamTypeOK /\ PollTypeOK
  /\ mode \in {"stream", "poll"} /\ closed \in BOOLEAN

\* The client never says it is ready before a complete data set is in the store, however
\* failures, patches and answers to indirect messages interleave with the first put.
ReadyAfterInit == initComplete => initCalled

UpToDate(n) == VisibleItem(n) = Offered(service)[n]

\* When no message and no request is under way on an open stream, the store shows what
\* the service offers: late answers to indirect patches never undo a newer patch or
\* delete.  Excused are nodes the history variable behind names, and the end of the
\* process when an answer of 304 to an indirect put throws: the store may then lack a
\* deletion that the message announced and the unchanged body did not need to repeat.
InSync ==
  (mode = "stream" /\ ~thrown /\ connection = "open" /\ stream = <<>> /\ Free = Slot)
    => \A n \in Node \ behind : UpToDate(n)

\* Polling has one request under way at a time, so it never stores older data over newer.
PollNeverGoesBack == mode = "poll" => behind = {}

\* Nobody waits for an outcome that is known: a promise is pending only while the client
\* has neither succeeded nor failed.  The exception is a promise that a listener of the
\* first failed event asked for: it stays pending although the client has failed.
WaitersSettled ==
  \A w \in Waiter : waiter[w] = "pending" => ~initComplete /\ (failure => w \in missed)

\* close() is final: no request is sent after it, although the timer of the polling
\* processor and the requests under way are not cancelled.
ClosedStartsNothing ==
  [][closed => \A s \in Slot : request'[s].stage = "sent" => request[s].stage = "sent"]_vars

\* An unrecoverable status ended the data source.
GivenUp == ~closed /\ (connection = "closed" \/ (mode = "poll" /\ failure))

\* A promise of waitForInitialization() is settled in the end, unless the client is
\* closed first or dies of an exception: the first failed request of the polling
\* processor is retried, and the first message of a stream settles it either way.  A
\* promise that missed the failed event depends on another outcome: the next connection
\* of a stream brings one, but none comes if the data source has given up.
WaitersAnswered ==
  \A w \in Waiter :
    waiter[w] = "pending" /\ (w \in missed => connection = "connecting") ~>
      waiter[w] # "pending" \/ closed \/ thrown \/ (w \in missed /\ GivenUp)

\* The data source stops: close(), an exception, an unrecoverable status.
Ended == closed \/ thrown \/ GivenUp

\* Once the service stops changing, the store shows what it offers, whatever failed on
\* the way, and stays so.  On a stream, nodes whose message got lost are excused.
EventuallyInSync == <>[](Ended \/ \A n \in Node \ behind : UpToDate(n))

\* index.d.ts says of the failed event that the client has permanently failed to connect:
\* it does not become ready afterwards.
FailedIsFinal == [][failure => ~(initComplete' /\ ~initComplete)]_vars

\* utils/httpUtils.js says that an indirect put does not use the ETag cache: its answer is
\* never the null of an unchanged body, which the handler cannot take apart.
IndirectPutNeverThrows == ~thrown

\* index.d.ts says of waitForInitialization() that the promise is rejected if client
\* initialization has irrevocably failed: none is pending for ever over a data source
\* that has given up.
IrrevocableFailureRejects ==
  \A w \in Waiter :
    waiter[w] = "pending" /\ GivenUp ~> waiter[w] # "pending" \/ closed
=============================================================================
