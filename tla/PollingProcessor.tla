-------------------------- MODULE PollingProcessor --------------------------
(* polling.js: one request after the other, with a pause in between. *)
EXTENDS FlagService, Client

VARIABLES
  timer,     \* a call of poll() is due: at first the call by start()
  stopped

pollVars == <<timer, stopped>>

PollInit == timer = TRUE /\ stopped = FALSE

Stops_Never == FALSE
Stops == stopped

\* A timer that does not wait for the answer.
Poll_Interval ==
  /\ timer
  /\ IF Stops THEN UNCHANGED requestorVars ELSE RequestAllData
  /\ UNCHANGED <<storeVars, clientVars, syncVars, serviceVars, pollVars>>

\* poll(), called by start() or by the timer.
Poll ==
  /\ timer
  /\ timer' = FALSE
  /\ IF Stops THEN UNCHANGED requestorVars ELSE RequestAllData
  /\ UNCHANGED <<storeVars, clientVars, syncVars, serviceVars, stopped>>

\* An unrecoverable status ends the polling.  A body is stored before the client is
\* told; a failure and the null that stands for 304 are passed over.
TimerAfter_Failure(s) == request[s].stage \notin {"refused", "failed"}
TimerAfter(s) == request[s].stage # "refused"

PollAnswer(s) ==
  /\ Receive(s)
  /\ timer' = TimerAfter(s)
  /\ \/ /\ request[s].stage = "refused"
        /\ ReportFailure
        /\ UNCHANGED <<storeVars, syncVars>>
     \/ /\ request[s].stage = "body"
        /\ Replace(DataOf(request[s].answer))
        /\ LearnAll(Versions(request[s].answer))
        /\ ReportSuccess
     \/ /\ request[s].stage \in {"failed", "unchanged"}
        /\ UNCHANGED <<storeVars, clientVars, syncVars>>
  /\ UNCHANGED <<serviceVars, stopped>>

\* stop(): neither the timer nor a request under way is cancelled.
ClosePolling ==
  /\ stopped' = TRUE
  /\ UNCHANGED <<storeVars, clientVars, requestorVars, syncVars, serviceVars, timer>>

PollTypeOK == timer \in BOOLEAN /\ stopped \in BOOLEAN
=============================================================================
