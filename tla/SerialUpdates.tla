---------------------------- MODULE SerialUpdates ----------------------------
(* What caching_store_wrapper.js asks of its update queue: updates are numbered
   in the order they were submitted, they run one at a time, they run in that
   order, and each of them finishes.  update_queue.js is shown to implement
   this specification (module UpdateQueue).                                  *)
EXTENDS Naturals

VARIABLES submitted,   \* how many updates were handed over
          finished,    \* how many of them called back
          running      \* the updates that were invoked and have not called back

vars == <<submitted, finished, running>>

Init == submitted = 0 /\ finished = 0 /\ running = {}

\* An idle queue may run the new update at once.
Submit ==
  /\ submitted' = submitted + 1
  /\ \/ running' = running
     \/ finished = submitted /\ running' = {submitted + 1}
  /\ UNCHANGED finished

Start ==
  /\ running = {} /\ finished < submitted
  /\ running' = {finished + 1}
  /\ UNCHANGED <<submitted, finished>>

Finish ==
  /\ running = {finished + 1}
  /\ running' = {} /\ finished' = finished + 1
  /\ UNCHANGED submitted

Next == Submit \/ Start \/ Finish

Spec == Init /\ [][Next]_vars /\ WF_vars(Start) /\ WF_vars(Finish)

Safe == Init /\ [][Next]_vars
=============================================================================
