------------------------------- MODULE Client -------------------------------
(* index.js: what the client does with the start() callback of its data source, and
   waitForInitialization().  A data source may call back any number of times.

   Operators named <name>_<variant> are mistakes the runs must detect.       *)
EXTENDS Naturals

CONSTANT Waiter    \* calls of waitForInitialization()

VARIABLES
  initComplete,
  failure,     \* the variable of that name holds an error
  waiter,      \* the state of every promise
  missed       \* history: promises a listener of failed asked for and that it left open

clientVars == <<initComplete, failure, waiter, missed>>

ClientInit ==
  /\ initComplete = FALSE /\ failure = FALSE
  /\ waiter = [w \in Waiter |-> "uncalled"] /\ missed = {}

\* What waitForInitialization() returns at this moment.
Returned ==
  IF initComplete THEN "resolved" ELSE IF failure THEN "rejected" ELSE "pending"

WaitForInitialization(w) ==
  /\ waiter[w] = "uncalled"
  /\ waiter' = [waiter EXCEPT ![w] = Returned]
  /\ UNCHANGED <<initComplete, failure, missed>>

\* The events ready and failed settle the promises that listen for them.
Settled_None(outcome) == waiter
Settled(outcome) ==
  [w \in Waiter |-> IF waiter[w] = "pending" THEN outcome ELSE waiter[w]]

\* cb(err): failed is emitted before the error is stored, so a promise that a listener
\* of the first failed event asks for is pending, and misses that event.
ReportFailure ==
  /\ failure' = TRUE
  /\ \E asking \in SUBSET {w \in Waiter : waiter[w] = "uncalled"} :
       /\ waiter' = [w \in Waiter |-> IF w \in asking THEN Returned ELSE Settled("rejected")[w]]
       /\ missed' = missed \cup {w \in asking : Returned = "pending"}
  /\ UNCHANGED initComplete

\* cb(): only the first call emits ready.
ReportSuccess ==
  /\ initComplete' = TRUE
  /\ waiter' = IF initComplete THEN waiter ELSE Settled("resolved")
  /\ UNCHANGED <<failure, missed>>

ClientTypeOK ==
  /\ initComplete \in BOOLEAN /\ failure \in BOOLEAN
  /\ waiter \in [Waiter -> {"uncalled", "pending", "resolved", "rejected"}]
  /\ missed \subseteq Waiter
=============================================================================
