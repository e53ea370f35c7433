----------------------------- MODULE UpdateQueue -----------------------------
(* update_queue.js.  An update is a function that receives a callback; the queue
   invokes the function at its head and waits for the callback.  Updates are
   numbered in the order of their enqueue() call.

   One JavaScript turn is one action.  A callback passed by the caller may call
   enqueue() again, and an update may call back before it returns; in both cases
   the nested call is the last thing its caller does, so it is the next step of a
   behaviour of this module.                                                 *)
EXTENDS Naturals, Sequences

CONSTANT MaxUpdates    \* bound: enqueue() calls in a behaviour

ASSUME MaxUpdatesAssumption == MaxUpdates \in Nat

VARIABLES
  updateQueue,   \* the array; its head stays in place while it runs
  inProgress,    \* for each update, how many invocations await their callback
  immediates,    \* scheduled calls of executePendingUpdates
  submitted,     \* history: enqueue() calls so far
  finished       \* history: callbacks so far

queueVars == <<updateQueue, inProgress, immediates, submitted, finished>>

Updates == 1..MaxUpdates

QueueInit ==
  /\ updateQueue = <<>>
  /\ inProgress = [u \in Updates |-> 0]
  /\ immediates = 0
  /\ submitted = 0
  /\ finished = 0

\* inProgress once the head of q, if there is one, has been invoked.
Invoked(q) ==
  IF q = <<>> THEN inProgress ELSE [inProgress EXCEPT ![Head(q)] = @ + 1]

\* enqueue() runs the update it pushed when it is alone in the array q.
StartsAtOnce_Always(q) == TRUE
StartsAtOnce(q) == Len(q) = 1

\* newCb shifts whatever stands at the head of the array q.
Shifted_FromTheBack(q) == IF q = <<>> THEN q ELSE SubSeq(q, 1, Len(q) - 1)
Shifted(q) == IF q = <<>> THEN q ELSE Tail(q)

\* newCb schedules the next update when the shifted array q has one.
Schedules_Always(q) == TRUE
Schedules(q) == q # <<>>

Enqueue ==
  /\ submitted < MaxUpdates
  /\ submitted' = submitted + 1
  /\ updateQueue' = Append(updateQueue, submitted + 1)
  /\ inProgress' = IF StartsAtOnce(updateQueue') THEN Invoked(updateQueue') ELSE inProgress
  /\ UNCHANGED <<immediates, finished>>

\* The event loop runs a scheduled executePendingUpdates.
ExecutePendingUpdates ==
  /\ immediates > 0
  /\ immediates' = immediates - 1
  /\ inProgress' = Invoked(updateQueue)
  /\ UNCHANGED <<updateQueue, submitted, finished>>

\* Update u calls newCb.
NewCb(u) ==
  /\ inProgress[u] > 0
  /\ inProgress' = [inProgress EXCEPT ![u] = @ - 1]
  /\ updateQueue' = Shifted(updateQueue)
  /\ immediates' = IF Schedules(updateQueue') THEN immediates + 1 ELSE immediates
  /\ finished' = finished + 1
  /\ UNCHANGED submitted

QueueNext ==
  \/ Enqueue
  \/ ExecutePendingUpdates
  \/ \E u \in Updates : NewCb(u)

\* setImmediate callbacks run, and every update calls back in the end.
QueueFairness ==
  /\ WF_queueVars(ExecutePendingUpdates)
  /\ \A u \in Updates : WF_queueVars(NewCb(u))

QueueSafe == QueueInit /\ [][QueueNext]_queueVars
QueueSpec == QueueSafe /\ QueueFairness

-----------------------------------------------------------------------------
(* Properties *)

\* Every variable of the queue keeps its type.
QueueTypeOK ==
  /\ updateQueue \in Seq(Updates)
  /\ inProgress \in [Updates -> Nat]
  /\ immediates \in Nat
  /\ submitted \in 0..MaxUpdates
  /\ finished \in 0..MaxUpdates

\* The array holds the unfinished updates in the order of their submission:
\* newCb's shift() removes the update that called back and no other.
InOrder ==
  /\ submitted = finished + Len(updateQueue)
  /\ \A i \in 1..Len(updateQueue) : updateQueue[i] = finished + i

\* A non-empty queue has either its head invoked, once, or one pending
\* setImmediate: never both (two updates would overlap), never neither (the queue
\* would be stuck, because enqueue() only starts an update on an empty queue).
Serial ==
  /\ updateQueue = <<>> => immediates = 0 /\ \A u \in Updates : inProgress[u] = 0
  /\ updateQueue # <<>> =>
       /\ immediates \in {0, 1}
       /\ \A u \in Updates :
            inProgress[u] = IF u = Head(updateQueue) THEN 1 - immediates ELSE 0

Running == {u \in Updates : inProgress[u] > 0}

Abstract == INSTANCE SerialUpdates WITH running <- Running

\* Updates run one at a time, in order, and all of them finish.
ImplementsSerialUpdates == Abstract!Spec
ImplementsSafe == Abstract!Safe
=============================================================================
