--------------------------- MODULE StreamProcessor ---------------------------
(* streaming.js: the stream of put, patch and delete messages, and the indirect
   messages that make it ask the requestor.  The event source library is external: it
   delivers the messages of a connection in order, drops them with the connection, and
   connects again as long as the error filter lets it.                       *)
EXTENDS FlagService, Client, Sequences

VARIABLES
  stream,       \* messages of the connection, not delivered yet
  connection,   \* of the event source
  thrown        \* an exception left a handler

streamVars == <<stream, connection>>
sdkVars == <<storeVars, clientVars, requestorVars, syncVars>>

StreamInit == stream = <<>> /\ connection = "connecting" /\ thrown = FALSE

Message(type, node) == [type |-> type, node |-> node, items |-> service]

\* A connection starts with all the data, or with the advice to ask for it.
Connect ==
  /\ connection = "connecting"
  /\ connection' = "open"
  /\ \E type \in {"put", "indirect/put"} : stream' = <<Message(type, None)>>
  /\ UNCHANGED <<sdkVars, serviceVars, thrown>>

\* handleError after an I/O error or a recoverable status: the library tries again.
Disconnect ==
  /\ connection = "open"
  /\ Fails
  /\ connection' = "connecting" /\ stream' = <<>>
  /\ UNCHANGED <<sdkVars, thrown>>

\* handleError after an unrecoverable status.
ConnectionRefused ==
  /\ connection = "connecting"
  /\ Fails
  /\ connection' = "closed"
  /\ ReportFailure
  /\ UNCHANGED <<storeVars, requestorVars, syncVars, stream, thrown>>

\* The service changes an item and tells the stream.
Change(n, deleted) ==
  /\ Changed(n, deleted)
  /\ IF connection = "open"
       THEN \E type \in {IF deleted THEN "delete" ELSE "patch", "indirect/patch"} :
              stream' = Append(stream, [type |-> type, node |-> n, items |-> service'])
       ELSE stream' = stream
  /\ UNCHANGED <<sdkVars, connection, thrown>>

Told(message) ==
  IF message.node = None THEN Versions(message.items)
  ELSE [n \in {message.node} |-> message.items[n].version]

Put(message) ==
  /\ message.type = "put"
  /\ Replace(DataOf(message.items))
  /\ LearnAll(Told(message))
  /\ ReportSuccess
  /\ UNCHANGED requestorVars

PatchCallback_Success == ReportSuccess
PatchCallback == UNCHANGED clientVars

Patch(message) ==
  /\ message.type = "patch"
  /\ StoreUpsert(message.node, message.items[message.node])
  /\ LearnOne(message.node, message.items[message.node].version)
  /\ PatchCallback
  /\ UNCHANGED requestorVars

Delete(message) ==
  /\ message.type = "delete"
  /\ StoreDelete(message.node, message.items[message.node].version)
  /\ LearnOne(message.node, message.items[message.node].version)
  /\ UNCHANGED <<clientVars, requestorVars>>

IndirectPut(message) ==
  /\ message.type = "indirect/put"
  /\ RequestAllData
  /\ announced' = Later(Told(message))
  /\ UNCHANGED <<storeVars, clientVars, behind>>

IndirectPatch(message) ==
  /\ message.type = "indirect/patch"
  /\ RequestObject(message.node)
  /\ announced' = Later(Told(message))
  /\ UNCHANGED <<storeVars, clientVars, behind>>

Deliver ==
  /\ connection = "open" /\ stream # <<>>
  /\ LET message == Head(stream)
     IN  \/ Put(message) \/ Patch(message) \/ Delete(message)
         \/ IndirectPut(message) \/ IndirectPatch(message)
  /\ stream' = Tail(stream)
  /\ UNCHANGED <<serviceVars, connection, thrown>>

\* A message without data, or whose data is not JSON.  That of indirect/put is not
\* looked at.
DeliverBad ==
  /\ connection = "open" /\ stream # <<>>
  /\ Head(stream).type # "indirect/put"
  /\ Fails
  /\ ReportFailure
  /\ Lose(Told(Head(stream)))
  /\ stream' = Tail(stream)
  /\ UNCHANGED <<storeVars, requestorVars, connection, thrown>>

\* The answer to an indirect put: an error, a body, or the null that stands for 304,
\* which the handler takes apart like a body.
AllAnswer(s) ==
  /\ request[s].op = "all"
  /\ \/ /\ request[s].stage \in {"failed", "refused"}
        /\ ReportFailure /\ behind' = Node
        /\ UNCHANGED <<storeVars, announced, thrown>>
     \/ /\ request[s].stage = "body"
        /\ Replace(DataOf(request[s].answer))
        /\ LearnAll(Versions(request[s].answer))
        /\ ReportSuccess
        /\ UNCHANGED thrown
     \/ /\ request[s].stage = "unchanged"
        /\ thrown' = TRUE
        /\ UNCHANGED <<storeVars, clientVars, syncVars>>

\* The answer to an indirect patch.
ObjectAnswer(s) ==
  LET n == request[s].op
      item == request[s].answer[n]
  IN  /\ n \in Node
      /\ \/ /\ request[s].stage \in {"failed", "refused"}
            /\ ReportFailure /\ behind' = behind \cup {n}
            /\ UNCHANGED <<storeVars, announced>>
         \/ /\ request[s].stage = "body"
            /\ StoreUpsert(n, item)
            /\ LearnOne(n, item.version)
            /\ UNCHANGED clientVars
      /\ UNCHANGED thrown

StreamAnswer(s) ==
  /\ Receive(s)
  /\ AllAnswer(s) \/ ObjectAnswer(s)
  /\ UNCHANGED <<serviceVars, streamVars>>

\* stop(): the event source is closed; requests under way are not cancelled.
CloseStream ==
  /\ connection' = "closed" /\ stream' = <<>>
  /\ UNCHANGED <<sdkVars, serviceVars, thrown>>

StreamTypeOK ==
  /\ stream \in Seq([type : {"put", "patch", "delete", "indirect/put", "indirect/patch"},
                     node : Node \cup {None}, items : Bodies])
  /\ connection \in {"connecting", "open", "closed"} /\ thrown \in BOOLEAN
=============================================================================
