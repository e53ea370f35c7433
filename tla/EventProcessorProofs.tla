------------------------ MODULE EventProcessorProofs ------------------------
(* What the events service and the callers of flush() can rely on, for any number of
   events and payloads, any capacities and any order of failures and retries.  *)
EXTENDS EventProcessor, SequenceTheorems, WellFoundedInduction, TLAPS

\* A payload waits for its only retry.
PostInv ==
  /\ Len(posts) <= MaxPosts
  /\ \A p \in Posted : posts[p].stage = "waiting" => posts[p].attempts = 1

\* No two payloads share an id, none is reused, and the service has processed exactly
\* the payloads whose id it has seen.
IdInv ==
  /\ serviceIds \subseteq 1..nextId - 1 /\ nextId # NoId
  /\ \A p \in Posted :
       posts[p].id \in IF posts[p].kind = "events" THEN 1..nextId - 1 ELSE {NoId}
  /\ \A p, q \in Posted : posts[p].id = posts[q].id => p = q \/ posts[p].id = NoId
  /\ \A p \in 1..MaxPosts :
       processed[p] = IF p \in Posted /\ posts[p].id \in serviceIds THEN 1 ELSE 0

\* A user in the cache has been announced, unless the queue was full.
KeysAnnounced ==
  ~InlineUsers => Elements(userKeys) \subseteq announced \cup unannounced

Inv ==
  /\ TypeOK /\ PostInv /\ IdInv /\ ResolvedMeansDelivered
  /\ DropsReportedOnce /\ KeysAnnounced /\ UsersAnnounced

-----------------------------------------------------------------------------
(* Sequences *)

\* What is kept and what is dropped of a sequence make the sequence.
LEMMA PrefixSuffix ==
  ASSUME NEW S, NEW s \in Seq(S), NEW n \in Nat
  PROVE  /\ Prefix(s, n) \in Seq(S) /\ Suffix(s, n) \in Seq(S)
         /\ Len(Prefix(s, n)) <= n /\ Len(Prefix(s, n)) <= Len(s)
         /\ Len(Prefix(s, n)) + Len(Suffix(s, n)) = Len(s)
         /\ \A i \in 1..Len(Prefix(s, n)) : Prefix(s, n)[i] = s[i]
         /\ \A i \in 1..Len(Suffix(s, n)) : Suffix(s, n)[i] = s[i + n]
<1>1. CASE Len(s) <= n
  <2>1. Prefix(s, n) = s
    BY <1>1 DEF Prefix
  <2>2. Suffix(s, n) = <<>>
    BY <1>1, SubSeqEmpty DEF Suffix
  <2> QED
    BY <1>1, <2>1, <2>2
<1>2. CASE n < Len(s)
  <2>1. /\ 1 \in 1..Len(s) + 1 /\ n \in 0..Len(s) /\ n + 1 \in 1..Len(s) + 1
        /\ Len(s) \in n + 1 - 1..Len(s)
    BY <1>2
  <2>2. /\ Prefix(s, n) \in Seq(S) /\ Len(Prefix(s, n)) = n
        /\ \A i \in 1..n : Prefix(s, n)[i] = s[i]
    BY <1>2, <2>1, SubSeqProperties DEF Prefix
  <2>3. /\ Suffix(s, n) \in Seq(S) /\ Len(Suffix(s, n)) = Len(s) - n
        /\ \A i \in 1..Len(s) - n : Suffix(s, n)[i] = s[n + 1 + i - 1]
    BY <1>2, <2>1, SubSeqProperties DEF Suffix
  <2> QED
    BY <1>2, <2>2, <2>3
<1> QED
  BY <1>1, <1>2

LEMMA ElementsSplit ==
  ASSUME NEW S, NEW s \in Seq(S), NEW n \in Nat
  PROVE  Elements(s) = Elements(Prefix(s, n)) \cup Elements(Suffix(s, n))
<1> DEFINE p == Prefix(s, n)
           q == Suffix(s, n)
<1>1. /\ Len(p) \in Nat /\ Len(q) \in Nat /\ Len(p) <= n /\ Len(p) + Len(q) = Len(s)
      /\ \A i \in 1..Len(p) : p[i] = s[i]
      /\ \A i \in 1..Len(q) : q[i] = s[i + n]
  BY PrefixSuffix
<1>2. Len(p) = n \/ Len(p) = Len(s)
  BY DEF Prefix
<1> HIDE DEF p, q
<1>3. ASSUME NEW i \in 1..Len(s)
      PROVE  (\E j \in 1..Len(p) : s[i] = p[j]) \/ (\E j \in 1..Len(q) : s[i] = q[j])
  <2>1. CASE i \in 1..Len(p)
    BY <1>1, <2>1
  <2>2. CASE i \notin 1..Len(p)
    <3>1. i - n \in 1..Len(q)
      BY <1>1, <1>2, <2>2
    <3>2. q[i - n] = s[i]
      BY <1>1, <3>1
    <3> QED
      BY <3>1, <3>2
  <2> QED
    BY <2>1, <2>2
<1>4. \A i \in 1..Len(p) : i \in 1..Len(s)
  BY <1>1
<1>5. \A i \in 1..Len(q) : i + n \in 1..Len(s)
  BY <1>1, <1>2
<1>6. Elements(s) \subseteq Elements(p) \cup Elements(q)
  BY <1>3 DEF Elements
<1>7. Elements(p) \subseteq Elements(s)
  BY <1>1, <1>4 DEF Elements
<1>8. Elements(q) \subseteq Elements(s)
  BY <1>1, <1>5 DEF Elements
<1> QED
  BY <1>6, <1>7, <1>8 DEF p, q

LEMMA ElementsConcat ==
  ASSUME NEW S, NEW s \in Seq(S), NEW t \in Seq(S)
  PROVE  Elements(s \o t) = Elements(s) \cup Elements(t)
<1>1. \A i \in 1..Len(s) : i \in 1..Len(s \o t) /\ (s \o t)[i] = s[i]
  OBVIOUS
<1>2. \A i \in 1..Len(t) : i + Len(s) \in 1..Len(s \o t) /\ (s \o t)[i + Len(s)] = t[i]
  OBVIOUS
<1>3. ASSUME NEW i \in 1..Len(s \o t)
      PROVE  (s \o t)[i] \in Elements(s) \cup Elements(t)
  <2>1. CASE i <= Len(s)
    BY <2>1 DEF Elements
  <2>2. CASE i > Len(s)
    <3>1. i - Len(s) \in 1..Len(t) /\ (s \o t)[i] = t[i - Len(s)]
      BY <2>2
    <3> QED
      BY <3>1 DEF Elements
  <2> QED
    BY <2>1, <2>2
<1>4. Elements(s \o t) \subseteq Elements(s) \cup Elements(t)
  BY <1>3 DEF Elements
<1>5. Elements(s) \subseteq Elements(s \o t)
  BY <1>1 DEF Elements
<1>6. Elements(t) \subseteq Elements(s \o t)
  BY <1>2 DEF Elements
<1> QED
  BY <1>4, <1>5, <1>6

\* What is left of a cache without x is a cache.
LEMMA WithoutProperties ==
  ASSUME NEW S, NEW s \in Seq(S), NEW x,
         \A i, j \in 1..Len(s) : s[i] = s[j] => i = j
  PROVE  LET w == Without(s, x)
         IN  /\ w \in Seq(S) /\ \A i, j \in 1..Len(w) : w[i] = w[j] => i = j
             /\ x \notin Elements(w) /\ Elements(w) \subseteq Elements(s)
<1> DEFINE w == Without(s, x)
<1>1. CASE x \notin Elements(s)
  BY <1>1 DEF Without
<1>2. CASE x \in Elements(s)
  <2> DEFINE i == CHOOSE i \in 1..Len(s) : s[i] = x
  <2>1. i \in 1..Len(s) /\ s[i] = x
    BY <1>2 DEF Elements
  <2>2. w = Prefix(s, i - 1) \o Suffix(s, i)
    BY <1>2 DEF Without
  <2> HIDE DEF i
  <2>3. i \in Nat /\ i - 1 \in Nat /\ Len(s) \in Nat
    BY <2>1
  <2>4. /\ Prefix(s, i - 1) \in Seq(S) /\ Len(Prefix(s, i - 1)) = i - 1
        /\ \A j \in 1..i - 1 : Prefix(s, i - 1)[j] = s[j]
    <3>1. Len(Prefix(s, i - 1)) = i - 1
      BY <2>1, <2>3, SubSeqProperties DEF Prefix
    <3> QED
      BY <2>3, <3>1, PrefixSuffix
  <2>5. /\ Suffix(s, i) \in Seq(S) /\ Len(Suffix(s, i)) = Len(s) - i
        /\ \A j \in 1..Len(s) - i : Suffix(s, i)[j] = s[j + i]
    <3>1. Len(Suffix(s, i)) = Len(s) - i
      BY <2>1, <2>3, SubSeqProperties DEF Suffix
    <3> QED
      BY <2>3, <3>1, PrefixSuffix
  <2>6. w \in Seq(S) /\ Len(w) = Len(s) - 1
    <3>1. w \in Seq(S) /\ Len(w) = Len(Prefix(s, i - 1)) + Len(Suffix(s, i))
      <4>1. Prefix(s, i - 1) \in Seq(S) /\ Suffix(s, i) \in Seq(S)
        BY <2>4, <2>5
      <4> QED
        BY <2>2, <4>1
    <3>2. i - 1 + (Len(s) - i) = Len(s) - 1
      BY <2>3
    <3> QED
      BY <2>4, <2>5, <3>1, <3>2
  <2> DEFINE at(j) == IF j < i THEN j ELSE j + 1
  <2>7. \A j \in 1..Len(w) : w[j] = s[at(j)]
    <3>1. ASSUME NEW j \in 1..Len(w), j < i PROVE w[j] = s[j]
      BY <2>1, <2>2, <2>3, <2>4, <2>5, <2>6, <3>1, ConcatProperties
    <3>2. ASSUME NEW j \in 1..Len(w), ~(j < i) PROVE w[j] = s[j + 1]
      <4>1. j - (i - 1) \in 1..Len(s) - i
        BY <2>3, <2>6, <3>2
      <4>2. w[j] = Suffix(s, i)[j - (i - 1)]
        BY <2>2, <2>3, <2>4, <2>5, <2>6, <3>2, <4>1
      <4> QED
        BY <2>3, <2>5, <4>1, <4>2
    <3> QED
      BY <3>1, <3>2
  <2>8. \A j \in 1..Len(w) : at(j) \in 1..Len(s) /\ at(j) # i
    BY <2>1, <2>6
  <2>9. \A j, k \in 1..Len(w) : at(j) = at(k) => j = k
    BY <2>1, <2>6
  <2> HIDE DEF w, at
  <2>10. \A j, k \in 1..Len(w) : w[j] = w[k] => j = k
    BY <2>6, <2>7, <2>8, <2>9
  <2>11. x \notin Elements(w)
    BY <2>1, <2>7, <2>6, <2>8 DEF Elements
  <2>12. Elements(w) \subseteq Elements(s)
    <3>1. \A j \in 1..Len(w) : \E k \in 1..Len(s) : w[j] = s[k]
      BY <2>6, <2>7, <2>8
    <3> QED
      BY <3>1 DEF Elements
  <2> QED
    BY <2>6, <2>10, <2>11, <2>12 DEF w
<1> QED
  BY <1>1, <1>2

-----------------------------------------------------------------------------
(* sendEvent *)

LEMMA UsedProperties ==
  ASSUME TypeOK, NEW user \in User
  PROVE  LET used == Used(user)
         IN  /\ used \in Seq(User) /\ Len(used) <= UserKeysCapacity
             /\ \A i, j \in 1..Len(used) : used[i] = used[j] => i = j
             /\ Elements(used) \subseteq {user} \cup Elements(userKeys)
<1> DEFINE w == Without(userKeys, user)
           first == <<user>>
           all == first \o w
           used == Prefix(all, UserKeysCapacity)
<1>1. /\ w \in Seq(User) /\ \A i, j \in 1..Len(w) : w[i] = w[j] => i = j
      /\ user \notin Elements(w) /\ Elements(w) \subseteq Elements(userKeys)
  BY WithoutProperties DEF TypeOK
<1> HIDE DEF w
<1>2. all \in Seq(User) /\ Elements(all) \subseteq {user} \cup Elements(w)
  <2>1. first \in Seq(User) /\ Elements(first) \subseteq {user}
    BY DEF Elements
  <2>2. all \in Seq(User)
    BY <1>1, <2>1
  <2> HIDE DEF first
  <2>3. Elements(all) = Elements(first) \cup Elements(w)
    BY <1>1, <2>1, ElementsConcat
  <2> QED
    BY <2>1, <2>2, <2>3
<1>3. \A i, j \in 1..Len(all) : all[i] = all[j] => i = j
  <2>1. Len(all) = Len(w) + 1 /\ all[1] = user /\ \A i \in 1..Len(w) : all[i + 1] = w[i]
    BY <1>1
  <2>2. \A i \in 1..Len(w) : w[i] # user
    BY <1>1 DEF Elements
  <2>3. \A i \in 2..Len(all) : all[i] = w[i - 1] /\ i - 1 \in 1..Len(w)
    BY <1>1, <2>1
  <2>4. \A i \in 1..Len(all) : i = 1 \/ i \in 2..Len(all)
    BY <1>1, <2>1
  <2> HIDE DEF all
  <2> QED
    BY <1>1, <2>1, <2>2, <2>3, <2>4
<1> HIDE DEF all
<1>4. UserKeysCapacity \in Nat
  BY EventAssumption
<1>5. /\ used \in Seq(User) /\ Len(used) <= UserKeysCapacity /\ Len(used) <= Len(all)
      /\ \A i \in 1..Len(used) : used[i] = all[i]
  BY <1>2, <1>4, PrefixSuffix
<1>6. Elements(used) \subseteq Elements(all)
  BY <1>2, <1>4, ElementsSplit
<1>7. used = Used(user)
  BY DEF Used, used, all, first, w
<1> HIDE DEF used
<1>8. \A i, j \in 1..Len(used) : used[i] = used[j] => i = j
  BY <1>2, <1>3, <1>5
<1> QED
  BY <1>1, <1>2, <1>5, <1>6, <1>7, <1>8

LEMMA IfProperties ==
  ASSUME NEW S, NEW condition \in BOOLEAN, NEW output \in S
  PROVE  /\ If(condition, output) \in Seq(S)
         /\ Elements(If(condition, output)) = IF condition THEN {output} ELSE {}
<1>1. CASE condition
  BY <1>1 DEF If, Elements
<1>2. CASE ~condition
  BY <1>2 DEF If, Elements
<1> QED
  BY <1>1, <1>2

LEMMA OutputsProperties ==
  ASSUME NEW event \in Event, NEW debugging \in BOOLEAN
  PROVE  /\ OutputsOf(event, debugging) \in Seq(Outputs)
         /\ Elements(OutputsOf(event, debugging))
              = (IF NeedsIndex(event) THEN {Out("index", event.user)} ELSE {})
                  \cup (IF Full(event) THEN {Out(event.kind, event.user)} ELSE {})
                  \cup (IF debugging THEN {Out("debug", event.user)} ELSE {})
<1> DEFINE index == If(NeedsIndex(event), Out("index", event.user))
           full == If(Full(event), Out(event.kind, event.user))
           debug == If(debugging, Out("debug", event.user))
<1>1. /\ Out("index", event.user) \in Outputs /\ Out("debug", event.user) \in Outputs
      /\ Out(event.kind, event.user) \in Outputs
  <2>1. event.user \in User \cup {NoUser} /\ event.kind \in {"feature", "identify", "custom"}
    BY EventAssumption
  <2> QED
    BY <2>1 DEF Out, Outputs
<1>2. NeedsIndex(event) \in BOOLEAN /\ Full(event) \in BOOLEAN
  BY DEF NeedsIndex, LooksUpUser, Full
<1>3. /\ index \in Seq(Outputs)
      /\ Elements(index) = IF NeedsIndex(event) THEN {Out("index", event.user)} ELSE {}
  BY <1>1, <1>2, IfProperties
<1>4. /\ full \in Seq(Outputs)
      /\ Elements(full) = IF Full(event) THEN {Out(event.kind, event.user)} ELSE {}
  BY <1>1, <1>2, IfProperties
<1>5. /\ debug \in Seq(Outputs)
      /\ Elements(debug) = IF debugging THEN {Out("debug", event.user)} ELSE {}
  BY <1>1, <1>2, IfProperties
<1> DEFINE both == index \o full
<1>6. OutputsOf(event, debugging) = both \o debug
  BY <1>3, <1>4, <1>5, ConcatAssociative DEF OutputsOf
<1> HIDE DEF index, full, debug
<1>7. both \in Seq(Outputs) /\ Elements(both) = Elements(index) \cup Elements(full)
  BY <1>3, <1>4, ElementsConcat
<1> HIDE DEF both
<1>8. /\ both \o debug \in Seq(Outputs)
      /\ Elements(both \o debug) = Elements(both) \cup Elements(debug)
  BY <1>5, <1>7, ElementsConcat
<1> QED
  BY <1>3, <1>4, <1>5, <1>6, <1>7, <1>8

\* Of an event with a user, what reaches the queue or is dropped describes the user,
\* unless the cache has the user already.
LEMMA OutputsAnnounce ==
  ASSUME TypeOK, NEW event \in Event, NEW debugging \in BOOLEAN, ~InlineUsers
  PROVE  /\ \A o \in Elements(OutputsOf(event, debugging)) : o.user = event.user
         /\ event.user \in {NoUser} \cup Elements(userKeys)
                             \cup Announces(OutputsOf(event, debugging))
<1>1. \A o \in Elements(OutputsOf(event, debugging)) : o.user = event.user
  BY OutputsProperties DEF Out
<1>2. CASE event.user \notin {NoUser} \cup Elements(userKeys)
  <2>1. NeedsIndex(event) \/ (Full(event) /\ event.kind = "identify")
    BY <1>2 DEF NeedsIndex, LooksUpUser, Full
  <2>2. \E o \in Elements(OutputsOf(event, debugging)) :
          o.kind \in {"index", "identify"} /\ o.user = event.user
    <3>1. CASE NeedsIndex(event)
      <4>1. Out("index", event.user) \in Elements(OutputsOf(event, debugging))
        BY <3>1, OutputsProperties
      <4> QED
        BY <4>1 DEF Out
    <3>2. CASE Full(event) /\ event.kind = "identify"
      <4>1. Out(event.kind, event.user) \in Elements(OutputsOf(event, debugging))
        BY <3>2, OutputsProperties
      <4> QED
        BY <3>2, <4>1 DEF Out
    <3> QED
      BY <2>1, <3>1, <3>2
  <2> QED
    BY <1>1, <1>2, <2>2 DEF Announces
<1> QED
  BY <1>1, <1>2

LEMMA AnnouncesSplit ==
  ASSUME NEW s \in Seq(Outputs), NEW n \in Nat
  PROVE  /\ Announces(s) = Announces(Prefix(s, n)) \cup Announces(Suffix(s, n))
         /\ Announces(s) \subseteq User
<1>1. Elements(s) = Elements(Prefix(s, n)) \cup Elements(Suffix(s, n))
  BY ElementsSplit
<1>2. Elements(s) \subseteq Outputs
  BY DEF Elements
<1> QED
  BY <1>1, <1>2 DEF Announces, Outputs

\* An event that is sent fills the queue up to its capacity and is accounted for.
LEMMA SendEventInv ==
  ASSUME Inv, NEW event \in Event, NEW debugging \in BOOLEAN, SendEvent(event, debugging)
  PROVE  Inv'
<1> DEFINE outputs == OutputsOf(event, debugging)
           kept == Prefix(outputs, Room)
           dropped == Suffix(outputs, Room)
<1>1. TypeOK /\ Room \in Nat
  BY EventAssumption DEF Inv, TypeOK, Room
<1>2. outputs \in Seq(Outputs)
  BY OutputsProperties
<1>3. /\ kept \in Seq(Outputs) /\ dropped \in Seq(Outputs)
      /\ Len(kept) \in Nat /\ Len(dropped) \in Nat /\ Len(kept) <= Capacity - Len(queue)
  <2>1. kept \in Seq(Outputs) /\ dropped \in Seq(Outputs) /\ Len(kept) <= Room
    BY <1>1, <1>2, PrefixSuffix
  <2> QED
    BY <2>1 DEF Room
<1>4. /\ Elements(outputs) = Elements(kept) \cup Elements(dropped)
      /\ Announces(outputs) = Announces(kept) \cup Announces(dropped)
      /\ Announces(outputs) \subseteq User
  BY <1>1, <1>2, ElementsSplit, AnnouncesSplit
<1>5. /\ queue' = queue \o kept /\ accepted' = accepted + Len(kept)
      /\ droppedEvents' = droppedEvents + Len(dropped)
      /\ totalDropped' = totalDropped + Len(dropped)
      /\ announced' = announced \cup Announces(kept)
      /\ unannounced' = unannounced \cup Announces(dropped)
      /\ userKeys' = (IF LooksUpUser(event) THEN Used(event.user) ELSE userKeys)
      /\ sent' = sent + 1
      /\ UNCHANGED <<shutdown, postVars, serviceVars, reportedDropped>>
  BY DEF SendEvent
<1> HIDE DEF kept, dropped, outputs
<1>6. /\ queue' \in Seq(Outputs) /\ Len(queue') <= Capacity
      /\ Elements(queue') = Elements(queue) \cup Elements(kept)
  <2>1. queue \in Seq(Outputs) /\ Capacity \in Nat
    BY <1>1, EventAssumption DEF TypeOK
  <2>2. queue' \in Seq(Outputs) /\ Len(queue') = Len(queue) + Len(kept)
    BY <1>3, <1>5, <2>1
  <2> QED
    BY <1>3, <1>5, <2>1, <2>2, ElementsConcat
<1>7. /\ userKeys' \in Seq(User) /\ Len(userKeys') <= UserKeysCapacity
      /\ \A i, j \in 1..Len(userKeys') : userKeys'[i] = userKeys'[j] => i = j
      /\ Elements(userKeys') \subseteq Elements(userKeys) \cup ({event.user} \ {NoUser})
  <2>1. CASE LooksUpUser(event)
    <3>1. event.user \in User /\ event.user # NoUser
      BY <2>1, EventAssumption DEF LooksUpUser
    <3> QED
      BY <1>1, <1>5, <2>1, <3>1, UsedProperties
  <2>2. CASE ~LooksUpUser(event)
    BY <1>1, <1>5, <2>2 DEF TypeOK
  <2> QED
    BY <2>1, <2>2
<1>8. summary' \in [Counter -> Nat] /\ evaluated' \in [Counter -> Nat]
  <2>1. event.counter \in Counter
    BY EventAssumption
  <2>2. summary \in [Counter -> Nat] /\ evaluated \in [Counter -> Nat]
    BY <1>1 DEF TypeOK
  <2>3. /\ summary' \in {summary, [summary EXCEPT ![event.counter] = @ + 1]}
        /\ evaluated' \in {evaluated, [evaluated EXCEPT ![event.counter] = @ + 1]}
    BY DEF SendEvent
  <2> QED
    BY <2>1, <2>2, <2>3
<1>9. TypeOK'
  <2>1. announced' \subseteq User /\ unannounced' \subseteq User
    BY <1>1, <1>4, <1>5 DEF TypeOK
  <2>2. /\ droppedEvents' \in Nat /\ totalDropped' \in Nat /\ accepted' \in Nat /\ sent' \in Nat
    BY <1>1, <1>3, <1>5 DEF TypeOK
  <2> QED
    BY <1>1, <1>5, <1>6, <1>7, <1>8, <2>1, <2>2 DEF TypeOK, postVars, serviceVars, Posted
<1>10. KeysAnnounced' /\ UsersAnnounced'
  <2> SUFFICES ASSUME ~InlineUsers
               PROVE  /\ Elements(userKeys') \subseteq announced' \cup unannounced'
                      /\ \A o \in Elements(queue') :
                           o.user \in announced' \cup unannounced' \cup {NoUser}
    BY DEF KeysAnnounced, UsersAnnounced
  <2>1. /\ Elements(userKeys) \subseteq announced \cup unannounced
        /\ \A o \in Elements(queue) : o.user \in announced \cup unannounced \cup {NoUser}
    BY DEF Inv, KeysAnnounced, UsersAnnounced
  <2>2. /\ \A o \in Elements(outputs) : o.user = event.user
        /\ event.user \in {NoUser} \cup Elements(userKeys) \cup Announces(outputs)
    BY <1>1, OutputsAnnounce DEF outputs
  <2>3. event.user \in announced' \cup unannounced' \cup {NoUser}
    BY <1>4, <1>5, <2>1, <2>2
  <2> QED
    BY <1>4, <1>5, <1>6, <1>7, <2>1, <2>2, <2>3
<1>11. DropsReportedOnce'
  BY <1>1, <1>3, <1>5 DEF Inv, DropsReportedOnce, TypeOK
<1>12. PostInv' /\ IdInv' /\ ResolvedMeansDelivered'
  BY <1>5 DEF Inv, PostInv, IdInv, ResolvedMeansDelivered, Posted, postVars, serviceVars
<1> QED
  BY <1>9, <1>10, <1>11, <1>12 DEF Inv

-----------------------------------------------------------------------------
(* flush and tryPostingEvents *)

\* A payload keeps its kind, its id and its events as it is posted and posted again.
LEMMA OnePost ==
  ASSUME TypeOK, NEW p \in Posted, NEW e \in Payloads, posts' = [posts EXCEPT ![p] = e]
  PROVE  /\ posts' \in Seq(Payloads) /\ Posted' = Posted
         /\ posts'[p] = e /\ \A q \in Posted \ {p} : posts'[q] = posts[q]
  BY ExceptSeq DEF TypeOK, Posted

\* A payload that is new comes last.
LEMMA NewPost ==
  ASSUME TypeOK, NEW e \in Payloads, posts' = Append(posts, e)
  PROVE  /\ posts' \in Seq(Payloads) /\ Len(posts') = Len(posts) + 1
         /\ Posted' = Posted \cup {Len(posts) + 1} /\ Len(posts) + 1 \notin Posted
         /\ posts'[Len(posts) + 1] = e /\ \A q \in Posted : posts'[q] = posts[q]
  BY AppendProperties DEF TypeOK, Posted

LEMMA FlushInv == ASSUME Inv, Flush PROVE Inv'
<1> DEFINE n == Len(posts) + 1
           e == Payload("events", nextId, queue, summary)
<1>1. /\ TypeOK /\ PostInv /\ IdInv /\ nextId \in Nat /\ nextId > 0 /\ n \in 1..MaxPosts
      /\ \A p \in Posted : p \in 1..MaxPosts /\ p # n
  BY EventAssumption, SMTT(30) DEF Inv, TypeOK, PostInv, IdInv, Flush, NoId, Posted
<1>2. e \in Payloads /\ e.size <= Capacity
  BY <1>1 DEF Payload, Payloads, Stages, TypeOK
<1>3. posts' = Append(posts, e)
  BY DEF Flush
<1>4. /\ posts' \in Seq(Payloads) /\ Len(posts') = n
      /\ Posted' = Posted \cup {n} /\ n \notin Posted
      /\ posts'[n] = e /\ \A q \in Posted : posts'[q] = posts[q]
  BY <1>1, <1>2, <1>3, NewPost
<1>5. /\ nextId' = nextId + 1 /\ queue' = <<>> /\ summary' = NoEvaluations
      /\ UNCHANGED <<userKeys, droppedEvents, shutdown, serviceVars, historyVars>>
  BY DEF Flush, SummaryAfterFlush
<1>6. e.kind = "events" /\ e.id = nextId /\ e.stage = "posting"
  BY DEF Payload
<1> HIDE DEF e, n
<1>7. TypeOK'
  <2>1. NoEvaluations \in [Counter -> Nat]
    BY DEF NoEvaluations
  <2>2. \A p \in Posted' : posts'[p].size <= Capacity
    BY <1>1, <1>2, <1>4 DEF TypeOK
  <2> QED
    BY <1>1, <1>4, <1>5, <2>1, <2>2, EventAssumption DEF TypeOK, serviceVars, historyVars
<1>8. PostInv'
  BY <1>1, <1>4, <1>6 DEF PostInv
<1>9. IdInv'
  <2>1. serviceIds' = serviceIds /\ processed' = processed
    BY <1>5 DEF serviceVars
  <2>2. serviceIds' \subseteq 1..nextId' - 1 /\ nextId' # NoId /\ nextId \notin serviceIds
    BY <1>1, <1>5, <2>1 DEF IdInv, NoId
  <2>3. \A p \in Posted' :
          posts'[p].id \in IF posts'[p].kind = "events" THEN 1..nextId' - 1 ELSE {NoId}
    BY <1>1, <1>4, <1>5, <1>6 DEF IdInv
  <2>4. \A p \in Posted : posts[p].id # nextId
    BY <1>1 DEF IdInv, NoId
  <2>5. \A p, q \in Posted' : posts'[p].id = posts'[q].id => p = q \/ posts'[p].id = NoId
    BY <1>1, <1>4, <1>6, <2>4 DEF IdInv
  <2>6. \A p \in 1..MaxPosts :
          processed'[p] = IF p \in Posted' /\ posts'[p].id \in serviceIds' THEN 1 ELSE 0
    BY <1>1, <1>4, <1>6, <2>1, <2>2 DEF IdInv
  <2> QED
    BY <2>2, <2>3, <2>5, <2>6 DEF IdInv
<1>10. ResolvedMeansDelivered'
  BY <1>4, <1>5, <1>6 DEF Inv, ResolvedMeansDelivered, serviceVars
<1>11. DropsReportedOnce' /\ KeysAnnounced' /\ UsersAnnounced'
  BY <1>5 DEF Inv, DropsReportedOnce, KeysAnnounced, UsersAnnounced, historyVars, Elements
<1> QED
  BY <1>7, <1>8, <1>9, <1>10, <1>11 DEF Inv

LEMMA PostDiagnosticEventInv == ASSUME Inv, PostDiagnosticEvent PROVE Inv'
<1> DEFINE n == Len(posts) + 1
           e == Payload("diagnostic", NoId, <<>>, NoEvaluations)
<1>1. /\ TypeOK /\ PostInv /\ IdInv /\ n \in 1..MaxPosts
      /\ \A p \in Posted : p \in 1..MaxPosts /\ p # n
  BY EventAssumption DEF Inv, TypeOK, PostInv, PostDiagnosticEvent, Posted
<1>2. e \in Payloads /\ e.size <= Capacity
  BY EventAssumption DEF Payload, Payloads, Stages, NoId, NoEvaluations
<1>3. posts' = Append(posts, e)
  BY DEF PostDiagnosticEvent
<1>4. /\ posts' \in Seq(Payloads) /\ Len(posts') = n
      /\ Posted' = Posted \cup {n} /\ n \notin Posted
      /\ posts'[n] = e /\ \A q \in Posted : posts'[q] = posts[q]
  BY <1>1, <1>2, <1>3, NewPost
<1>5. /\ droppedEvents' = 0 /\ reportedDropped' = reportedDropped + droppedEvents
      /\ UNCHANGED <<queue, summary, userKeys, shutdown, nextId, serviceVars, sent,
                     accepted, evaluated, totalDropped, announced, unannounced>>
  BY DEF PostDiagnosticEvent, DroppedAfterReport
<1>6. e.kind = "diagnostic" /\ e.id = NoId /\ e.stage = "posting"
  BY DEF Payload
<1> HIDE DEF e, n
<1>7. TypeOK'
  <2>1. \A p \in Posted' : posts'[p].size <= Capacity
    BY <1>1, <1>2, <1>4 DEF TypeOK
  <2> QED
    BY <1>1, <1>4, <1>5, <2>1 DEF TypeOK, serviceVars
<1>8. PostInv'
  BY <1>1, <1>4, <1>6 DEF PostInv
<1>9. IdInv'
  <2>1. /\ serviceIds' = serviceIds /\ processed' = processed /\ nextId' = nextId
        /\ NoId \notin serviceIds
    BY <1>1, <1>5 DEF serviceVars, IdInv, NoId
  <2>2. \A p \in Posted' :
          posts'[p].id \in IF posts'[p].kind = "events" THEN 1..nextId' - 1 ELSE {NoId}
    BY <1>1, <1>4, <1>6, <2>1 DEF IdInv
  <2>3. \A p, q \in Posted' : posts'[p].id = posts'[q].id => p = q \/ posts'[p].id = NoId
    BY <1>1, <1>4, <1>6 DEF IdInv
  <2>4. \A p \in 1..MaxPosts :
          processed'[p] = IF p \in Posted' /\ posts'[p].id \in serviceIds' THEN 1 ELSE 0
    BY <1>1, <1>4, <1>6, <2>1 DEF IdInv
  <2> QED
    BY <1>1, <2>1, <2>2, <2>3, <2>4 DEF IdInv
<1>10. ResolvedMeansDelivered'
  BY <1>4, <1>5, <1>6 DEF Inv, ResolvedMeansDelivered, serviceVars
<1>11. DropsReportedOnce' /\ KeysAnnounced' /\ UsersAnnounced'
  BY <1>1, <1>5 DEF Inv, TypeOK, DropsReportedOnce, KeysAnnounced, UsersAnnounced, Elements
<1> QED
  BY <1>7, <1>8, <1>9, <1>10, <1>11 DEF Inv

LEMMA PostedRange == ASSUME TypeOK, PostInv PROVE Posted \subseteq 1..MaxPosts
  BY EventAssumption DEF TypeOK, PostInv, Posted

\* Once a payload has been processed under its id, it is known to be.
LEMMA ProcessInv ==
  ASSUME Inv, NEW p \in Posted, Process(p)
  PROVE  /\ processed' \in [1..MaxPosts -> Nat] /\ serviceIds' \subseteq 1..nextId - 1
         /\ \A q \in 1..MaxPosts :
              processed'[q] = IF q \in Posted /\ posts[q].id \in serviceIds' THEN 1 ELSE 0
         /\ \A q \in 1..MaxPosts : processed'[q] >= processed[q]
         /\ posts[p].kind = "events" => processed'[p] = 1
<1>1. /\ processed \in [1..MaxPosts -> Nat] /\ p \in 1..MaxPosts
      /\ serviceIds \subseteq 1..nextId - 1
      /\ posts[p].id \in IF posts[p].kind = "events" THEN 1..nextId - 1 ELSE {NoId}
      /\ \A q \in Posted : posts[p].id = posts[q].id => p = q \/ posts[p].id = NoId
      /\ \A q \in 1..MaxPosts :
           processed[q] = IF q \in Posted /\ posts[q].id \in serviceIds THEN 1 ELSE 0
  BY EventAssumption, SMTT(30) DEF Inv, TypeOK, PostInv, IdInv, Posted
<1>2. CASE posts[p].id \in serviceIds \cup {NoId}
  <2>1. processed' = processed /\ serviceIds' = serviceIds
    BY <1>2 DEF Process, serviceVars
  <2>2. posts[p].kind = "events" => posts[p].id \in serviceIds
    BY <1>1, <1>2 DEF NoId
  <2>3. \A q \in 1..MaxPosts : processed'[q] >= processed[q]
    BY <1>1, <2>1
  <2> QED
    BY <1>1, <2>1, <2>2, <2>3
<1>3. CASE posts[p].id \notin serviceIds \cup {NoId}
  <2>1. /\ processed' = [processed EXCEPT ![p] = @ + 1]
        /\ serviceIds' = serviceIds \cup {posts[p].id}
    BY <1>3 DEF Process
  <2>2. processed[p] = 0
    BY <1>1, <1>3
  <2>3. posts[p].id \in 1..nextId - 1
    BY <1>1, <1>3
  <2>4. processed'[p] = 1 /\ \A q \in 1..MaxPosts \ {p} : processed'[q] = processed[q]
    BY <1>1, <2>1, <2>2
  <2>5. ASSUME NEW q \in 1..MaxPosts
        PROVE  processed'[q] = IF q \in Posted /\ posts[q].id \in serviceIds' THEN 1 ELSE 0
    <3>1. CASE q = p
      BY <2>1, <2>4, <3>1
    <3>2. CASE q # p
      <4>1. q \in Posted => posts[q].id # posts[p].id
        BY <1>1, <1>3, <3>2
      <4> QED
        BY <1>1, <2>1, <2>4, <3>2, <4>1
    <3> QED
      BY <3>1, <3>2
  <2>6. processed' \in [1..MaxPosts -> Nat]
    BY <1>1, <2>1
  <2>7. \A q \in 1..MaxPosts : processed'[q] >= processed[q]
    BY <1>1, <2>2, <2>4, <2>6
  <2> QED
    BY <1>1, <2>1, <2>3, <2>4, <2>5, <2>6, <2>7
<1> QED
  BY <1>2, <1>3

\* However a request ends, and when it is sent again, its payload keeps its id; it is
\* only resolved where the service has processed it.
LEMMA PostChangeInv ==
  ASSUME Inv, NEW p \in Posted, NEW e \in Payloads, posts' = [posts EXCEPT ![p] = e],
         e.kind = posts[p].kind, e.id = posts[p].id, e.size = posts[p].size,
         e.stage = "waiting" => e.attempts = 1,
         e.stage = "resolved" => Process(p),
         Process(p) \/ UNCHANGED serviceVars,
         UNCHANGED <<queueVars, nextId, historyVars>>, shutdown' \in BOOLEAN
  PROVE  Inv'
<1>1. TypeOK /\ PostInv /\ IdInv
  BY DEF Inv
<1>2. /\ posts' \in Seq(Payloads) /\ Posted' = Posted
      /\ posts'[p] = e /\ \A q \in Posted \ {p} : posts'[q] = posts[q]
  BY <1>1, OnePost
<1>3. \A q \in Posted : /\ posts'[q].kind = posts[q].kind /\ posts'[q].id = posts[q].id
                        /\ posts'[q].size = posts[q].size
  BY <1>2
<1>4. /\ processed' \in [1..MaxPosts -> Nat] /\ serviceIds' \subseteq 1..nextId - 1
      /\ \A q \in 1..MaxPosts :
           processed'[q] = IF q \in Posted /\ posts[q].id \in serviceIds' THEN 1 ELSE 0
      /\ \A q \in 1..MaxPosts : processed'[q] >= processed[q]
  <2>1. CASE UNCHANGED serviceVars
    <3>1. processed' = processed /\ serviceIds' = serviceIds
      BY <2>1 DEF serviceVars
    <3>2. processed \in [1..MaxPosts -> Nat]
      BY <1>1 DEF TypeOK
    <3>3. \A q \in 1..MaxPosts : processed'[q] >= processed[q]
      BY <3>1, <3>2
    <3> QED
      BY <1>1, <3>1, <3>2, <3>3 DEF IdInv
  <2>2. CASE Process(p)
    BY <2>2, ProcessInv
  <2> QED
    BY <2>1, <2>2
<1>5. UNCHANGED <<queue, summary, userKeys, droppedEvents, nextId, sent, accepted, evaluated,
                  totalDropped, reportedDropped, announced, unannounced>>
  BY DEF queueVars, historyVars
<1>6. TypeOK'
  <2>1. serviceIds' \subseteq Nat
    BY <1>1, <1>4 DEF TypeOK
  <2>2. \A q \in Posted' : posts'[q].size <= Capacity
    BY <1>1, <1>2, <1>3 DEF TypeOK
  <2> QED
    BY <1>1, <1>2, <1>4, <1>5, <2>1, <2>2 DEF TypeOK
<1>7. PostInv'
  <2>1. Len(posts') = Len(posts)
    BY <1>1, ExceptSeq DEF TypeOK, Posted
  <2> QED
    BY <1>1, <1>2, <2>1 DEF PostInv
<1>8. IdInv'
  BY <1>1, <1>2, <1>3, <1>4, <1>5 DEF IdInv
<1>9. ResolvedMeansDelivered'
  <2> SUFFICES ASSUME NEW q \in Posted, posts'[q].kind = "events", posts'[q].stage = "resolved"
               PROVE  processed'[q] >= 1
    BY <1>2 DEF ResolvedMeansDelivered
  <2>1. CASE q = p
    <3>1. Process(p) /\ posts[p].kind = "events"
      BY <1>2, <2>1
    <3>2. processed'[p] = 1
      BY <3>1, ProcessInv
    <3> QED
      BY <2>1, <3>2
  <2>2. CASE q # p
    <3>1. processed[q] >= 1 /\ q \in 1..MaxPosts
      BY <1>1, <1>2, <2>2, PostedRange DEF Inv, ResolvedMeansDelivered
    <3>2. processed'[q] >= processed[q] /\ processed[q] \in Nat /\ processed'[q] \in Nat
      BY <1>1, <1>4, <3>1 DEF TypeOK
    <3> QED
      BY <3>1, <3>2
  <2> QED
    BY <2>1, <2>2
<1>10. DropsReportedOnce' /\ KeysAnnounced' /\ UsersAnnounced'
  BY <1>5 DEF Inv, DropsReportedOnce, KeysAnnounced, UsersAnnounced, Elements
<1> QED
  BY <1>6, <1>7, <1>8, <1>9, <1>10 DEF Inv

LEMMA SettleInv ==
  ASSUME Inv, NEW p \in Posted, NEW stage \in Stages, Settle(p, stage),
         stage = "waiting" => posts[p].attempts = 1,
         stage = "resolved" => Process(p),
         Process(p) \/ UNCHANGED serviceVars,
         UNCHANGED <<queueVars, nextId, historyVars>>, shutdown' \in BOOLEAN
  PROVE  Inv'
<1> DEFINE e == [posts[p] EXCEPT !.stage = stage]
<1>1. posts[p] \in Payloads
  BY ElementOfSeq DEF Inv, TypeOK, Posted
<1>2. /\ e \in Payloads /\ e.stage = stage /\ e.attempts = posts[p].attempts
      /\ e.kind = posts[p].kind /\ e.id = posts[p].id /\ e.size = posts[p].size
  BY <1>1 DEF Payloads
<1>3. posts' = [posts EXCEPT ![p] = e]
  BY DEF Settle
<1> HIDE DEF e
<1> QED
  BY <1>2, <1>3, PostChangeInv

LEMMA RetryInv == ASSUME Inv, NEW p \in Posted, Retry(p) PROVE Inv'
<1> DEFINE e == [posts[p] EXCEPT !.stage = "posting", !.attempts = @ + 1, !.id = RetryId(p)]
<1>1. posts[p] \in Payloads /\ posts[p].attempts = 1 /\ posts[p].id # nextId
  BY ElementOfSeq, SMTT(30) DEF Inv, TypeOK, PostInv, IdInv, Posted, NoId, Retry
<1> USE DEF RetryId
<1>2. /\ e \in Payloads /\ e.stage = "posting"
      /\ e.kind = posts[p].kind /\ e.id = posts[p].id /\ e.size = posts[p].size
  <2>1. "posting" \in Stages /\ posts[p].attempts + 1 \in {1, 2}
    BY <1>1 DEF Stages
  <2> QED
    BY <1>1, <2>1 DEF Payloads
<1>3. posts' = [posts EXCEPT ![p] = e]
  BY DEF Retry
<1>4. nextId' = nextId /\ UNCHANGED <<queueVars, shutdown, serviceVars, historyVars>>
  BY <1>1 DEF Retry
<1>5. shutdown' \in BOOLEAN
  BY <1>4 DEF Inv, TypeOK
<1> HIDE DEF e
<1> QED
  BY <1>2, <1>3, <1>4, <1>5, PostChangeInv

LEMMA RequestInv ==
  ASSUME Inv, NEW p \in Posted, Succeeds(p) \/ FailsForNow(p) \/ FailsForGood(p) PROVE Inv'
<1>1. shutdown \in BOOLEAN
  BY DEF Inv, TypeOK
<1>2. CASE Succeeds(p)
  BY <1>1, <1>2, SettleInv DEF Succeeds, Stages
<1>3. CASE FailsForNow(p)
  <2>1. /\ RetryOrReject(p) \in Stages \ {"resolved"}
        /\ RetryOrReject(p) = "waiting" => posts[p].attempts = 1
    BY DEF RetryOrReject, Stages
  <2> QED
    BY <1>1, <1>3, <2>1, SettleInv DEF FailsForNow
<1>4. CASE FailsForGood(p)
  BY <1>4, SettleInv DEF FailsForGood, Stages
<1> QED
  BY <1>2, <1>3, <1>4

-----------------------------------------------------------------------------

LEMMA InitInv == Init => Inv
<1> SUFFICES ASSUME Init PROVE Inv
  OBVIOUS
<1>1. TypeOK
  <2>1. NoEvaluations \in [Counter -> Nat] /\ [p \in 1..MaxPosts |-> 0] \in [1..MaxPosts -> Nat]
    BY DEF NoEvaluations
  <2>2. /\ queue \in Seq(Outputs) /\ Len(queue) <= Capacity
        /\ userKeys \in Seq(User) /\ Len(userKeys) <= UserKeysCapacity
        /\ posts \in Seq(Payloads) /\ Posted = {}
    BY EventAssumption DEF Init, Posted
  <2>3. /\ summary \in [Counter -> Nat] /\ evaluated \in [Counter -> Nat]
        /\ processed \in [1..MaxPosts -> Nat] /\ droppedEvents \in Nat /\ shutdown \in BOOLEAN
        /\ serviceIds \subseteq Nat /\ nextId \in Nat /\ sent \in Nat /\ accepted \in Nat
        /\ totalDropped \in Nat /\ reportedDropped \in Nat
        /\ announced \subseteq User /\ unannounced \subseteq User
    BY <2>1 DEF Init
  <2>4. \A i, j \in 1..Len(userKeys) : userKeys[i] = userKeys[j] => i = j
    BY DEF Init
  <2> QED
    BY <2>2, <2>3, <2>4 DEF TypeOK
<1>2. PostInv /\ ResolvedMeansDelivered
  BY EventAssumption DEF Init, PostInv, ResolvedMeansDelivered, Posted
<1>3. IdInv
  BY DEF Init, IdInv, NoId, Posted
<1>4. DropsReportedOnce /\ KeysAnnounced /\ UsersAnnounced
  BY DEF Init, DropsReportedOnce, KeysAnnounced, UsersAnnounced, Elements
<1> QED
  BY <1>1, <1>2, <1>3, <1>4 DEF Inv

LEMMA NextInv == Inv /\ [Next]_vars => Inv'
<1> SUFFICES ASSUME Inv, [Next]_vars PROVE Inv'
  OBVIOUS
<1>1. CASE FlushUserKeys
  <2>1. userKeys' = <<>>
    BY <1>1 DEF FlushUserKeys
  <2>2. UNCHANGED <<queue, summary, droppedEvents, shutdown, postVars, serviceVars, historyVars>>
    BY <1>1 DEF FlushUserKeys
  <2>3. TypeOK'
    BY <2>1, <2>2, EventAssumption
       DEF Inv, TypeOK, postVars, serviceVars, historyVars, Posted
  <2>4. PostInv' /\ IdInv' /\ ResolvedMeansDelivered' /\ DropsReportedOnce'
    BY <2>2 DEF Inv, PostInv, IdInv, ResolvedMeansDelivered, DropsReportedOnce, postVars,
                serviceVars, historyVars, Posted
  <2>5. KeysAnnounced' /\ UsersAnnounced'
    BY <2>1, <2>2 DEF Inv, KeysAnnounced, UsersAnnounced, Elements, historyVars
  <2> QED
    BY <2>3, <2>4, <2>5 DEF Inv
<1>2. CASE UNCHANGED vars
  BY <1>2 DEF vars, queueVars, postVars, serviceVars, historyVars, Inv, TypeOK, PostInv,
              IdInv, ResolvedMeansDelivered, DropsReportedOnce, KeysAnnounced, UsersAnnounced,
              Elements, Posted
<1> QED
  BY <1>1, <1>2, SendEventInv, FlushInv, PostDiagnosticEventInv, RequestInv, RetryInv DEF Next

LEMMA InvHolds == Spec => []Inv
  BY InitInv, NextInv, PTL DEF Spec

-----------------------------------------------------------------------------
(* Sums *)

\* Induction over one set of numbers, from its least element that is missing.
LEMMA SetInduction ==
  ASSUME NEW T, 0 \in T, \A k \in Nat : k \in T => k + 1 \in T
  PROVE  Nat \subseteq T
<1>1. SUFFICES ASSUME Nat \ T # {} PROVE FALSE
  OBVIOUS
<1>2. PICK m \in Nat \ T : \A k \in Nat \ T : ~ (k < m)
  <2> DEFINE R == {ss \in Nat \X Nat : ss[1] < ss[2]}
  <2>1. IsWellFoundedOn(OpToRel(<,Nat), Nat)
    BY NatLessThanWellFounded
  <2>2. OpToRel(<,Nat) = R
    BY DEF OpToRel
  <2>3. \E m \in Nat \ T : \A k \in Nat \ T : ~ (<<k, m>> \in R)
    BY <1>1, <2>1, <2>2, WFMin, ZenonT(30)
  <2>4. \A m, k \in Nat : k < m => <<k, m>> \in R
    BY SMT
  <2> HIDE DEF R
  <2> QED
    BY <2>3, <2>4
<1>3. m # 0 /\ m - 1 \in Nat
  BY <1>2
<1>4. m - 1 \in T /\ m - 1 + 1 = m
  BY <1>2, <1>3
<1> QED
  BY <1>2, <1>3, <1>4

\* The sums of the first parts of count.
Sums(s, count, n) ==
  s = [p \in 0..n |-> IF p = 0 THEN 0 ELSE s[p - 1] + count[p]]
Counts(count, n) == \A p \in 1..n : count[p] \in Nat

LEMMA SumsExist ==
  ASSUME NEW count, NEW n \in Nat, Counts(count, n)
  PROVE  \E s : Sums(s, count, n)
<1> DEFINE T == {m \in Nat : m <= n => \E s \in [0..m -> Nat] : Sums(s, count, m)}
<1>1. 0 \in T
  <2> DEFINE s == [p \in 0..0 |-> 0]
  <2>1. s \in [0..0 -> Nat] /\ Sums(s, count, 0)
    BY DEF Sums
  <2> QED
    BY <2>1
<1>2. ASSUME NEW m \in Nat, m \in T PROVE m + 1 \in T
  <2>1. SUFFICES ASSUME m + 1 <= n PROVE \E s \in [0..m + 1 -> Nat] : Sums(s, count, m + 1)
    OBVIOUS
  <2>2. PICK s \in [0..m -> Nat] : Sums(s, count, m)
    BY <1>2, <2>1
  <2> DEFINE t == [p \in 0..m + 1 |-> IF p = m + 1 THEN s[m] + count[m + 1] ELSE s[p]]
  <2>3. \A p \in 0..m : s[p] = IF p = 0 THEN 0 ELSE s[p - 1] + count[p]
    BY <2>2 DEF Sums
  <2>4. t \in [0..m + 1 -> Nat]
    BY <2>1, <2>2 DEF Counts
  <2>5. \A p \in 0..m + 1 : t[p] = IF p = 0 THEN 0 ELSE t[p - 1] + count[p]
    BY <2>3
  <2>6. Sums(t, count, m + 1)
    BY <2>4, <2>5 DEF Sums
  <2> QED
    BY <2>4, <2>6
<1> HIDE DEF T
<1>3. Nat \subseteq T
  BY <1>1, <1>2, SetInduction
<1> QED
  BY <1>3 DEF T

\* Total is the last of the sums.
LEMMA TotalIsSum ==
  ASSUME NEW count, NEW n \in Nat, Counts(count, n)
  PROVE  \E s : Sums(s, count, n) /\ Total(count, n) = s[n]
<1> DEFINE s == CHOOSE s : Sums(s, count, n)
<1>1. Sums(s, count, n)
  BY SumsExist
<1>2. Total(count, n) = s[n]
  BY DEF Total, Sums
<1> QED
  BY <1>1, <1>2

\* Sums of what agrees agree, and are natural numbers.
LEMMA SumsAgree ==
  ASSUME NEW a, NEW b, NEW m \in Nat, NEW n \in Nat, m <= n, NEW s, NEW t,
         Sums(s, a, m), Sums(t, b, n), Counts(a, m), \A p \in 1..m : a[p] = b[p]
  PROVE  s[m] = t[m] /\ s[m] \in Nat
<1> DEFINE T == {k \in Nat : k <= m => s[k] = t[k] /\ s[k] \in Nat}
<1>1. /\ \A p \in 0..m : s[p] = IF p = 0 THEN 0 ELSE s[p - 1] + a[p]
      /\ \A p \in 0..n : t[p] = IF p = 0 THEN 0 ELSE t[p - 1] + b[p]
  BY DEF Sums
<1>2. 0 \in T
  BY <1>1
<1>3. ASSUME NEW k \in Nat, k \in T PROVE k + 1 \in T
  <2>1. SUFFICES ASSUME k + 1 <= m PROVE s[k + 1] = t[k + 1] /\ s[k + 1] \in Nat
    OBVIOUS
  <2>2. s[k] = t[k] /\ s[k] \in Nat
    BY <1>3, <2>1
  <2>3. k + 1 \in 0..m /\ k + 1 \in 0..n /\ k + 1 \in 1..m /\ k + 1 # 0 /\ k + 1 - 1 = k
    BY <2>1
  <2>4. s[k + 1] = s[k] + a[k + 1] /\ t[k + 1] = t[k] + b[k + 1]
    BY <1>1, <2>3
  <2> QED
    BY <2>2, <2>3, <2>4 DEF Counts
<1> HIDE DEF T
<1>4. Nat \subseteq T
  BY <1>2, <1>3, SetInduction
<1> QED
  BY <1>4 DEF T

\* The total of the same counts is the same, and one more count adds itself.
LEMMA TotalProperties ==
  ASSUME NEW a, NEW b, NEW n \in Nat, Counts(a, n), \A p \in 1..n : a[p] = b[p]
  PROVE  /\ Total(a, n) \in Nat /\ Total(b, n) = Total(a, n)
         /\ b[n + 1] \in Nat => Total(b, n + 1) = Total(a, n) + b[n + 1]
<1>1. Counts(b, n)
  BY DEF Counts
<1>2. PICK s : Sums(s, a, n) /\ Total(a, n) = s[n]
  BY TotalIsSum
<1>3. PICK t : Sums(t, b, n) /\ Total(b, n) = t[n]
  BY <1>1, TotalIsSum
<1>4. s[n] = t[n] /\ s[n] \in Nat
  BY <1>2, <1>3, SumsAgree
<1>5. ASSUME b[n + 1] \in Nat PROVE Total(b, n + 1) = Total(a, n) + b[n + 1]
  <2>1. Counts(b, n + 1) /\ n + 1 \in Nat
    BY <1>1, <1>5 DEF Counts
  <2>2. PICK u : Sums(u, b, n + 1) /\ Total(b, n + 1) = u[n + 1]
    BY <2>1, TotalIsSum
  <2>3. n <= n + 1
    OBVIOUS
  <2>4. s[n] = u[n]
    BY <1>2, <2>1, <2>2, <2>3, SumsAgree
  <2>5. u[n + 1] = u[n] + b[n + 1]
    BY <2>2 DEF Sums
  <2> QED
    BY <1>2, <2>2, <2>4, <2>5
<1> QED
  BY <1>2, <1>3, <1>4, <1>5

LEMMA TotalOfNothing == ASSUME NEW count PROVE Total(count, 0) = 0
<1>1. Counts(count, 0)
  BY DEF Counts
<1>2. PICK s : Sums(s, count, 0) /\ Total(count, 0) = s[0]
  BY <1>1, TotalIsSum
<1> QED
  BY <1>2 DEF Sums

\* What a step adds to the payloads' totals: nothing, or what a new payload holds.
LEMMA TotalsAfter ==
  ASSUME TypeOK, TypeOK', Len(posts') \in {Len(posts), Len(posts) + 1},
         \A p \in Posted : /\ posts'[p].size = posts[p].size
                           /\ posts'[p].evaluations = posts[p].evaluations
  PROVE  LET n == Len(posts)
             m == Len(posts')
         IN  /\ Total(Sizes, n) \in Nat
             /\ Total(Sizes', m) = Total(Sizes, n) + IF m = n THEN 0 ELSE posts'[m].size
             /\ \A c \in Counter :
                  /\ Total(Evaluations(c), n) \in Nat
                  /\ Total(Evaluations(c)', m) =
                       Total(Evaluations(c), n) + IF m = n THEN 0 ELSE posts'[m].evaluations[c]
<1> DEFINE n == Len(posts)
           m == Len(posts')
<1>1. n \in Nat /\ Posted = 1..n /\ Posted' = 1..m /\ (m = n \/ m = n + 1)
  BY DEF TypeOK, Posted
<1>2. /\ \A p \in 1..n : posts[p] \in Payloads
      /\ \A p \in 1..m : posts'[p] \in Payloads
  <2>1. posts \in Seq(Payloads) /\ posts' \in Seq(Payloads)
    BY DEF TypeOK
  <2> QED
    BY <2>1, ElementOfSeq
<1>3. /\ \A p \in 1..n : posts[p].size \in Nat /\ posts[p].evaluations \in [Counter -> Nat]
      /\ \A p \in 1..m : posts'[p].size \in Nat /\ posts'[p].evaluations \in [Counter -> Nat]
  BY <1>2 DEF Payloads
<1>4. \A p \in 1..n : /\ posts'[p].size = posts[p].size
                      /\ posts'[p].evaluations = posts[p].evaluations
  BY <1>1
<1> HIDE DEF n, m
<1>5. ASSUME NEW a, NEW b, \A p \in 1..n : a[p] \in Nat /\ b[p] = a[p],
             \A p \in 1..m : b[p] \in Nat
      PROVE  /\ Total(a, n) \in Nat
             /\ Total(b, m) = Total(a, n) + IF m = n THEN 0 ELSE b[m]
  <2>1. Counts(a, n) /\ \A p \in 1..n : a[p] = b[p]
    BY <1>5 DEF Counts
  <2>2. /\ Total(a, n) \in Nat /\ Total(b, n) = Total(a, n)
        /\ b[n + 1] \in Nat => Total(b, n + 1) = Total(a, n) + b[n + 1]
    BY <1>1, <2>1, TotalProperties
  <2>3. CASE m = n
    BY <2>2, <2>3
  <2>4. CASE m = n + 1
    <3>1. b[n + 1] \in Nat /\ m # n
      BY <1>1, <1>5, <2>4
    <3> QED
      BY <2>2, <2>4, <3>1
  <2> QED
    BY <1>1, <2>3, <2>4
<1>6. /\ Total(Sizes, n) \in Nat
      /\ Total(Sizes', m) = Total(Sizes, n) + IF m = n THEN 0 ELSE posts'[m].size
  <2> DEFINE a == Sizes
             b == Sizes'
  <2>1. /\ \A p \in 1..n : a[p] = posts[p].size
        /\ \A p \in 1..m : b[p] = posts'[p].size
        /\ m # n => m \in 1..m
        /\ \A p \in 1..n : p \in 1..m
    BY <1>1 DEF Sizes
  <2> HIDE DEF a, b
  <2>2. /\ Total(a, n) \in Nat
        /\ Total(b, m) = Total(a, n) + IF m = n THEN 0 ELSE b[m]
    BY <1>3, <1>4, <1>5, <2>1
  <2> QED
    BY <2>1, <2>2 DEF a, b
<1>7. ASSUME NEW c \in Counter
      PROVE  /\ Total(Evaluations(c), n) \in Nat
             /\ Total(Evaluations(c)', m) =
                  Total(Evaluations(c), n) + IF m = n THEN 0 ELSE posts'[m].evaluations[c]
  <2> DEFINE a == Evaluations(c)
             b == Evaluations(c)'
  <2>1. /\ \A p \in 1..n : a[p] = posts[p].evaluations[c]
        /\ \A p \in 1..m : b[p] = posts'[p].evaluations[c]
        /\ m # n => m \in 1..m
        /\ \A p \in 1..n : p \in 1..m
    BY <1>1 DEF Evaluations
  <2> HIDE DEF a, b
  <2>2. /\ \A p \in 1..n : a[p] \in Nat /\ b[p] = a[p]
        /\ \A p \in 1..m : b[p] \in Nat
    BY <1>3, <1>4, <2>1
  <2>3. /\ Total(a, n) \in Nat
        /\ Total(b, m) = Total(a, n) + IF m = n THEN 0 ELSE b[m]
    BY <1>5, <2>2
  <2> QED
    BY <2>1, <2>3 DEF a, b
<1> QED
  BY <1>6, <1>7 DEF n, m

\* A step that leaves the payloads' contents and the counts alone.
LEMMA ConservedKept ==
  ASSUME TypeOK, TypeOK', Conserved, Len(posts') = Len(posts),
         \A p \in Posted : /\ posts'[p].size = posts[p].size
                           /\ posts'[p].evaluations = posts[p].evaluations,
         Len(queue') = Len(queue), UNCHANGED <<accepted, evaluated, summary>>
  PROVE  Conserved'
<1>1. /\ Total(Sizes', Len(posts')) = Total(Sizes, Len(posts)) + 0
      /\ Total(Sizes, Len(posts)) \in Nat
      /\ \A c \in Counter :
           /\ Total(Evaluations(c)', Len(posts')) = Total(Evaluations(c), Len(posts)) + 0
           /\ Total(Evaluations(c), Len(posts)) \in Nat
  BY TotalsAfter
<1>2. /\ Total(Sizes', Len(posts')) = Total(Sizes, Len(posts))
      /\ \A c \in Counter :
           Total(Evaluations(c)', Len(posts')) = Total(Evaluations(c), Len(posts))
  BY <1>1
<1> QED
  BY <1>2 DEF Conserved

LEMMA ConservedStep == Inv /\ Inv' /\ Conserved /\ [Next]_vars => Conserved'
<1> SUFFICES ASSUME Inv, Inv', Conserved, [Next]_vars PROVE Conserved'
  OBVIOUS
<1>1. TypeOK /\ TypeOK'
  BY DEF Inv
<1>2. /\ queue \in Seq(Outputs) /\ Len(queue) \in Nat /\ Len(posts) \in Nat
      /\ accepted \in Nat /\ summary \in [Counter -> Nat] /\ evaluated \in [Counter -> Nat]
  BY <1>1, SMTT(30) DEF TypeOK
<1>3. ASSUME NEW event \in Event, NEW debugging \in BOOLEAN, SendEvent(event, debugging)
      PROVE  Conserved'
  <2> DEFINE outputs == OutputsOf(event, debugging)
             kept == Prefix(outputs, Room)
  <2>1. /\ queue' = queue \o kept /\ accepted' = accepted + Len(kept) /\ posts' = posts
        /\ summary' = IF event.kind = "feature"
                        THEN [summary EXCEPT ![event.counter] = @ + 1] ELSE summary
        /\ evaluated' = IF event.kind = "feature"
                          THEN [evaluated EXCEPT ![event.counter] = @ + 1] ELSE evaluated
    BY <1>3 DEF SendEvent, postVars
  <2>2. kept \in Seq(Outputs) /\ Len(kept) \in Nat
    <3>1. outputs \in Seq(Outputs)
      BY OutputsProperties
    <3>2. Room \in Nat
      BY <1>1, EventAssumption DEF TypeOK, Room
    <3> HIDE DEF outputs
    <3>3. kept \in Seq(Outputs)
      BY <3>1, <3>2, PrefixSuffix
    <3> QED
      BY <3>3
  <2> HIDE DEF outputs, kept
  <2>3. Len(queue') = Len(queue) + Len(kept)
    BY <1>2, <2>1, <2>2
  <2>4. /\ Total(Sizes', Len(posts')) = Total(Sizes, Len(posts))
        /\ Total(Sizes, Len(posts)) \in Nat
        /\ \A c \in Counter :
             /\ Total(Evaluations(c)', Len(posts')) = Total(Evaluations(c), Len(posts))
             /\ Total(Evaluations(c), Len(posts)) \in Nat
    <3>1. Sizes' = Sizes /\ \A c \in Counter : Evaluations(c)' = Evaluations(c)
      BY <2>1 DEF Sizes, Evaluations, Posted
    <3>2. /\ Total(Sizes, Len(posts)) \in Nat
          /\ \A c \in Counter : Total(Evaluations(c), Len(posts)) \in Nat
      BY <1>1, <2>1, TotalsAfter
    <3> QED
      BY <2>1, <3>1, <3>2
  <2>5. \A c \in Counter : \E d \in {0, 1} :
          summary'[c] = summary[c] + d /\ evaluated'[c] = evaluated[c] + d
    BY <1>2, <2>1
  <2>6. accepted' = Len(queue') + Total(Sizes', Len(posts'))
    BY <1>2, <2>1, <2>2, <2>3, <2>4 DEF Conserved
  <2>7. ASSUME NEW c \in Counter
        PROVE  evaluated'[c] = summary'[c] + Total(Evaluations(c)', Len(posts'))
    <3>1. evaluated[c] = summary[c] + Total(Evaluations(c), Len(posts))
      BY DEF Conserved
    <3>2. summary[c] \in Nat /\ evaluated[c] \in Nat
      BY <1>2
    <3> QED
      BY <2>4, <2>5, <3>1, <3>2
  <2> QED
    BY <2>6, <2>7 DEF Conserved
<1>4. CASE Flush
  <2> DEFINE e == Payload("events", nextId, queue, summary)
             n == Len(posts) + 1
  <2>1. /\ posts' = Append(posts, e) /\ queue' = <<>> /\ summary' = NoEvaluations
        /\ UNCHANGED <<accepted, evaluated>>
    BY <1>4 DEF Flush, SummaryAfterFlush, historyVars
  <2>2. e \in Payloads /\ e.size = Len(queue) /\ e.evaluations = summary
    BY <1>1, <1>2 DEF Payload, Payloads, Stages, TypeOK
  <2> HIDE DEF e
  <2>3. Len(posts') = n /\ posts'[n] = e /\ \A p \in Posted : posts'[p] = posts[p]
    BY <1>1, <2>1, <2>2, NewPost
  <2>4. n # Len(posts)
    BY <1>2
  <2>5. /\ Total(Sizes', n) = Total(Sizes, Len(posts)) + Len(queue)
        /\ Total(Sizes, Len(posts)) \in Nat
        /\ \A c \in Counter :
             /\ Total(Evaluations(c)', n) = Total(Evaluations(c), Len(posts)) + summary[c]
             /\ Total(Evaluations(c), Len(posts)) \in Nat
    <3> HIDE DEF n
    <3>1. /\ Total(Sizes', n) = Total(Sizes, Len(posts)) + posts'[n].size
          /\ Total(Sizes, Len(posts)) \in Nat
          /\ \A c \in Counter :
               /\ Total(Evaluations(c)', n) = Total(Evaluations(c), Len(posts))
                                                + posts'[n].evaluations[c]
               /\ Total(Evaluations(c), Len(posts)) \in Nat
      BY <1>1, <2>3, <2>4, TotalsAfter DEF n
    <3> QED
      BY <2>2, <2>3, <3>1
  <2>6. accepted' = Len(queue') + Total(Sizes', n)
    BY <1>2, <2>1, <2>5 DEF Conserved
  <2>7. ASSUME NEW c \in Counter PROVE evaluated'[c] = summary'[c] + Total(Evaluations(c)', n)
    <3>1. evaluated[c] = summary[c] + Total(Evaluations(c), Len(posts)) /\ summary'[c] = 0
      BY <2>1 DEF Conserved, NoEvaluations
    <3>2. summary[c] \in Nat
      BY <1>2
    <3> QED
      BY <2>1, <2>5, <3>1, <3>2
  <2> QED
    BY <2>3, <2>6, <2>7 DEF Conserved
<1>5. CASE PostDiagnosticEvent
  <2> DEFINE e == Payload("diagnostic", NoId, <<>>, NoEvaluations)
             n == Len(posts) + 1
  <2>1. posts' = Append(posts, e) /\ UNCHANGED <<queue, summary, accepted, evaluated>>
    BY <1>5 DEF PostDiagnosticEvent
  <2>2. e \in Payloads /\ e.size = 0 /\ \A c \in Counter : e.evaluations[c] = 0
    BY DEF Payload, Payloads, Stages, NoId, NoEvaluations
  <2> HIDE DEF e
  <2>3. Len(posts') = n /\ posts'[n] = e /\ \A p \in Posted : posts'[p] = posts[p]
    BY <1>1, <2>1, <2>2, NewPost
  <2>4. n # Len(posts)
    BY <1>2
  <2>5. /\ Total(Sizes', n) = Total(Sizes, Len(posts))
        /\ \A c \in Counter : Total(Evaluations(c)', n) = Total(Evaluations(c), Len(posts))
    <3> HIDE DEF n
    <3>1. /\ Total(Sizes', n) = Total(Sizes, Len(posts)) + posts'[n].size
          /\ Total(Sizes, Len(posts)) \in Nat
          /\ \A c \in Counter :
               /\ Total(Evaluations(c)', n) = Total(Evaluations(c), Len(posts))
                                                + posts'[n].evaluations[c]
               /\ Total(Evaluations(c), Len(posts)) \in Nat
      BY <1>1, <2>3, <2>4, TotalsAfter DEF n
    <3> QED
      BY <2>2, <2>3, <3>1
  <2> QED
    BY <2>1, <2>3, <2>5 DEF Conserved
<1>6. ASSUME NEW p \in Posted,
             Succeeds(p) \/ FailsForNow(p) \/ FailsForGood(p) \/ Retry(p)
      PROVE  Conserved'
  <2>1. queue' = queue /\ UNCHANGED <<accepted, evaluated, summary>>
    BY <1>6 DEF Succeeds, FailsForNow, FailsForGood, Retry, queueVars, historyVars
  <2>2. PICK e : /\ posts' = [posts EXCEPT ![p] = e]
                 /\ e.size = posts[p].size /\ e.evaluations = posts[p].evaluations
    <3>1. posts[p] \in Payloads
      BY <1>1, SMTT(30) DEF TypeOK, Posted
    <3>2. ASSUME NEW stage, Settle(p, stage)
          PROVE  \E e : /\ posts' = [posts EXCEPT ![p] = e]
                        /\ e.size = posts[p].size /\ e.evaluations = posts[p].evaluations
      <4> DEFINE e == [posts[p] EXCEPT !.stage = stage]
      <4>1. posts' = [posts EXCEPT ![p] = e]
        BY <3>2 DEF Settle
      <4>2. e.size = posts[p].size /\ e.evaluations = posts[p].evaluations
        BY <3>1 DEF Payloads
      <4> QED
        BY <4>1, <4>2
    <3>3. CASE Retry(p)
      <4> DEFINE e == [posts[p] EXCEPT !.stage = "posting", !.attempts = @ + 1,
                                       !.id = RetryId(p)]
      <4>1. posts' = [posts EXCEPT ![p] = e]
        BY <3>3 DEF Retry
      <4>2. e.size = posts[p].size /\ e.evaluations = posts[p].evaluations
        BY <3>1 DEF Payloads
      <4> QED
        BY <4>1, <4>2
    <3> QED
      BY <1>6, <3>2, <3>3 DEF Succeeds, FailsForNow, FailsForGood
  <2>3. /\ Len(posts') = Len(posts)
        /\ \A q \in Posted : /\ posts'[q].size = posts[q].size
                             /\ posts'[q].evaluations = posts[q].evaluations
    <3>1. posts \in Seq(Payloads) /\ Posted = DOMAIN posts
      BY <1>1 DEF TypeOK, Posted
    <3>2. Len(posts') = Len(posts)
      BY <2>2, <3>1
    <3>3. \A q \in Posted : posts'[q] = IF q = p THEN e ELSE posts[q]
      BY <2>2, <3>1
    <3> QED
      BY <2>2, <3>2, <3>3
  <2> QED
    BY <1>1, <2>1, <2>3, ConservedKept
<1>7. CASE FlushUserKeys
  <2>1. posts' = posts /\ UNCHANGED <<queue, summary, accepted, evaluated>>
    BY <1>7 DEF FlushUserKeys, postVars, historyVars
  <2> QED
    BY <1>1, <2>1, ConservedKept
<1>8. CASE UNCHANGED vars
  <2>1. posts' = posts /\ UNCHANGED <<queue, summary, accepted, evaluated>>
    BY <1>8 DEF vars, queueVars, postVars, historyVars
  <2> QED
    BY <1>1, <2>1, ConservedKept
<1> QED
  BY <1>3, <1>4, <1>5, <1>6, <1>7, <1>8 DEF Next

LEMMA InitConserved == Init => Conserved
<1> SUFFICES ASSUME Init PROVE Conserved
  OBVIOUS
<1>1. Len(posts) = 0 /\ Len(queue) = 0 /\ accepted = 0
  BY DEF Init
<1>2. \A c \in Counter : evaluated[c] = 0 /\ summary[c] = 0
  BY DEF Init, NoEvaluations
<1>3. Total(Sizes, 0) = 0 /\ \A c \in Counter : Total(Evaluations(c), 0) = 0
  BY TotalOfNothing
<1> QED
  BY <1>1, <1>2, <1>3 DEF Conserved

\* Every variable keeps its type and every queue and cache its capacity, however many
\* events are sent.
THEOREM ProcessorTypeCorrect == Spec => []TypeOK
<1>1. Inv => TypeOK
  BY DEF Inv
<1> QED
  BY <1>1, InvHolds, PTL

\* However requests end and are sent again, the service counts a payload's events once.
THEOREM DeliveredAtMostOnce == Spec => []AtMostOnce
<1>1. Inv => AtMostOnce
  BY PostedRange DEF Inv, IdInv, AtMostOnce
<1> QED
  BY <1>1, InvHolds, PTL

\* When flush()'s promise resolves, the service has the events.
THEOREM ResolvedIsDelivered == Spec => []ResolvedMeansDelivered
<1>1. Inv => ResolvedMeansDelivered
  BY DEF Inv
<1> QED
  BY <1>1, InvHolds, PTL

\* Every dropped event is counted in one diagnostic event.
THEOREM DropsAccounted == Spec => []DropsReportedOnce
<1>1. Inv => DropsReportedOnce
  BY DEF Inv
<1> QED
  BY <1>1, InvHolds, PTL

\* No event in the queue names a user that was never described, unless the queue was
\* full when it should have been.
THEOREM UsersDescribed == Spec => []UsersAnnounced
<1>1. Inv => UsersAnnounced
  BY DEF Inv
<1> QED
  BY <1>1, InvHolds, PTL

\* No output event and no evaluation is lost or counted twice between the queue, the
\* summarizer and the payloads, whatever is retried, dropped or flushed (flush(),
\* enqueue() and the summarizer's clearSummary()).
THEOREM EventsConserved == Spec => []Conserved
<1>1. Inv /\ Conserved /\ [Next]_vars => (Inv /\ Conserved)'
  BY NextInv, ConservedStep
<1> QED
  BY <1>1, InitInv, InitConserved, PTL DEF Spec

\* After an unrecoverable status the queue is closed and no payload is made of it.
THEOREM ShutdownHolds == Spec => ShutdownIsFinal
<1> DEFINE Final == shutdown => /\ shutdown' /\ queue' = queue
                                /\ \A p \in Posted' \ Posted : posts'[p].kind = "diagnostic"
<1>1. Inv /\ [Next]_vars => [Final]_vars
  <2> SUFFICES ASSUME Inv, Next, shutdown PROVE Final
    OBVIOUS
  <2>1. TypeOK
    BY DEF Inv
  <2>2. CASE PostDiagnosticEvent
    <3> DEFINE e == Payload("diagnostic", NoId, <<>>, NoEvaluations)
    <3>1. e \in Payloads /\ e.kind = "diagnostic"
      BY DEF Payload, Payloads, Stages, NoId, NoEvaluations
    <3>2. posts' = Append(posts, e) /\ UNCHANGED <<shutdown, queue>>
      BY <2>2 DEF PostDiagnosticEvent
    <3> HIDE DEF e
    <3> QED
      BY <2>1, <3>1, <3>2, NewPost
  <2>3. ASSUME NEW p \in Posted,
               Succeeds(p) \/ FailsForNow(p) \/ FailsForGood(p) \/ Retry(p)
        PROVE  Final
    <3>1. shutdown' /\ queue' = queue
      BY <2>3 DEF Succeeds, FailsForNow, FailsForGood, Retry, queueVars
    <3>2. \E e : posts' = [posts EXCEPT ![p] = e]
      BY <2>3 DEF Succeeds, FailsForNow, FailsForGood, Retry, Settle
    <3>3. Posted' = Posted
      BY <2>1, <3>2 DEF Posted, TypeOK
    <3> QED
      BY <3>1, <3>3
  <2>4. CASE FlushUserKeys
    BY <2>4 DEF FlushUserKeys, postVars, Posted
  <2> QED
    BY <2>2, <2>3, <2>4 DEF Next, SendEvent, Flush, CanFlush
<1> QED
  BY <1>1, InvHolds, PTL DEF Spec, ShutdownIsFinal

=============================================================================
