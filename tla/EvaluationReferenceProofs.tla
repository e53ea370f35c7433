---------------------- MODULE EvaluationReferenceProofs ----------------------
(* A call that no update overlaps gives what the flags' definition gives
   (MatchesReference), for any flags without a cycle of prerequisites.

   First the pure parts: a verdict of evaluate_flag.js is the reference's unordered
   condition (Tells), a rollout serves by intervals, and the reference has a result
   and a sequence of events for every flag, by induction over the flags' ranks.

   Then the invariant Matching.  The reference speaks of the end of a call only; the
   invariant says of every frame of every evaluation how far the reference has been
   followed (Reached): which prerequisites are known to hold, which rules and
   clauses are known to fail or hold.  And an evaluation's events are those that the
   frames of its stack have led to, put together from the bottom (Told).       *)
EXTENDS EvaluationProofs

-----------------------------------------------------------------------------
(* Clauses, rules and segments *)

\* The least of a set of numbers is one of them.
LEMMA MinFacts ==
  ASSUME NEW T, T \subseteq Nat, T # {}
  PROVE  Min(T) \in T /\ \A i \in T : Min(T) <= i
  BY NatMin DEF Min

\* The indexes of a list, and its elements.
LEMMA ListFacts ==
  ASSUME NEW s, IsList(s)
  PROVE  /\ Len(s) \in Nat /\ DOMAIN s = 1..Len(s) /\ DOMAIN s \subseteq Nat
         /\ \A i \in DOMAIN s : s[i] \in Among(s)
  BY DEF IsList, Among

\* A loop ends where it meets something else than v, or with v.
LEMMA FirstOtherFacts ==
  ASSUME NEW v, NEW s, DOMAIN s \subseteq Nat
  PROVE  /\ FirstOther(v, s) = v => \A i \in DOMAIN s : s[i] = v
         /\ FirstOther(v, s) # v => \E i \in DOMAIN s : s[i] = FirstOther(v, s)
<1> DEFINE others == {i \in DOMAIN s : s[i] # v}
<1>1. FirstOther(v, s) = IF others = {} THEN v ELSE s[Min(others)]
  BY DEF FirstOther
<1>2. others # {} => Min(others) \in others
  <2> HIDE DEF others
  <2>1. others \subseteq Nat
    BY DEF others
  <2> QED
    BY <2>1, MinFacts
<1> QED
  BY <1>1, <1>2

\* An operator answers yes or no, and only the version operators throw, at what is no string.
LEMMA FnFacts ==
  ASSUME NEW op, NEW a, NEW b
  PROVE  /\ Fn(op, a, b) \in Verdicts
         /\ Fn(op, a, b) = "throws" => op \in SemVerOps /\ (~IsString(a) \/ ~IsString(b))
<1>1. \A x : Verdict(x) \in {"yes", "no"}
  BY DEF Verdict
<1>2. /\ StringOperator(op, a, b) \in {"yes", "no"}
      /\ NumericOperator(op, a, b) \in {"yes", "no"}
      /\ DateOperator(op, a, b) \in {"yes", "no"}
  BY <1>1 DEF StringOperator, NumericOperator, DateOperator
<1>3. CASE op \in SemVerOps
  <2>1. Fn(op, a, b) = SemVerOperator(op, a, b)
    BY <1>3 DEF Fn, SemVerOps, StringOps, NumericOps, DateOps
  <2> QED
    BY <1>1, <1>3, <2>1 DEF SemVerOperator, Verdicts
<1>4. CASE op \notin SemVerOps
  <2>1. Fn(op, a, b) \in {"yes", "no"}
    BY <1>1, <1>2, <1>4 DEF Fn
  <2> QED
    BY <2>1 DEF Verdicts
<1> QED
  BY <1>3, <1>4

\* What a verdict says of a condition, and where it comes from if it throws.
Tells(verdict, holds, throws) ==
  /\ verdict \in Verdicts
  /\ verdict = "yes" => holds
  /\ verdict = "no" => ~holds
  /\ verdict = "throws" => throws

\* matchAny() says whether some value of the clause matches, unless it throws.
LEMMA MatchAnyFacts ==
  ASSUME NEW op, NEW value, NEW values, IsList(values)
  PROVE  Tells(MatchAny(op, value, values), \E b \in Among(values) : Fn(op, value, b) = "yes",
               op \in SemVerOps /\ \E v \in {value} \cup Among(values) : ~IsString(v))
<1> DEFINE s == [i \in DOMAIN values |-> Fn(op, value, values[i])]
           first == FirstOther("no", s)
<1>1. DOMAIN s = DOMAIN values /\ DOMAIN s \subseteq Nat
  BY ListFacts
<1>2. \A i \in DOMAIN values : s[i] = Fn(op, value, values[i]) /\ s[i] \in Verdicts
  BY FnFacts
<1>3. MatchAny(op, value, values) = first
  BY DEF MatchAny
<1> HIDE DEF s
<1>4. /\ first = "no" => \A i \in DOMAIN s : s[i] = "no"
      /\ first # "no" => \E i \in DOMAIN s : s[i] = first
  BY <1>1, FirstOtherFacts
<1> HIDE DEF first
<1>5. CASE first = "no"
  <2>1. ASSUME NEW b \in Among(values) PROVE Fn(op, value, b) # "yes"
    <3>1. PICK i \in DOMAIN values : b = values[i]
      BY DEF Among
    <3>2. Fn(op, value, b) = "no"
      BY <1>1, <1>2, <1>4, <1>5, <3>1
    <3> QED
      BY <3>2
  <2> QED
    BY <1>3, <1>5, <2>1 DEF Tells, Verdicts
<1>6. CASE first # "no"
  <2>1. PICK i \in DOMAIN values : Fn(op, value, values[i]) = first
    BY <1>1, <1>2, <1>4, <1>6
  <2>2. values[i] \in Among(values) /\ first \in Verdicts
    BY <2>1, ListFacts, FnFacts
  <2>3. first = "throws" => op \in SemVerOps /\ (~IsString(value) \/ ~IsString(values[i]))
    BY <2>1, FnFacts
  <2> QED
    BY <1>3, <1>6, <2>1, <2>2, <2>3 DEF Tells
<1> QED
  BY <1>5, <1>6

\* A user's attribute is a list where it says so.
IsProper(user) ==
  \A attr : LET value == UserValue(user, attr)
            IN  value = Null \/ value[1] # "array" \/ IsList(value[2])

\* matchClauseNoSegments() says whether the clause holds, unless it throws.
LEMMA ClauseTells ==
  ASSUME NEW c, NEW user, IsProper(user), c.negate \in BOOLEAN, IsList(c.values)
  PROVE  Tells(ClauseMatchUserNoSegments(c, user), ClauseHolds(c, user), CanThrow(c, user))
<1> DEFINE value == UserValue(user, c.attribute)
           some == \E a \in Values(user, c.attribute), b \in Among(c.values) : Fn(c.op, a, b) = "yes"
           answer == ClauseMatchUserNoSegments(c, user)
<1>1. CASE value = Null
  <2>1. answer = "no" /\ ~ClauseHolds(c, user)
    BY <1>1 DEF ClauseMatchUserNoSegments, ClauseHolds
  <2> QED
    BY <2>1 DEF Tells, Verdicts
<1>2. ASSUME value # Null, NEW verdict \in Verdicts, answer = MaybeNegate(c, verdict),
             verdict = "yes" => some, verdict = "no" => ~some,
             verdict = "throws" => CanThrow(c, user)
      PROVE  Tells(answer, ClauseHolds(c, user), CanThrow(c, user))
  <2>1. ClauseHolds(c, user) <=> (~c.negate <=> some)
    BY <1>2 DEF ClauseHolds
  <2> HIDE DEF some, answer
  <2>2. CASE verdict = "throws"
    <3>1. answer = "throws"
      BY <1>2, <2>2 DEF MaybeNegate
    <3> QED
      BY <1>2, <2>2, <3>1 DEF Tells, Verdicts
  <2>3. CASE verdict # "throws" /\ c.negate
    <3>1. answer = Verdict(verdict = "no")
      BY <1>2, <2>3 DEF MaybeNegate
    <3>2. answer = IF verdict = "no" THEN "yes" ELSE "no"
      BY <3>1 DEF Verdict
    <3>3. ClauseHolds(c, user) <=> ~some
      BY <2>1, <2>3
    <3> QED
      BY <1>2, <2>3, <3>2, <3>3 DEF Tells, Verdicts
  <2>4. CASE verdict # "throws" /\ ~c.negate
    <3>1. answer = verdict
      BY <1>2, <2>4 DEF MaybeNegate
    <3>2. ClauseHolds(c, user) <=> some
      BY <2>1, <2>4, Zenon
    <3> QED
      BY <1>2, <2>4, <3>1, <3>2 DEF Tells
  <2> QED
    BY <2>2, <2>3, <2>4
<1>3. CASE value # Null /\ value[1] = "array"
  <2> DEFINE s == [i \in DOMAIN value[2] |-> MatchAny(c.op, value[2][i], c.values)]
             first == FirstOther("no", s)
  <2>1. IsList(value[2]) /\ Values(user, c.attribute) = Among(value[2])
    BY <1>3 DEF IsProper, Values
  <2>2. DOMAIN s = DOMAIN value[2] /\ DOMAIN s \subseteq Nat
    BY <2>1, ListFacts
  <2>3. answer = MaybeNegate(c, first)
    BY <1>3 DEF ClauseMatchUserNoSegments
  <2>4. \A i \in DOMAIN value[2] :
          /\ Tells(s[i], \E b \in Among(c.values) : Fn(c.op, value[2][i], b) = "yes",
                   c.op \in SemVerOps /\ \E v \in {value[2][i]} \cup Among(c.values) : ~IsString(v))
          /\ value[2][i] \in Among(value[2])
    BY <2>1, MatchAnyFacts, ListFacts
  <2> HIDE DEF s
  <2>5. /\ first = "no" => \A i \in DOMAIN s : s[i] = "no"
        /\ first # "no" => \E i \in DOMAIN s : s[i] = first
    BY <2>2, FirstOtherFacts
  <2> HIDE DEF first, answer
  <2>6. CASE first = "no"
    <3>1. ~some
      <4> SUFFICES ASSUME NEW a \in Among(value[2]), NEW b \in Among(c.values),
                          Fn(c.op, a, b) = "yes"
                   PROVE  FALSE
        BY <2>1
      <4>1. PICK i \in DOMAIN value[2] : a = value[2][i]
        BY DEF Among
      <4>2. s[i] = "no"
        BY <2>2, <2>5, <2>6, <4>1
      <4> QED
        BY <2>4, <4>1, <4>2 DEF Tells
    <3>2. first \in Verdicts
      BY <2>6 DEF Verdicts
    <3> QED
      BY <1>2, <1>3, <2>3, <2>6, <3>1, <3>2, Zenon DEF answer
  <2>7. CASE first # "no"
    <3>1. PICK i \in DOMAIN value[2] : s[i] = first
      BY <2>2, <2>5, <2>7
    <3>2. first = "yes" => some
      BY <2>1, <2>4, <3>1 DEF Tells
    <3>3. first = "throws" => CanThrow(c, user)
      BY <2>1, <2>4, <3>1 DEF Tells, CanThrow
    <3>4. first \in Verdicts
      BY <2>4, <3>1 DEF Tells
    <3> QED
      BY <1>2, <1>3, <2>3, <2>7, <3>2, <3>3, <3>4, Zenon DEF answer
  <2> QED
    BY <2>6, <2>7
<1>4. CASE value # Null /\ value[1] # "array"
  <2>1. Values(user, c.attribute) = {value}
    BY <1>4 DEF Values
  <2>2. answer = MaybeNegate(c, MatchAny(c.op, value, c.values))
    BY <1>4 DEF ClauseMatchUserNoSegments
  <2> DEFINE any == MatchAny(c.op, value, c.values)
  <2>3. /\ any \in Verdicts
        /\ any = "yes" => \E b \in Among(c.values) : Fn(c.op, value, b) = "yes"
        /\ any = "no" => ~\E b \in Among(c.values) : Fn(c.op, value, b) = "yes"
        /\ any = "throws" =>
             c.op \in SemVerOps /\ \E v \in {value} \cup Among(c.values) : ~IsString(v)
    BY MatchAnyFacts DEF Tells
  <2> HIDE DEF any
  <2>4. any = "throws" => CanThrow(c, user)
    BY <2>1, <2>3 DEF CanThrow
  <2>5. (any = "yes" => some) /\ (any = "no" => ~some)
    BY <2>1, <2>3
  <2> HIDE DEF some, answer
  <2> QED
    BY <1>2, <1>4, <2>2, <2>3, <2>4, <2>5, Zenon DEF any, answer
<1> QED
  BY <1>1, <1>3, <1>4

\* What is known of a clause.
LEMMA ClauseShape ==
  ASSUME NEW c, IsClause(c) PROVE c.negate \in BOOLEAN /\ IsList(c.values)
<1>1. ASSUME c.values \in Seq(SegmentKey) PROVE IsList(c.values)
  <2> DEFINE s == c.values
  <2>1. Len(s) \in Nat /\ DOMAIN s = 1..Len(s) /\ s = [i \in DOMAIN s |-> s[i]]
    BY <1>1
  <2>2. s \in [1..Len(s) -> Among(s)]
    BY <2>1 DEF Among
  <2> QED
    BY <2>1, <2>2, SeqDef DEF IsList
<1> QED
  BY <1>1 DEF IsClause

\* segmentRuleMatchUser() says whether all clauses hold and the user's bucket is below the
\* weight, unless a clause throws.
LEMMA SegmentRuleTells ==
  ASSUME NEW rule, NEW user, NEW key, IsProper(user), IsRule(rule)
  PROVE  Tells(SegmentRuleMatchUser(rule, user, key), SegmentRuleHolds(rule, user, key),
               \E j \in DOMAIN rule.clauses : CanThrow(rule.clauses[j], user))
<1> DEFINE s == [i \in DOMAIN rule.clauses |-> ClauseMatchUserNoSegments(rule.clauses[i], user)]
           first == FirstOther("yes", s)
           answer == SegmentRuleMatchUser(rule, user, key)
           below == BucketUser(user, key, rule.bucketBy) < rule.weight
<1>1. DOMAIN s = DOMAIN rule.clauses /\ DOMAIN s \subseteq Nat
  BY ListFacts DEF IsRule
<1>2. \A i \in DOMAIN rule.clauses :
        Tells(s[i], ClauseHolds(rule.clauses[i], user), CanThrow(rule.clauses[i], user))
  BY ListFacts, ClauseShape, ClauseTells DEF IsRule
<1>3. answer = IF first # "yes" \/ rule.weight = Null THEN first ELSE Verdict(below)
  BY DEF SegmentRuleMatchUser
<1>4. SegmentRuleHolds(rule, user, key) <=>
        /\ \A i \in DOMAIN rule.clauses : ClauseHolds(rule.clauses[i], user)
        /\ rule.weight # Null => below
  BY DEF SegmentRuleHolds, Among
<1> HIDE DEF s
<1>5. /\ first = "yes" => \A i \in DOMAIN s : s[i] = "yes"
      /\ first # "yes" => \E i \in DOMAIN s : s[i] = first
  BY <1>1, FirstOtherFacts
<1> HIDE DEF first, answer, below
<1>6. CASE first = "yes"
  <2>1. \A i \in DOMAIN rule.clauses : ClauseHolds(rule.clauses[i], user)
    BY <1>1, <1>2, <1>5, <1>6 DEF Tells
  <2>2. CASE rule.weight = Null
    BY <1>3, <1>4, <1>6, <2>1, <2>2 DEF Tells, Verdicts, answer
  <2>3. CASE rule.weight # Null
    <3>1. answer = Verdict(below)
      BY <1>3, <1>6, <2>3
    <3> QED
      BY <1>4, <2>1, <2>3, <3>1 DEF Tells, Verdicts, Verdict, answer
  <2> QED
    BY <2>2, <2>3
<1>7. CASE first # "yes"
  <2>1. PICK i \in DOMAIN rule.clauses : s[i] = first
    BY <1>1, <1>5, <1>7
  <2>2. Tells(s[i], ClauseHolds(rule.clauses[i], user), CanThrow(rule.clauses[i], user))
    BY <1>2
  <2>3. answer = first
    BY <1>3, <1>7
  <2> QED
    BY <1>4, <1>7, <2>1, <2>2, <2>3 DEF Tells, answer
<1> QED
  BY <1>6, <1>7

\* segmentMatchUser() says whether the user is in the segment, as the lists included and
\* excluded and the rules define it without an order, unless a rule's clause throws.
THEOREM SegmentTells ==
  ASSUME NEW segment, NEW user, IsProper(user), IsSegment(segment)
  PROVE  Tells(SegmentMatchUser(segment, user), InSegment(segment, user), RulesMayThrow(segment, user))
<1> DEFINE key == user.own["key"]
           s == [i \in DOMAIN segment.rules |->
                   SegmentRuleMatchUser(segment.rules[i], user, segment.key)]
           first == FirstOther("no", s)
           answer == SegmentMatchUser(segment, user)
<1>1. DOMAIN s = DOMAIN segment.rules /\ DOMAIN s \subseteq Nat
  BY ListFacts DEF IsSegment
<1>2. \A i \in DOMAIN segment.rules :
        /\ segment.rules[i].clauses # Null /\ segment.rules[i] \in Among(segment.rules)
        /\ Tells(s[i], SegmentRuleHolds(segment.rules[i], user, segment.key),
                 \E j \in DOMAIN segment.rules[i].clauses :
                   CanThrow(segment.rules[i].clauses[j], user))
  BY ListFacts, SegmentRuleTells DEF IsSegment, IsRule
<1> HIDE DEF s
<1>3. /\ first = "no" => \A i \in DOMAIN s : s[i] = "no"
      /\ first # "no" => \E i \in DOMAIN s : s[i] = first
  BY <1>1, FirstOtherFacts
<1>4. CASE key = Str("") \/ key \in segment.excluded \ segment.included
  <2>1. answer = "no" /\ ~InSegment(segment, user)
    BY <1>4 DEF SegmentMatchUser, InSegment
  <2> QED
    BY <2>1 DEF Tells, Verdicts
<1>5. CASE key \in segment.included \ {Str("")}
  <2>1. answer = "yes" /\ InSegment(segment, user)
    BY <1>5 DEF SegmentMatchUser, InSegment
  <2> QED
    BY <2>1 DEF Tells, Verdicts
<1>6. CASE key # Str("") /\ key \notin segment.excluded \cup segment.included
  <2> DEFINE rules == \E i \in DOMAIN segment.rules :
                        SegmentRuleHolds(segment.rules[i], user, segment.key)
  <2>1. answer = first
    BY <1>6 DEF SegmentMatchUser, s
  <2>2. InSegment(segment, user) <=> rules
    BY <1>6 DEF InSegment, Among
  <2> HIDE DEF first, answer, key
  <2>3. CASE first = "no"
    <3>1. ~rules
      BY <1>1, <1>2, <1>3, <2>3 DEF Tells
    <3> QED
      BY <2>1, <2>2, <2>3, <3>1 DEF Tells, Verdicts, answer
  <2>4. CASE first # "no"
    <3>1. PICK i \in DOMAIN segment.rules : s[i] = first
      BY <1>1, <1>3, <2>4
    <3>2. /\ first \in Verdicts
          /\ first = "yes" => SegmentRuleHolds(segment.rules[i], user, segment.key)
          /\ first = "throws" => \E j \in DOMAIN segment.rules[i].clauses :
                                  CanThrow(segment.rules[i].clauses[j], user)
      BY <1>2, <3>1 DEF Tells
    <3>3. first = "throws" => RulesMayThrow(segment, user)
      BY <1>2, <3>2 DEF RulesMayThrow
    <3>4. first = "yes" => rules
      BY <3>2
    <3> HIDE DEF rules
    <3> QED
      BY <2>1, <2>2, <2>4, <3>2, <3>3, <3>4 DEF Tells, answer
  <2> QED
    BY <2>3, <2>4
<1> QED
  BY <1>4, <1>5, <1>6

-----------------------------------------------------------------------------
(* Sequences put together *)

\* Induction over a set of numbers.
LEMMA NatInduct ==
  ASSUME NEW T, 0 \in T, \A n \in Nat : n \in T => n + 1 \in T
  PROVE  Nat \subseteq T
<1>1. SUFFICES ASSUME Nat \ T # {} PROVE FALSE
  OBVIOUS
<1>2. PICK m \in Nat \ T : \A n \in Nat \ T : m <= n
  BY <1>1, NatMin
<1>3. m - 1 \in Nat /\ m - 1 + 1 = m
  BY <1>2
<1> QED
  BY <1>2, <1>3

\* f[i] holds the first i sequences of s, put together.
Joins(f, s, n) == \A i \in 1..n : f[i] = IF i = 1 THEN s[i] ELSE f[i - 1] \o s[i]

\* The sequences of s can be put together one by one.
LEMMA JoinsExist ==
  ASSUME NEW S, NEW s, NEW n \in Nat, \A i \in 1..n : s[i] \in Seq(S)
  PROVE  \E f \in [1..n -> Seq(S)] : Joins(f, s, n)
<1> DEFINE T == {m \in Nat : m <= n => \E f \in [1..m -> Seq(S)] : Joins(f, s, m)}
<1>1. 0 \in T
  <2>1. [i \in 1..0 |-> <<>>] \in [1..0 -> Seq(S)] /\ Joins([i \in 1..0 |-> <<>>], s, 0)
    BY DEF Joins
  <2> QED
    BY <2>1
<1>2. ASSUME NEW m \in Nat, m \in T PROVE m + 1 \in T
  <2>1. SUFFICES ASSUME m + 1 <= n PROVE \E f \in [1..m + 1 -> Seq(S)] : Joins(f, s, m + 1)
    OBVIOUS
  <2>2. PICK f \in [1..m -> Seq(S)] : Joins(f, s, m)
    BY <1>2, <2>1
  <2> DEFINE last == IF m = 0 THEN s[1] ELSE f[m] \o s[m + 1]
             g == [i \in 1..m + 1 |-> IF i = m + 1 THEN last ELSE f[i]]
  <2>3. last \in Seq(S)
    <3>1. CASE m = 0
      BY <2>1, <3>1
    <3>2. CASE m # 0
      <4>1. f[m] \in Seq(S) /\ s[m + 1] \in Seq(S)
        BY <2>1, <2>2, <3>2
      <4> QED
        BY <3>2, <4>1, ConcatProperties
    <3> QED
      BY <3>1, <3>2
  <2>4. g \in [1..m + 1 -> Seq(S)]
    <3> HIDE DEF last
    <3> QED
      BY <2>2, <2>3
  <2>5. Joins(g, s, m + 1)
    <3> SUFFICES ASSUME NEW i \in 1..m + 1
                 PROVE  g[i] = IF i = 1 THEN s[i] ELSE g[i - 1] \o s[i]
      BY DEF Joins
    <3>1. CASE i = m + 1
      <4>1. g[i] = last
        BY <3>1
      <4>2. CASE m = 0
        BY <3>1, <4>1, <4>2
      <4>3. CASE m # 0
        <5>1. i # 1 /\ i - 1 \in 1..m + 1 /\ i - 1 # m + 1 /\ i - 1 = m
          BY <3>1, <4>3
        <5>2. g[i - 1] = f[m]
          BY <5>1
        <5>3. last = f[m] \o s[m + 1]
          BY <4>3
        <5> HIDE DEF g, last
        <5> QED
          BY <3>1, <4>1, <5>1, <5>2, <5>3
      <4> QED
        BY <4>2, <4>3
    <3>2. CASE i # m + 1
      <4>1. i \in 1..m /\ g[i] = f[i] /\ (i # 1 => i - 1 \in 1..m /\ g[i - 1] = f[i - 1])
        BY <3>2
      <4> HIDE DEF g
      <4> QED
        BY <2>2, <4>1 DEF Joins
    <3> QED
      BY <3>1, <3>2
  <2> QED
    BY <2>4, <2>5
<1> HIDE DEF T
<1>3. Nat \subseteq T
  BY <1>1, <1>2, NatInduct
<1> QED
  BY <1>3 DEF T

\* What the first sequences give together depends on them only.
LEMMA JoinsAgree ==
  ASSUME NEW f, NEW g, NEW s, NEW t, NEW n \in Nat, Joins(f, s, n), Joins(g, t, n),
         \A i \in 1..n : s[i] = t[i]
  PROVE  \A i \in 1..n : f[i] = g[i]
<1> DEFINE T == {m \in Nat : m \in 1..n => f[m] = g[m]}
<1>1. 0 \in T
  OBVIOUS
<1>2. ASSUME NEW m \in Nat, m \in T PROVE m + 1 \in T
  <2>1. SUFFICES ASSUME m + 1 \in 1..n PROVE f[m + 1] = g[m + 1]
    OBVIOUS
  <2>2. CASE m = 0
    BY <2>1, <2>2 DEF Joins
  <2>3. CASE m # 0
    <3>1. m \in 1..n /\ f[m] = g[m] /\ m + 1 # 1 /\ m + 1 - 1 = m
      BY <1>2, <2>1, <2>3
    <3>2. /\ f[m + 1] = IF m + 1 = 1 THEN s[m + 1] ELSE f[m + 1 - 1] \o s[m + 1]
          /\ g[m + 1] = IF m + 1 = 1 THEN t[m + 1] ELSE g[m + 1 - 1] \o t[m + 1]
      BY <2>1 DEF Joins
    <3>3. s[m + 1] = t[m + 1]
      BY <2>1
    <3> QED
      BY <3>1, <3>2, <3>3
  <2> QED
    BY <2>2, <2>3
<1> HIDE DEF T
<1>3. Nat \subseteq T
  BY <1>1, <1>2, NatInduct
<1> QED
  BY <1>3 DEF T

\* FlattenSeq puts the sequences together one by one.
LEMMA FlattenJoins ==
  ASSUME NEW S, NEW s \in Seq(Seq(S)), NEW f, Joins(f, s, Len(s)), Len(s) # 0
  PROVE  FlattenSeq(s) = f[Len(s)] /\ f[Len(s)] \in Seq(S)
<1> DEFINE n == Len(s)
           chosen == CHOOSE g : g = [i \in 1..n |-> IF i = 1 THEN s[i] ELSE g[i - 1] \o s[i]]
<1>1. n \in Nat /\ n # 0 /\ \A i \in 1..n : s[i] \in Seq(S)
  BY ElementOfSeq
<1>2. FlattenSeq(s) = chosen[n]
  BY DEF FlattenSeq
<1> HIDE DEF n
<1>3. PICK h \in [1..n -> Seq(S)] : Joins(h, s, n)
  BY <1>1, JoinsExist
<1>4. h = [i \in 1..n |-> IF i = 1 THEN s[i] ELSE h[i - 1] \o s[i]]
  BY <1>3, Zenon DEF Joins
<1>5. chosen = [i \in 1..n |-> IF i = 1 THEN s[i] ELSE chosen[i - 1] \o s[i]]
  BY <1>4, Zenon
<1> HIDE DEF chosen
<1>6. Joins(chosen, s, n)
  BY <1>5 DEF Joins
<1>7. Joins(f, s, n) /\ n \in 1..n
  BY <1>1 DEF n
<1>8. chosen[n] = f[n] /\ f[n] = h[n]
  BY <1>1, <1>3, <1>6, <1>7, JoinsAgree
<1> QED
  BY <1>2, <1>3, <1>7, <1>8 DEF n

\* No sequences give the empty one.
LEMMA FlattenNothing == FlattenSeq(<<>>) = <<>>
  BY DEF FlattenSeq

\* Sequences over S give one over S.
LEMMA FlattenType ==
  ASSUME NEW S, NEW s \in Seq(Seq(S)) PROVE FlattenSeq(s) \in Seq(S)
<1>1. Len(s) \in Nat /\ \A i \in 1..Len(s) : s[i] \in Seq(S)
  BY ElementOfSeq
<1>2. CASE Len(s) = 0
  <2>1. s = <<>>
    BY <1>2, EmptySeq
  <2>2. <<>> \in Seq(S)
    OBVIOUS
  <2> QED
    BY <2>1, <2>2, FlattenNothing
<1>3. CASE Len(s) # 0
  <2>1. PICK f \in [1..Len(s) -> Seq(S)] : Joins(f, s, Len(s))
    BY <1>1, JoinsExist
  <2> QED
    BY <1>3, <2>1, FlattenJoins
<1> QED
  BY <1>2, <1>3

\* One more sequence is put at the end.
LEMMA JoinsNext ==
  ASSUME NEW f, NEW t, NEW n \in Nat, Joins(f, t, n + 1)
  PROVE  /\ n = 0 => f[n + 1] = t[n + 1]
         /\ n # 0 => f[n + 1] = f[n] \o t[n + 1]
<1>1. f[n + 1] = IF n + 1 = 1 THEN t[n + 1] ELSE f[n + 1 - 1] \o t[n + 1]
  BY DEF Joins
<1>2. n + 1 - 1 = n /\ (n + 1 = 1 <=> n = 0)
  OBVIOUS
<1> QED
  BY <1>1, <1>2

\* FlattenSeq puts one more sequence at the end.
LEMMA FlattenAppend ==
  ASSUME NEW S, NEW s \in Seq(Seq(S)), NEW x \in Seq(S)
  PROVE  FlattenSeq(Append(s, x)) = FlattenSeq(s) \o x
<1> DEFINE n == Len(s)
           t == Append(s, x)
<1>1. n \in Nat /\ \A i \in 1..n : s[i] \in Seq(S)
  BY ElementOfSeq
<1>2. /\ t \in Seq(Seq(S)) /\ Len(t) = n + 1 /\ t[n + 1] = x /\ \A i \in 1..n : t[i] = s[i]
  BY AppendProperties
<1> HIDE DEF t
<1>3. Len(t) \in Nat /\ n + 1 \in 1..Len(t) /\ \A i \in 1..Len(t) : t[i] \in Seq(S)
  BY <1>1, <1>2, ElementOfSeq
<1>4. PICK f \in [1..Len(t) -> Seq(S)] : Joins(f, t, Len(t))
  <2> DEFINE m == Len(t)
  <2>1. m \in Nat /\ \A i \in 1..m : t[i] \in Seq(S)
    BY <1>3
  <2> HIDE DEF m
  <2>2. \E f \in [1..m -> Seq(S)] : Joins(f, t, m)
    BY <2>1, JoinsExist
  <2> QED
    BY <2>2 DEF m
<1>5. FlattenSeq(t) = f[n + 1]
  <2>1. Len(t) # 0
    BY <1>1, <1>2
  <2> QED
    BY <1>2, <1>4, <2>1, FlattenJoins
<1> HIDE DEF n
<1>6. /\ n = 0 => f[n + 1] = t[n + 1]
      /\ n # 0 => f[n + 1] = f[n] \o t[n + 1]
  <2>1. n \in Nat /\ Joins(f, t, n + 1)
    BY <1>1, <1>2, <1>4 DEF n
  <2> QED
    BY <2>1, JoinsNext
<1>7. CASE n = 0
  <2>1. s = <<>> /\ FlattenSeq(s) = <<>>
    BY <1>7, EmptySeq, FlattenNothing DEF n
  <2>2. f[n + 1] = x
    BY <1>2, <1>6, <1>7
  <2>3. <<>> \o x = x
    OBVIOUS
  <2> QED
    BY <1>5, <2>1, <2>2, <2>3 DEF t
<1>8. CASE n # 0
  <2>1. Joins(f, s, n)
    <3> SUFFICES ASSUME NEW i \in 1..n
                 PROVE  f[i] = IF i = 1 THEN s[i] ELSE f[i - 1] \o s[i]
      BY DEF Joins
    <3>1. i \in 1..Len(t) /\ t[i] = s[i]
      BY <1>1, <1>2
    <3> QED
      BY <1>4, <3>1 DEF Joins
  <2>2. FlattenSeq(s) = f[n]
    BY <1>8, <2>1, FlattenJoins DEF n
  <2>3. n + 1 # 1 /\ n + 1 - 1 = n
    BY <1>1, <1>8
  <2> QED
    BY <1>2, <1>5, <1>6, <2>2, <2>3 DEF t
<1> QED
  BY <1>7, <1>8

-----------------------------------------------------------------------------
(* The intervals of a rollout *)

\* f[i] is the weight of the first i parts.
Sums(f, parts, n) == f[0] = 0 /\ \A i \in 1..n : f[i] = f[i - 1] + parts[i].weight

\* The weights can be added up one by one.
LEMMA SumsExist ==
  ASSUME NEW parts, NEW n \in Nat, \A i \in 1..n : parts[i].weight \in Nat
  PROVE  \E f \in [0..n -> Nat] : Sums(f, parts, n)
<1> DEFINE T == {m \in Nat : m <= n => \E f \in [0..m -> Nat] : Sums(f, parts, m)}
<1>1. 0 \in T
  <2>1. [i \in 0..0 |-> 0] \in [0..0 -> Nat] /\ Sums([i \in 0..0 |-> 0], parts, 0)
    BY DEF Sums
  <2> QED
    BY <2>1
<1>2. ASSUME NEW m \in Nat, m \in T PROVE m + 1 \in T
  <2>1. SUFFICES ASSUME m + 1 <= n PROVE \E f \in [0..m + 1 -> Nat] : Sums(f, parts, m + 1)
    OBVIOUS
  <2>2. PICK f \in [0..m -> Nat] : Sums(f, parts, m)
    BY <1>2, <2>1
  <2> DEFINE g == [i \in 0..m + 1 |-> IF i = m + 1 THEN f[m] + parts[m + 1].weight ELSE f[i]]
  <2>3. g \in [0..m + 1 -> Nat]
    <3>1. f[m] \in Nat /\ parts[m + 1].weight \in Nat
      BY <2>1, <2>2
    <3> QED
      BY <2>2, <3>1
  <2>4. g[0] = 0
    BY <2>2 DEF Sums
  <2>5. ASSUME NEW i \in 1..m + 1 PROVE g[i] = g[i - 1] + parts[i].weight
    <3>1. i - 1 \in 0..m + 1 /\ i - 1 # m + 1 /\ g[i - 1] = f[i - 1]
      OBVIOUS
    <3>2. CASE i = m + 1
      <4>1. i - 1 = m /\ g[i] = f[m] + parts[m + 1].weight
        BY <3>2
      <4> HIDE DEF g
      <4> QED
        BY <3>1, <3>2, <4>1
    <3>3. CASE i # m + 1
      <4>1. g[i] = f[i] /\ i \in 1..m
        BY <3>3
      <4> HIDE DEF g
      <4> QED
        BY <2>2, <3>1, <4>1 DEF Sums
    <3> QED
      BY <3>2, <3>3
  <2> HIDE DEF g
  <2>6. Sums(g, parts, m + 1)
    BY <2>4, <2>5 DEF Sums
  <2> QED
    BY <2>3, <2>6
<1> HIDE DEF T
<1>3. Nat \subseteq T
  BY <1>1, <1>2, NatInduct
<1> QED
  BY <1>3 DEF T

\* One more part adds its weight.
LEMMA SumsNext ==
  ASSUME NEW f, NEW parts, NEW n \in Nat, Sums(f, parts, n), NEW j \in Nat, j + 1 <= n
  PROVE  f[j + 1] = f[j] + parts[j + 1].weight
<1>1. f[j + 1] = f[j + 1 - 1] + parts[j + 1].weight
  BY DEF Sums
<1>2. j + 1 - 1 = j
  OBVIOUS
<1> QED
  BY <1>1, <1>2

\* More parts weigh no less.
LEMMA SumsMonotone ==
  ASSUME NEW parts, NEW n \in Nat, \A i \in 1..n : parts[i].weight \in Nat,
         NEW f \in [0..n -> Nat], Sums(f, parts, n)
  PROVE  \A i, j \in 0..n : i <= j => f[i] <= f[j]
<1> SUFFICES ASSUME NEW i \in 0..n PROVE \A j \in 0..n : i <= j => f[i] <= f[j]
  OBVIOUS
<1> DEFINE T == {j \in Nat : j \in i..n => f[i] <= f[j]}
<1>1. 0 \in T
  BY DEF T
<1>2. ASSUME NEW j \in Nat, j \in T PROVE j + 1 \in T
  <2>1. SUFFICES ASSUME j + 1 \in i..n PROVE f[i] <= f[j + 1]
    OBVIOUS
  <2>2. CASE i = j + 1
    <3>1. f[i] \in Nat
      OBVIOUS
    <3> QED
      BY <2>2, <3>1
  <2>3. CASE i # j + 1
    <3>1. j \in i..n /\ j \in 0..n /\ j + 1 \in 1..n /\ j + 1 - 1 = j
      BY <2>1, <2>3
    <3>2. f[j + 1] = f[j + 1 - 1] + parts[j + 1].weight
      BY <3>1 DEF Sums
    <3>3. f[i] <= f[j] /\ f[i] \in Nat /\ f[j] \in Nat /\ parts[j + 1].weight \in Nat
      BY <1>2, <3>1
    <3> QED
      BY <3>1, <3>2, <3>3
  <2> QED
    BY <2>2, <2>3
<1> HIDE DEF T
<1>3. Nat \subseteq T
  BY <1>1, <1>2, NatInduct
<1> QED
  BY <1>3 DEF T

\* The sum over a set of parts, whatever part is taken first.
Body(parts, h, s) == IF s = {} THEN 0 ELSE parts[CHOOSE x \in s : TRUE].weight + h[s \ {CHOOSE x \in s : TRUE}]

IsSetSum(parts, S, h) == h = [s \in SUBSET S |-> Body(parts, h, s)]

\* A finite set without one of its elements.
LEMMA SmallerSet ==
  ASSUME NEW s, IsFiniteSet(s), NEW x \in s
  PROVE  IsFiniteSet(s \ {x}) /\ Cardinality(s \ {x}) = Cardinality(s) - 1 /\ Cardinality(s) \in Nat
  BY FS_RemoveElement, FS_CardinalityType

\* The weights of a finite set of parts have a sum.
LEMMA SetSumExists ==
  ASSUME NEW parts, NEW S, IsFiniteSet(S), \A x \in S : parts[x].weight \in Nat
  PROVE  \E h : IsSetSum(parts, S, h)
<1>1. \A s \in SUBSET S : IsFiniteSet(s) /\ Cardinality(s) \in Nat
  BY FS_Subset, FS_CardinalityType
<1> DEFINE T == {m \in Nat : \E h \in [SUBSET S -> Nat] :
                   \A s \in SUBSET S : Cardinality(s) <= m => h[s] = Body(parts, h, s)}
<1>2. 0 \in T
  <2> DEFINE h == [s \in SUBSET S |-> 0]
  <2>1. ASSUME NEW s \in SUBSET S, Cardinality(s) <= 0 PROVE h[s] = Body(parts, h, s)
    <3>1. s = {}
      BY <1>1, <2>1, FS_EmptySet
    <3> QED
      BY <3>1 DEF Body
  <2> QED
    BY <2>1
<1>3. ASSUME NEW m \in Nat, m \in T PROVE m + 1 \in T
  <2>1. PICK h \in [SUBSET S -> Nat] :
          \A s \in SUBSET S : Cardinality(s) <= m => h[s] = Body(parts, h, s)
    BY <1>3
  <2> DEFINE g == [s \in SUBSET S |-> IF Cardinality(s) = m + 1 THEN Body(parts, h, s) ELSE h[s]]
  <2>2. \A s \in SUBSET S : g[s] = IF Cardinality(s) = m + 1 THEN Body(parts, h, s) ELSE h[s]
    OBVIOUS
  <2>3. \A s \in SUBSET S : Body(parts, h, s) \in Nat
    <3> SUFFICES ASSUME NEW s \in SUBSET S, s # {} PROVE Body(parts, h, s) \in Nat
      BY DEF Body
    <3> DEFINE x == CHOOSE x \in s : TRUE
    <3>1. x \in s
      OBVIOUS
    <3> HIDE DEF x
    <3>2. parts[x].weight \in Nat /\ h[s \ {x}] \in Nat
      BY <3>1
    <3> QED
      BY <3>2 DEF Body, x
  <2>4. g \in [SUBSET S -> Nat]
    BY <2>3
  <2> HIDE DEF g
  <2>5. ASSUME NEW s \in SUBSET S, Cardinality(s) <= m + 1 PROVE g[s] = Body(parts, g, s)
    <3>1. g[s] = Body(parts, h, s)
      <4>1. CASE Cardinality(s) = m + 1
        BY <2>2, <4>1
      <4>2. CASE Cardinality(s) # m + 1
        <5>1. Cardinality(s) <= m
          BY <1>1, <2>5, <4>2
        <5> QED
          BY <2>1, <2>2, <4>2, <5>1
      <4> QED
        BY <4>1, <4>2
    <3>2. ASSUME s # {} PROVE g[s \ {CHOOSE x \in s : TRUE}] = h[s \ {CHOOSE x \in s : TRUE}]
      <4> DEFINE x == CHOOSE x \in s : TRUE
      <4>1. x \in s
        BY <3>2
      <4> HIDE DEF x
      <4>2. Cardinality(s \ {x}) = Cardinality(s) - 1
        BY <1>1, <4>1, SmallerSet
      <4>3. Cardinality(s \ {x}) # m + 1
        BY <1>1, <2>5, <4>2
      <4>4. g[s \ {x}] = h[s \ {x}]
        BY <2>2, <4>3
      <4> QED
        BY <4>4 DEF x
    <3> QED
      BY <3>1, <3>2 DEF Body
  <2> QED
    BY <2>4, <2>5
<1> HIDE DEF T
<1>4. Nat \subseteq T
  BY <1>2, <1>3, NatInduct
<1>5. Cardinality(S) \in T
  BY <1>1, <1>4
<1>6. PICK h \in [SUBSET S -> Nat] :
        \A s \in SUBSET S : Cardinality(s) <= Cardinality(S) => h[s] = Body(parts, h, s)
  BY <1>5 DEF T
<1>7. \A s \in SUBSET S : Cardinality(s) <= Cardinality(S)
  BY FS_Subset
<1>8. \A s \in SUBSET S : h[s] = Body(parts, h, s)
  BY <1>6, <1>7
<1>9. h = [s \in SUBSET S |-> Body(parts, h, s)]
  BY <1>8
<1> QED
  BY <1>9 DEF IsSetSum

\* That sum is a number.
LEMMA SetSumType ==
  ASSUME NEW parts, NEW S, IsFiniteSet(S), \A x \in S : parts[x].weight \in Nat,
         NEW h, IsSetSum(parts, S, h)
  PROVE  h \in [SUBSET S -> Nat]
<1>1. \A s \in SUBSET S : IsFiniteSet(s) /\ Cardinality(s) \in Nat
  BY FS_Subset, FS_CardinalityType
<1>2. h = [s \in SUBSET S |-> Body(parts, h, s)] /\ \A s \in SUBSET S : h[s] = Body(parts, h, s)
  BY DEF IsSetSum
<1> DEFINE T == {m \in Nat : \A s \in SUBSET S : Cardinality(s) <= m => h[s] \in Nat}
<1>3. 0 \in T
  <2>1. ASSUME NEW s \in SUBSET S, Cardinality(s) <= 0 PROVE h[s] \in Nat
    <3>1. s = {}
      BY <1>1, <2>1, FS_EmptySet
    <3> QED
      BY <1>2, <3>1 DEF Body
  <2> QED
    BY <2>1
<1>4. ASSUME NEW m \in Nat, m \in T PROVE m + 1 \in T
  <2> SUFFICES \A s \in SUBSET S : Cardinality(s) <= m + 1 => h[s] \in Nat
    <3>1. m + 1 \in Nat
      OBVIOUS
    <3> QED
      BY <3>1, Zenon
  <2> HIDE DEF T
  <2>1. SUFFICES ASSUME NEW s \in SUBSET S, Cardinality(s) <= m + 1 PROVE h[s] \in Nat
    OBVIOUS
  <2>2. CASE s = {}
    BY <1>2, <2>2 DEF Body
  <2>3. CASE s # {}
    <3> DEFINE x == CHOOSE x \in s : TRUE
    <3>1. x \in s
      BY <2>3
    <3>2. h[s] = parts[x].weight + h[s \ {x}]
      BY <1>2, <2>3 DEF Body
    <3> HIDE DEF x
    <3>3. Cardinality(s \ {x}) <= m /\ s \ {x} \in SUBSET S
      BY <1>1, <2>1, <3>1, SmallerSet
    <3>4. h[s \ {x}] \in Nat
      BY <1>4, <3>3 DEF T
    <3> QED
      BY <3>1, <3>2, <3>4
  <2> QED
    BY <2>2, <2>3
<1> HIDE DEF T
<1>5. Nat \subseteq T
  BY <1>3, <1>4, NatInduct
<1>6. ASSUME NEW s \in SUBSET S PROVE h[s] \in Nat
  <2>1. Cardinality(s) \in T /\ Cardinality(s) <= Cardinality(s)
    BY <1>1, <1>5
  <2> QED
    BY <2>1 DEF T
<1> QED
  BY <1>2, <1>6

\* The sum is the same whichever part is taken first.
LEMMA SetSumStep ==
  ASSUME NEW parts, NEW S, IsFiniteSet(S), \A x \in S : parts[x].weight \in Nat,
         NEW h, IsSetSum(parts, S, h)
  PROVE  h[{}] = 0 /\ \A s \in SUBSET S : \A x \in s : h[s] = parts[x].weight + h[s \ {x}]
<1>1. \A s \in SUBSET S : IsFiniteSet(s) /\ Cardinality(s) \in Nat
  BY FS_Subset, FS_CardinalityType
<1>2. \A s \in SUBSET S : h[s] = Body(parts, h, s) /\ h[s] \in Nat
  <2>1. h \in [SUBSET S -> Nat]
    BY SetSumType
  <2>2. \A s \in SUBSET S : h[s] = Body(parts, h, s)
    BY DEF IsSetSum
  <2> QED
    BY <2>1, <2>2
<1> DEFINE T == {m \in Nat : \A s \in SUBSET S : Cardinality(s) <= m =>
                               \A x \in s : h[s] = parts[x].weight + h[s \ {x}]}
<1>3. 0 \in T
  <2>1. ASSUME NEW s \in SUBSET S, Cardinality(s) <= 0 PROVE s = {}
    BY <1>1, <2>1, FS_EmptySet
  <2> QED
    BY <2>1
<1>4. ASSUME NEW m \in Nat, m \in T PROVE m + 1 \in T
  <2> SUFFICES \A s \in SUBSET S : Cardinality(s) <= m + 1 =>
                  \A x \in s : h[s] = parts[x].weight + h[s \ {x}]
    <3>1. m + 1 \in Nat
      OBVIOUS
    <3> QED
      BY <3>1, Zenon
  <2> HIDE DEF T
  <2>1. SUFFICES ASSUME NEW s \in SUBSET S, Cardinality(s) <= m + 1, NEW x \in s
                 PROVE  h[s] = parts[x].weight + h[s \ {x}]
    OBVIOUS
  <2> DEFINE y == CHOOSE y \in s : TRUE
  <2>2. y \in s
    OBVIOUS
  <2>3. h[s] = parts[y].weight + h[s \ {y}]
    BY <1>2 DEF Body
  <2> HIDE DEF y
  <2>4. CASE x = y
    BY <2>3, <2>4
  <2>5. CASE x # y
    <3>1. Cardinality(s \ {x}) <= m /\ Cardinality(s \ {y}) <= m
      BY <1>1, <2>1, <2>2, SmallerSet
    <3>2. /\ h[s \ {y}] = parts[x].weight + h[(s \ {y}) \ {x}]
          /\ h[s \ {x}] = parts[y].weight + h[(s \ {x}) \ {y}]
      <4>1. x \in s \ {y} /\ y \in s \ {x} /\ s \ {x} \in SUBSET S /\ s \ {y} \in SUBSET S
        BY <2>2, <2>5
      <4> QED
        BY <1>4, <3>1, <4>1 DEF T
    <3>3. (s \ {y}) \ {x} = (s \ {x}) \ {y}
      OBVIOUS
    <3>4. parts[x].weight \in Nat /\ parts[y].weight \in Nat /\ h[(s \ {x}) \ {y}] \in Nat
      BY <1>2, <2>2
    <3>5. h[s] = parts[y].weight + (parts[x].weight + h[(s \ {x}) \ {y}])
      BY <2>3, <3>2, <3>3
    <3>6. parts[x].weight + h[s \ {x}] = parts[x].weight + (parts[y].weight + h[(s \ {x}) \ {y}])
      BY <3>2
    <3>7. \A a, b, c \in Nat : a + (b + c) = b + (a + c)
      OBVIOUS
    <3> QED
      BY <3>4, <3>5, <3>6, <3>7
  <2> QED
    BY <2>4, <2>5
<1> HIDE DEF T
<1>5. Nat \subseteq T
  BY <1>3, <1>4, NatInduct
<1>6. ASSUME NEW s \in SUBSET S, NEW x \in s PROVE h[s] = parts[x].weight + h[s \ {x}]
  <2>1. Cardinality(s) \in T
    BY <1>1, <1>5
  <2>2. Cardinality(s) <= Cardinality(s)
    BY <1>1
  <2> QED
    BY <2>1, <2>2 DEF T
<1>7. h[{}] = 0
  BY <1>2 DEF Body
<1> QED
  BY <1>6, <1>7

\* The share of the first parts is the sum of their weights.
LEMMA ShareFacts ==
  ASSUME NEW parts, NEW n \in Nat, \A i \in 1..n : parts[i].weight \in Nat,
         NEW f \in [0..n -> Nat], Sums(f, parts, n), NEW i \in 0..n
  PROVE  Share(parts, i) = f[i]
<1> DEFINE S == 1..i
           chosen == CHOOSE h : IsSetSum(parts, S, h)
<1>1. Share(parts, i) = chosen[S]
  BY DEF Share, MapThenSumSet, MapThenFoldSet, Body, IsSetSum
<1>2. IsFiniteSet(S) /\ \A x \in S : parts[x].weight \in Nat
  <2>1. IsFiniteSet(1..i)
    BY FS_Interval
  <2> QED
    BY <2>1
<1>3. \E h : IsSetSum(parts, S, h)
  <2> HIDE DEF S
  <2> QED
    BY <1>2, SetSumExists
<1>4. IsSetSum(parts, S, chosen)
  BY <1>3
<1> HIDE DEF chosen
<1>6. chosen[{}] = 0 /\ \A s \in SUBSET S : \A x \in s : chosen[s] = parts[x].weight + chosen[s \ {x}]
  <2> HIDE DEF S
  <2> QED
    BY <1>2, <1>4, SetSumStep
<1> DEFINE T == {j \in Nat : j \in 0..i => chosen[1..j] = f[j]}
<1>7. 0 \in T
  <2>1. 1..0 = {}
    OBVIOUS
  <2> QED
    BY <1>6, <2>1 DEF Sums
<1>8. ASSUME NEW j \in Nat, j \in T PROVE j + 1 \in T
  <2>1. SUFFICES ASSUME j + 1 \in 0..i PROVE chosen[1..j + 1] = f[j + 1]
    OBVIOUS
  <2>2. (1..j + 1) \in SUBSET S /\ j + 1 \in 1..j + 1 /\ (1..j + 1) \ {j + 1} = 1..j
    BY <2>1
  <2>3. chosen[1..j + 1] = parts[j + 1].weight + chosen[(1..j + 1) \ {j + 1}]
    BY <1>6, <2>2
  <2>4. f[j + 1] = f[j + 1 - 1] + parts[j + 1].weight
    BY <2>1 DEF Sums
  <2>5. j + 1 - 1 = j /\ f[j] \in Nat /\ parts[j + 1].weight \in Nat /\ chosen[1..j] = f[j]
    BY <1>8, <2>1
  <2>6. \A a, c \in Nat : a + c = c + a
    OBVIOUS
  <2>7. chosen[1..j + 1] = parts[j + 1].weight + f[j]
    BY <2>2, <2>3, <2>5, Zenon
  <2>8. f[j + 1] = f[j] + parts[j + 1].weight
    BY <2>4, <2>5, Zenon
  <2>9. parts[j + 1].weight + f[j] = f[j] + parts[j + 1].weight
    BY <2>5, <2>6, Zenon
  <2> QED
    BY <2>7, <2>8, <2>9, Zenon
<1> HIDE DEF T
<1>9. Nat \subseteq T
  BY <1>7, <1>8, NatInduct
<1>10. chosen[1..i] = f[i]
  BY <1>9 DEF T
<1> QED
  BY <1>1, <1>10

\* The sums that the loop of variationForUser() builds.
LEMMA SumEquation ==
  ASSUME NEW parts, NEW n \in Nat, \A i \in 1..n : parts[i].weight \in Nat,
         NEW f, f = CHOOSE g : g = [i \in 0..n |-> IF i = 0 THEN 0 ELSE g[i - 1] + parts[i].weight]
  PROVE  f \in [0..n -> Nat] /\ Sums(f, parts, n)
<1>1. PICK h \in [0..n -> Nat] : Sums(h, parts, n)
  BY SumsExist
<1>2. h = [i \in 0..n |-> IF i = 0 THEN 0 ELSE h[i - 1] + parts[i].weight]
  BY <1>1 DEF Sums
<1>3. f = [i \in 0..n |-> IF i = 0 THEN 0 ELSE f[i - 1] + parts[i].weight]
  BY <1>2
<1>4. Sums(f, parts, n)
  <2>1. \A i \in 0..n : f[i] = IF i = 0 THEN 0 ELSE f[i - 1] + parts[i].weight
    BY <1>3
  <2>2. ASSUME NEW i \in 1..n PROVE f[i] = f[i - 1] + parts[i].weight
    <3>1. i \in 0..n /\ i # 0
      OBVIOUS
    <3> QED
      BY <2>1, <3>1
  <2> QED
    BY <2>1, <2>2, SMTT(30) DEF Sums
<1> DEFINE T == {j \in Nat : j \in 0..n => f[j] = h[j]}
<1>5. 0 \in T
  BY <1>1, <1>4 DEF Sums
<1>6. ASSUME NEW j \in Nat, j \in T PROVE j + 1 \in T
  <2> SUFFICES j + 1 \in 0..n => f[j + 1] = h[j + 1]
    OBVIOUS
  <2>1. SUFFICES ASSUME j + 1 \in 0..n PROVE f[j + 1] = h[j + 1]
    OBVIOUS
  <2>2. j + 1 <= n /\ f[j] = h[j]
    BY <1>6, <2>1
  <2>3. f[j + 1] = f[j] + parts[j + 1].weight
    BY <1>4, <2>2, SumsNext
  <2>4. h[j + 1] = h[j] + parts[j + 1].weight
    BY <1>1, <2>2, SumsNext, ZenonT(30)
  <2> QED
    BY <2>2, <2>3, <2>4
<1> HIDE DEF T
<1>7. Nat \subseteq T
  BY <1>5, <1>6, NatInduct
<1>8. \A j \in 0..n : f[j] = h[j]
  BY <1>7 DEF T
<1>9. f \in [0..n -> Nat]
  BY <1>3, <1>8
<1> QED
  BY <1>4, <1>9

Beyond(f, n, bucket) == {i \in 1..n : bucket < f[i]}

\* The part whose end is the first beyond the bucket is the one part whose interval
\* holds it.
LEMMA RolloutByInterval ==
  ASSUME NEW parts, NEW n \in Nat, n # 0, Len(parts) = n, DOMAIN parts = 1..n,
         \A i \in 1..n : parts[i].weight \in Nat,
         NEW f \in [0..n -> Nat], Sums(f, parts, n), NEW bucket \in Nat,
         NEW hits, hits = Beyond(f, n, bucket)
  PROVE  RolloutPart(parts, bucket) = IF hits = {} THEN n ELSE Min(hits)
<1> DEFINE part == IF hits = {} THEN n ELSE Min(hits)
           Holds(i) == f[i - 1] <= bucket /\ (bucket < f[i] \/ i = n)
<1> USE DEF Beyond
<1>0. \A i \in 0..n : Share(parts, i) = f[i]
  BY ShareFacts
<1>1. \A i \in 1..n : Share(parts, i - 1) = f[i - 1] /\ Share(parts, i) = f[i]
  <2> SUFFICES ASSUME NEW i \in 1..n PROVE Share(parts, i - 1) = f[i - 1] /\ Share(parts, i) = f[i]
    OBVIOUS
  <2>1. i - 1 \in 0..n /\ i \in 0..n
    OBVIOUS
  <2> QED
    BY <1>0, <2>1
<1>2. RolloutPart(parts, bucket) = CHOOSE i \in 1..n : Holds(i)
  <2>1. \A i \in 1..n : Holds(i) <=>
          Share(parts, i - 1) <= bucket /\ (bucket < Share(parts, i) \/ i = Len(parts))
    BY <1>1
  <2> HIDE DEF Holds
  <2> QED
    BY <2>1 DEF RolloutPart
<1>3. \A i, j \in 0..n : i <= j => f[i] <= f[j]
  BY SumsMonotone
<1>4. part \in 1..n /\ (hits # {} => part \in hits /\ \A i \in hits : part <= i)
  <2>1. CASE hits = {}
    BY <2>1
  <2>2. CASE hits # {}
    <3>1. hits \subseteq 1..n /\ hits \subseteq Nat
      OBVIOUS
    <3>2. Min(hits) \in hits /\ \A i \in hits : Min(hits) <= i
      BY <2>2, <3>1, MinFacts
    <3> QED
      BY <2>2, <3>1, <3>2
  <2> QED
    BY <2>1, <2>2
<1>5. hits = {} => part = n
  OBVIOUS
<1> HIDE DEF part
<1>6. f[0] = 0 /\ \A i \in 0..n : f[i] \in Nat
  BY DEF Sums
<1>7. Holds(part)
  <2>1. part - 1 \in 0..n /\ (part - 1 = 0 \/ part - 1 \in 1..n)
    BY <1>4
  <2>2. f[part - 1] <= bucket
    BY <1>4, <1>5, <1>6, <2>1
  <2>3. bucket < f[part] \/ part = n
    BY <1>4, <1>5
  <2> QED
    BY <2>2, <2>3
<1>8. ASSUME NEW i \in 1..n, Holds(i) PROVE i = part
  <2>1. CASE i < part
    <3>1. i \notin hits /\ i # n
      BY <1>4, <1>5, <2>1
    <3> QED
      BY <1>8, <3>1
  <2>2. CASE part < i
    <3>1. part \in hits /\ i - 1 \in 0..n /\ part <= i - 1 /\ part \in 0..n
      BY <1>4, <1>5, <2>2
    <3>2. bucket < f[part] /\ f[part] <= f[i - 1]
      BY <1>3, <3>1
    <3> QED
      BY <1>6, <1>8, <3>1, <3>2
  <2> QED
    BY <1>4, <2>1, <2>2
<1> HIDE DEF Holds
<1>9. (CHOOSE i \in 1..n : Holds(i)) = part
  BY <1>4, <1>7, <1>8
<1> QED
  BY <1>2, <1>9 DEF part

\* variationForUser() serves the part of the rollout whose interval the user's bucket lies in,
\* and the last part if the weights do not reach it.
THEOREM RolloutMatches ==
  ASSUME NEW rollout, NEW user \in Evaluated, NEW key, IsRollout(rollout, key),
         rollout.variations # <<>>
  PROVE  RolloutVariation(rollout, user, key) =
           rollout.variations[RolloutPart(rollout.variations,
                                          BucketUser(user, key, rollout.bucketBy))].variation
<1> DEFINE parts == rollout.variations
           n == Len(parts)
           bucket == BucketUser(user, key, rollout.bucketBy)
           sum == CHOOSE g : g = [i \in 0..Len(parts) |-> IF i = 0 THEN 0 ELSE g[i - 1] + parts[i].weight]
           hits == {i \in DOMAIN parts : bucket < sum[i]}
<1>1. RolloutVariation(rollout, user, key) = parts[IF hits = {} THEN Len(parts) ELSE Min(hits)].variation
  BY DEF RolloutVariation
<1>2. /\ n \in Nat /\ n # 0 /\ DOMAIN parts = 1..n /\ bucket \in Nat
      /\ \A i \in 1..n : parts[i].weight \in Nat
  <2>1. IsList(parts) /\ (\A p \in Among(parts) : p.weight \in Nat) /\ bucket \in Nat
    BY DEF IsRollout
  <2> HIDE DEF parts
  <2>2. n \in Nat /\ n # 0 /\ DOMAIN parts = 1..n
    BY <2>1, EmptySeq DEF IsList, parts
  <2> QED
    BY <2>1, <2>2 DEF Among
<1> HIDE DEF parts, bucket
<1>3. sum \in [0..n -> Nat] /\ Sums(sum, parts, n)
  BY <1>2, SumEquation
<1> HIDE DEF sum, n
<1>4. hits = Beyond(sum, n, bucket) /\ Len(parts) = n
  BY <1>2 DEF n, Beyond
<1> HIDE DEF hits
<1>5. RolloutPart(parts, bucket) = IF hits = {} THEN n ELSE Min(hits)
  BY <1>2, <1>3, <1>4, RolloutByInterval
<1> QED
  BY <1>1, <1>4, <1>5 DEF parts, bucket

-----------------------------------------------------------------------------
(* Results *)

\* What is known of a flag's lists.
LEMMA FlagShape ==
  ASSUME NEW f \in Catalog
  PROVE  /\ IsList(f.targets)
         /\ \A i, j \in DOMAIN f.rules : f.rules[i].id = f.rules[j].id => i = j
         /\ \A i \in DOMAIN f.rules : f.rules[i].clauses = Null \/ IsRule(f.rules[i])
         /\ \A i \in DOMAIN f.rules : f.rules[i].rollout # Null => IsRollout(f.rules[i].rollout, f.key)
         /\ f.fallthrough # Null /\ f.fallthrough.rollout # Null => IsRollout(f.fallthrough.rollout, f.key)
<1>1. /\ IsList(f.targets)
      /\ \A i, j \in DOMAIN f.rules : f.rules[i].id = f.rules[j].id => i = j
      /\ \A r \in Among(f.rules) : r.clauses = Null \/ IsRule(r)
      /\ \A r \in Among(f.rules) \cup ({f.fallthrough} \ {Null}) :
                r.rollout # Null => IsRollout(r.rollout, f.key)
  BY ShapeAssumption
<1>2. \A i \in DOMAIN f.rules : f.rules[i] \in Among(f.rules)
  BY DEF Among
<1> QED
  BY <1>1, <1>2

\* getVariation() serves the variation, or reports a malformed flag.
LEMMA ServedFacts ==
  ASSUME NEW f \in Catalog, NEW index, NEW reason
  PROVE  GetVariation(f, index, reason) = Served(f, index, reason)
<1>1. Null \notin 0..(f.variations - 1)
  BY NullFacts, FlagFacts
<1> QED
  BY <1>1 DEF GetVariation, Served

\* The code's choice of a variation is the reference's.
LEMMA ServedByFacts ==
  ASSUME NEW f \in Catalog, NEW r, NEW user \in Evaluated, NEW reason,
         r # Null /\ r.rollout # Null => IsRollout(r.rollout, f.key)
  PROVE  GetResultForVariationOrRollout(r, user, f, reason) = ServedBy(f, r, user, reason)
<1>1. CASE r = Null
  BY <1>1 DEF GetResultForVariationOrRollout, ServedBy
<1>2. CASE r # Null /\ r.variation # Null
  BY <1>2, ServedFacts DEF GetResultForVariationOrRollout, ServedBy, VariationForUser
<1>3. CASE r # Null /\ r.variation = Null /\ (r.rollout = Null \/ r.rollout.variations = <<>>)
  <2>1. GetResultForVariationOrRollout(r, user, f, reason) = GetVariation(f, Null, reason)
    BY <1>3 DEF GetResultForVariationOrRollout, VariationForUser
  <2>2. GetVariation(f, Null, reason) = ErrorResult("MALFORMED_FLAG")
    BY ServedFacts DEF Served
  <2>3. ServedBy(f, r, user, reason) = ErrorResult("MALFORMED_FLAG")
    BY <1>3 DEF ServedBy
  <2> QED
    BY <2>1, <2>2, <2>3
<1>4. CASE r # Null /\ r.variation = Null /\ r.rollout # Null /\ r.rollout.variations # <<>>
  <2> DEFINE parts == r.rollout.variations
             bucket == BucketUser(user, f.key, r.rollout.bucketBy)
             index == parts[RolloutPart(parts, bucket)].variation
  <2>1. RolloutVariation(r.rollout, user, f.key) = index
    BY <1>4, RolloutMatches
  <2>2. GetResultForVariationOrRollout(r, user, f, reason) = GetVariation(f, index, reason)
    BY <1>4, <2>1 DEF GetResultForVariationOrRollout, VariationForUser
  <2>3. ServedBy(f, r, user, reason) = Served(f, index, reason)
    BY <1>4 DEF ServedBy
  <2> HIDE DEF index
  <2> QED
    BY <2>2, <2>3, ServedFacts
<1> QED
  BY <1>1, <1>2, <1>3, <1>4

\* A rule's reason names the rule.
LEMMA RuleReasonNames ==
  ASSUME NEW f \in Catalog, NEW i \in DOMAIN f.rules
  PROVE  RuleReason(f, f.rules[i]) = <<"RULE_MATCH", i>>
<1> DEFINE I == {j \in 1..Len(f.rules) : f.rules[j].id = f.rules[i].id}
           index == SelectInSeq(f.rules, LAMBDA r : r.id = f.rules[i].id)
<1>1. index = IF I # {} THEN Min(I) ELSE 0
  BY DEF SelectInSeq
<1>2. DOMAIN f.rules = 1..Len(f.rules) /\ Len(f.rules) \in Nat
  BY FlagFacts
<1>3. I = {i}
  BY <1>2, FlagShape
<1>4. Min(I) = i
  <2>1. I \subseteq Nat /\ I # {}
    BY <1>2, <1>3
  <2> HIDE DEF I
  <2>2. Min(I) \in I
    BY <2>1, MinFacts
  <2> QED
    BY <1>3, <2>2
<1> HIDE DEF I
<1> QED
  BY <1>1, <1>3, <1>4 DEF RuleReason

Targets(f, user) == {i \in DOMAIN f.targets : user.own["key"] \in f.targets[i].values}

\* evaluateTarget() finds the first target that names the user.
LEMMA TargetFacts ==
  ASSUME NEW f \in Catalog, NEW user
  PROVE  /\ Targets(f, user) = {} => TargetOf(f, user) = 0
         /\ Targets(f, user) # {} => TargetOf(f, user) = Min(Targets(f, user)) /\ TargetOf(f, user) # 0
<1> DEFINE I == {i \in 1..Len(f.targets) : user.own["key"] \in f.targets[i].values}
<1>1. TargetOf(f, user) = IF I # {} THEN Min(I) ELSE 0
  BY DEF TargetOf, SelectInSeq
<1>2. DOMAIN f.targets = 1..Len(f.targets) /\ Len(f.targets) \in Nat
  BY FlagShape, ListFacts
<1>3. I = Targets(f, user) /\ I \subseteq Nat \ {0}
  BY <1>2 DEF Targets
<1> HIDE DEF I
<1>4. I # {} => Min(I) \in I
  BY <1>3, MinFacts
<1> QED
  BY <1>1, <1>3, <1>4

Rules(f, user) == {i \in DOMAIN f.rules : RuleHolds(f.rules[i], user)}
\* The reference serves the first target, else the first rule that holds, else the fallthrough.
LEMMA MatchedCases ==
  ASSUME NEW f, NEW user
  PROVE  /\ Targets(f, user) # {} =>
              Matched(f, user) = Served(f, f.targets[Min(Targets(f, user))].variation, <<"TARGET_MATCH">>)
         /\ Targets(f, user) = {} /\ Rules(f, user) # {} =>
              Matched(f, user) = ServedBy(f, f.rules[Min(Rules(f, user))], user,
                                          <<"RULE_MATCH", Min(Rules(f, user))>>)
         /\ Targets(f, user) = {} /\ Rules(f, user) = {} =>
              Matched(f, user) = ServedBy(f, f.fallthrough, user, <<"FALLTHROUGH">>)
  BY DEF Matched, Targets, Rules

\* The code's results, once all prerequisites hold.
LEMMA TargetMatched ==
  ASSUME NEW f \in Catalog, NEW user, TargetOf(f, user) # 0
  PROVE  GetVariation(f, f.targets[TargetOf(f, user)].variation, <<"TARGET_MATCH">>) = Matched(f, user)
<1>1. Targets(f, user) # {} /\ TargetOf(f, user) = Min(Targets(f, user))
  BY TargetFacts
<1> QED
  BY <1>1, MatchedCases, ServedFacts

\* The first rule that holds decides.
LEMMA RuleMatched ==
  ASSUME NEW f \in Catalog, NEW user \in Evaluated, Targets(f, user) = {}, NEW i \in DOMAIN f.rules,
         RuleHolds(f.rules[i], user), \A j \in 1..i - 1 : ~RuleHolds(f.rules[j], user)
  PROVE  GetResultForVariationOrRollout(f.rules[i], user, f, RuleReason(f, f.rules[i])) = Matched(f, user)
<1> DEFINE R == Rules(f, user)
<1>1. i \in R /\ R \subseteq Nat /\ DOMAIN f.rules = 1..Len(f.rules) /\ Len(f.rules) \in Nat
  BY FlagFacts DEF Rules
<1>2. \A j \in R : ~(j \in 1..i - 1)
  BY DEF Rules
<1>3. Min(R) = i
  <2> HIDE DEF R
  <2>1. Min(R) \in R /\ Min(R) <= i
    BY <1>1, MinFacts
  <2>2. Min(R) \in 1..Len(f.rules)
    BY <1>1, <2>1 DEF R, Rules
  <2> QED
    BY <1>1, <1>2, <2>1, <2>2
<1>4. Matched(f, user) = ServedBy(f, f.rules[i], user, <<"RULE_MATCH", i>>)
  BY <1>1, <1>3, MatchedCases
<1>5. RuleReason(f, f.rules[i]) = <<"RULE_MATCH", i>>
  BY RuleReasonNames
<1>6. f.rules[i].rollout # Null => IsRollout(f.rules[i].rollout, f.key)
  BY FlagShape
<1> QED
  BY <1>4, <1>5, <1>6, ServedByFacts

\* The fallthrough decides when no rule holds.
LEMMA FallthroughMatched ==
  ASSUME NEW f \in Catalog, NEW user \in Evaluated, Targets(f, user) = {}, Rules(f, user) = {}
  PROVE  GetResultForVariationOrRollout(f.fallthrough, user, f, <<"FALLTHROUGH">>) = Matched(f, user)
<1>1. Matched(f, user) = ServedBy(f, f.fallthrough, user, <<"FALLTHROUGH">>)
  BY MatchedCases
<1>2. f.fallthrough # Null /\ f.fallthrough.rollout # Null => IsRollout(f.fallthrough.rollout, f.key)
  BY FlagShape
<1> QED
  BY <1>1, <1>2, ServedByFacts

\* The reference gives a result.
LEMMA MatchedType ==
  ASSUME NEW f \in Catalog, NEW user \in Evaluated
  PROVE  Matched(f, user) \in Result
<1>1. CASE Targets(f, user) # {}
  <2>1. TargetOf(f, user) # 0
    BY <1>1, TargetFacts
  <2> QED
    BY <2>1, TargetMatched, VariationFacts, FlagReasons, GivesResult
<1>2. CASE Targets(f, user) = {} /\ Rules(f, user) # {}
  <2> DEFINE R == Rules(f, user)
  <2>1. R \subseteq Nat
    BY FlagFacts DEF Rules
  <2> DEFINE i == Min(R)
  <2>2. i \in R
    <3> HIDE DEF R
    <3> QED
      BY <1>2, <2>1, MinFacts DEF R
  <2>3. i \in DOMAIN f.rules /\ i \in Nat
    BY <2>1, <2>2 DEF Rules
  <2>4. Matched(f, user) = ServedBy(f, f.rules[i], user, <<"RULE_MATCH", i>>)
    BY <1>2, MatchedCases
  <2>5. ServedBy(f, f.rules[i], user, <<"RULE_MATCH", i>>) =
          GetResultForVariationOrRollout(f.rules[i], user, f, <<"RULE_MATCH", i>>)
    BY <2>3, FlagShape, ServedByFacts
  <2>6. <<"RULE_MATCH", i>> \in Reason
    BY <2>3 DEF Reason
  <2> HIDE DEF i
  <2> QED
    BY <2>4, <2>5, <2>6, RolloutFacts, GivesResult
<1>3. CASE Targets(f, user) = {} /\ Rules(f, user) = {}
  BY <1>3, FallthroughMatched, RolloutFacts, FlagReasons, GivesResult
<1> QED
  BY <1>1, <1>2, <1>3

-----------------------------------------------------------------------------
(* The reference's result and events of every flag *)

Stored == \A k \in FlagKey : data[k] \in ConfigOf(k)

\* What is known of a stored flag and its prerequisites.
LEMMA StoredFacts ==
  ASSUME Stored, NEW k \in FlagKey, data[k] # Null
  PROVE  /\ data[k] \in Catalog /\ data[k].key = k /\ data[k].on \in BOOLEAN
         /\ Len(data[k].prerequisites) \in Nat
         /\ DOMAIN data[k].prerequisites = 1..Len(data[k].prerequisites)
         /\ \A i \in DOMAIN data[k].prerequisites :
              data[k].prerequisites[i].key \in FlagKey /\ Rank[k] < Rank[data[k].prerequisites[i].key]
<1>1. data[k] \in Catalog /\ data[k].key = k
  BY DEF Stored, ConfigOf
<1> QED
  BY <1>1, FlagFacts, RankFacts

\* A flag's result depends on its prerequisites' results only.
LEMMA ResultAgrees ==
  ASSUME NEW f, NEW user, NEW g, NEW h,
         f = Null \/ \A i \in DOMAIN f.prerequisites :
                       g[f.prerequisites[i].key] = h[f.prerequisites[i].key]
  PROVE  ResultOf(f, user, g) = ResultOf(f, user, h)
<1>1. CASE f = Null
  BY <1>1 DEF ResultOf
<1>2. CASE f # Null
  <2>1. Unmet(f, g) = Unmet(f, h)
    BY <1>2 DEF Unmet
  <2> QED
    BY <2>1 DEF ResultOf
<1> QED
  BY <1>1, <1>2

IsExpected(user, h) == h = [k \in FlagKey |-> ResultOf(data[k], user, h)]

\* Without a cycle of prerequisites every flag has a result: by induction over the ranks,
\* from the highest down.
LEMMA ExpectedExists ==
  ASSUME NEW user, Stored
  PROVE  \E h : IsExpected(user, h)
<1> DEFINE N == Cardinality(FlagKey)
           T == {n \in Nat : \E g : \A k \in FlagKey : Rank[k] > N - n => g[k] = ResultOf(data[k], user, g)}
<1>1. N \in Nat /\ \A k \in FlagKey : Rank[k] \in 1..N
  BY RankFacts
<1> HIDE DEF N
<1>2. 0 \in T
  <2>1. \A k \in FlagKey : ~(Rank[k] > N - 0)
    BY <1>1
  <2> QED
    BY <2>1
<1>3. ASSUME NEW n \in Nat, n \in T PROVE n + 1 \in T
  <2>1. PICK g : \A k \in FlagKey : Rank[k] > N - n => g[k] = ResultOf(data[k], user, g)
    BY <1>3
  <2> DEFINE h == [k \in FlagKey |-> IF Rank[k] = N - n THEN ResultOf(data[k], user, g) ELSE g[k]]
  <2>2. \A k \in FlagKey : h[k] = IF Rank[k] = N - n THEN ResultOf(data[k], user, g) ELSE g[k]
    OBVIOUS
  <2> HIDE DEF h
  <2>3. ASSUME NEW k \in FlagKey, Rank[k] > N - (n + 1) PROVE h[k] = ResultOf(data[k], user, h)
    <3>1. h[k] = ResultOf(data[k], user, g)
      <4>1. CASE Rank[k] = N - n
        BY <2>2, <4>1
      <4>2. CASE Rank[k] # N - n
        <5>1. Rank[k] > N - n
          BY <1>1, <2>3, <4>2
        <5> QED
          BY <2>1, <2>2, <4>2, <5>1
      <4> QED
        BY <4>1, <4>2
    <3>2. ASSUME data[k] # Null, NEW i \in DOMAIN data[k].prerequisites
          PROVE  g[data[k].prerequisites[i].key] = h[data[k].prerequisites[i].key]
      <4> DEFINE p == data[k].prerequisites[i].key
      <4>1. p \in FlagKey /\ Rank[k] < Rank[p]
        BY <3>2, StoredFacts
      <4> HIDE DEF p
      <4>2. Rank[p] # N - n
        BY <1>1, <2>3, <4>1
      <4>3. g[p] = h[p]
        BY <2>2, <4>1, <4>2
      <4> QED
        BY <4>3 DEF p
    <3>3. ResultOf(data[k], user, g) = ResultOf(data[k], user, h)
      BY <3>2, ResultAgrees
    <3> QED
      BY <3>1, <3>3
  <2>4. n + 1 \in Nat
    OBVIOUS
  <2> QED
    BY <2>3, <2>4, Zenon
<1> HIDE DEF T
<1>4. N \in T
  BY <1>1, <1>2, <1>3, NatInduct
<1>5. PICK g : \A k \in FlagKey : Rank[k] > N - N => g[k] = ResultOf(data[k], user, g)
  BY <1>4 DEF T
<1>6. \A k \in FlagKey : g[k] = ResultOf(data[k], user, g)
  BY <1>1, <1>5
<1> DEFINE h == [k \in FlagKey |-> g[k]]
<1>7. \A k \in FlagKey : h[k] = ResultOf(data[k], user, h)
  <2> TAKE k \in FlagKey
  <2>1. ASSUME data[k] # Null, NEW i \in DOMAIN data[k].prerequisites
        PROVE  g[data[k].prerequisites[i].key] = h[data[k].prerequisites[i].key]
    <3>1. data[k].prerequisites[i].key \in FlagKey
      BY <2>1, StoredFacts
    <3> QED
      BY <3>1
  <2>2. h[k] = g[k]
    OBVIOUS
  <2> HIDE DEF h
  <2>3. ResultOf(data[k], user, g) = ResultOf(data[k], user, h)
    BY <2>1, ResultAgrees
  <2> QED
    BY <1>6, <2>2, <2>3
<1>8. h = [k \in FlagKey |-> ResultOf(data[k], user, h)]
  <2>1. h = [k \in FlagKey |-> h[k]]
    OBVIOUS
  <2> HIDE DEF h
  <2> QED
    BY <1>7, <2>1
<1> QED
  BY <1>8 DEF IsExpected

\* The reference's result of a flag follows from those of its prerequisites.
THEOREM ExpectedFacts ==
  ASSUME NEW user, Stored, NEW k \in FlagKey
  PROVE  Expected(user)[k] = ResultOf(data[k], user, Expected(user))
<1> DEFINE chosen == CHOOSE h : IsExpected(user, h)
<1>1. Expected(user) = chosen
  BY DEF Expected, IsExpected
<1>2. IsExpected(user, chosen)
  BY ExpectedExists
<1> HIDE DEF chosen
<1>3. chosen[k] = ResultOf(data[k], user, chosen)
  BY <1>2 DEF IsExpected
<1> QED
  BY <1>1, <1>3

\* The first prerequisite that does not hold.
LEMMA UnmetFacts ==
  ASSUME NEW f \in Catalog, NEW result
  PROVE  /\ Unmet(f, result) \subseteq 1..Len(f.prerequisites)
         /\ Unmet(f, result) # {} => /\ Min(Unmet(f, result)) \in Unmet(f, result)
                                     /\ \A i \in Unmet(f, result) : Min(Unmet(f, result)) <= i
<1> DEFINE U == Unmet(f, result)
<1>1. U \subseteq 1..Len(f.prerequisites) /\ U \subseteq Nat
  BY FlagFacts DEF Unmet
<1> HIDE DEF U
<1>2. U # {} => Min(U) \in U /\ \A i \in U : Min(U) <= i
  BY <1>1, MinFacts
<1> QED
  BY <1>1, <1>2 DEF U

\* A flag's result by whether it is on and its prerequisites hold.
LEMMA ResultCases ==
  ASSUME NEW f \in Catalog, NEW user, NEW result
  PROVE  /\ ~f.on => ResultOf(f, user, result) = GetOffResult(f, <<"OFF">>)
         /\ f.on /\ Unmet(f, result) = {} => ResultOf(f, user, result) = Matched(f, user)
         /\ f.on /\ Unmet(f, result) # {} =>
              ResultOf(f, user, result) =
                GetOffResult(f, <<"PREREQUISITE_FAILED", f.prerequisites[Min(Unmet(f, result))].key>>)
<1>1. f # Null
  BY NullFacts
<1> QED
  BY <1>1, OffIsServedOff DEF ResultOf

\* The reference gives a result for every stored flag.
LEMMA ExpectedType ==
  ASSUME NEW user \in Evaluated, Stored, NEW k \in FlagKey, data[k] # Null
  PROVE  Expected(user)[k] \in Result
<1> DEFINE f == data[k]
           result == Expected(user)
           U == Unmet(f, result)
<1>1. f \in Catalog /\ f.on \in BOOLEAN /\ \A i \in 1..Len(f.prerequisites) : f.prerequisites[i].key \in FlagKey
  BY StoredFacts
<1>2. result[k] = ResultOf(f, user, result)
  BY ExpectedFacts
<1>3. CASE ~f.on
  <2> DEFINE off == GetOffResult(f, <<"OFF">>)
  <2>1. result[k] = off
    BY <1>1, <1>2, <1>3, ResultCases
  <2>2. off \in Result
    BY <1>1, OffFacts, FlagReasons, GivesResult
  <2> HIDE DEF off
  <2> QED
    BY <2>1, <2>2
<1>4. CASE f.on /\ U = {}
  <2>1. result[k] = Matched(f, user)
    BY <1>1, <1>2, <1>4, ResultCases
  <2>2. Matched(f, user) \in Result
    BY <1>1, MatchedType
  <2> QED
    BY <2>1, <2>2
<1>5. CASE f.on /\ U # {}
  <2>1. Min(U) \in 1..Len(f.prerequisites)
    BY <1>1, <1>5, UnmetFacts
  <2> DEFINE p == f.prerequisites[Min(U)].key
  <2>2. p \in FlagKey /\ <<"PREREQUISITE_FAILED", p>> \in Reason
    BY <1>1, <2>1, FlagReasons
  <2>3. result[k] = GetOffResult(f, <<"PREREQUISITE_FAILED", p>>)
    BY <1>1, <1>2, <1>5, ResultCases
  <2> HIDE DEF p
  <2> QED
    BY <1>1, <2>2, <2>3, OffFacts, GivesResult
<1> QED
  BY <1>3, <1>4, <1>5

\* An evaluation tests no more prerequisites than there are.
LEMMA TestedFacts ==
  ASSUME NEW f, f = Null \/ f \in Catalog, NEW result
  PROVE  /\ Tested(f, result) \in Nat
         /\ f # Null => Tested(f, result) <= Len(f.prerequisites)
         /\ f = Null => Tested(f, result) = 0
<1>1. CASE f = Null
  BY <1>1 DEF Tested
<1>2. CASE f # Null
  <2>1. f \in Catalog /\ Len(f.prerequisites) \in Nat
    BY <1>2, FlagFacts
  <2>2. Unmet(f, result) # {} => Min(Unmet(f, result)) \in 1..Len(f.prerequisites)
    BY <2>1, UnmetFacts
  <2> QED
    BY <1>2, <2>1, <2>2 DEF Tested
<1> QED
  BY <1>1, <1>2

\* No prerequisites lead to no events.
LEMMA EventsNothing ==
  ASSUME NEW f, NEW result, NEW trail PROVE Events(f, 0, result, trail) = <<>>
<1> DEFINE s == [i \in 1..0 |-> After(f.prerequisites[i].key, f.key, result, trail)]
<1>1. s \in [1..0 -> {}]
  OBVIOUS
<1> HIDE DEF s
<1>2. s \in Seq({}) /\ Len(s) = 0
  BY <1>1
<1>3. s = <<>>
  BY <1>2, EmptySeq
<1> QED
  BY <1>3, FlattenNothing DEF Events, s

\* A flag's events depend on its prerequisites' events only.
LEMMA EventsAgree ==
  ASSUME NEW f, NEW n \in Nat, NEW result, NEW g, NEW h,
         \A i \in 1..n : g[f.prerequisites[i].key] = h[f.prerequisites[i].key]
  PROVE  Events(f, n, result, g) = Events(f, n, result, h)
<1>1. \A i \in 1..n : After(f.prerequisites[i].key, f.key, result, g)
                      = After(f.prerequisites[i].key, f.key, result, h)
  BY DEF After
<1>2. [i \in 1..n |-> After(f.prerequisites[i].key, f.key, result, g)]
      = [i \in 1..n |-> After(f.prerequisites[i].key, f.key, result, h)]
  BY <1>1
<1> QED
  BY <1>2 DEF Events

IsTrail(result, h) == h = [k \in FlagKey |-> Events(data[k], Tested(data[k], result), result, h)]

\* Every flag has events, by the same induction.
LEMMA TrailExists ==
  ASSUME NEW result, Stored
  PROVE  \E h : IsTrail(result, h)
<1> DEFINE N == Cardinality(FlagKey)
           Of(k, g) == Events(data[k], Tested(data[k], result), result, g)
           T == {n \in Nat : \E g : \A k \in FlagKey : Rank[k] > N - n => g[k] = Of(k, g)}
<1>1. N \in Nat /\ \A k \in FlagKey : Rank[k] \in 1..N
  BY RankFacts
<1>2. ASSUME NEW g, NEW h, NEW k \in FlagKey,
             \A p \in FlagKey : Rank[k] < Rank[p] => g[p] = h[p]
      PROVE  Of(k, g) = Of(k, h)
  <2> DEFINE m == Tested(data[k], result)
  <2>1. m \in Nat /\ \A i \in 1..m : /\ data[k].prerequisites[i].key \in FlagKey
                                     /\ Rank[k] < Rank[data[k].prerequisites[i].key]
    <3>1. CASE data[k] = Null
      BY <3>1, TestedFacts
    <3>2. CASE data[k] # Null
      <4>1. data[k] \in Catalog /\ Len(data[k].prerequisites) \in Nat
        BY <3>2, StoredFacts
      <4>2. m \in Nat /\ m <= Len(data[k].prerequisites)
        BY <3>2, <4>1, TestedFacts
      <4> HIDE DEF m
      <4>3. \A i \in 1..m : i \in DOMAIN data[k].prerequisites
        BY <3>2, <4>1, <4>2, StoredFacts
      <4> QED
        BY <3>2, <4>2, <4>3, StoredFacts
    <3> QED
      BY <3>1, <3>2
  <2> HIDE DEF m
  <2>2. \A i \in 1..m : g[data[k].prerequisites[i].key] = h[data[k].prerequisites[i].key]
    BY <1>2, <2>1
  <2>3. Events(data[k], m, result, g) = Events(data[k], m, result, h)
    BY <2>1, <2>2, EventsAgree
  <2> QED
    BY <2>3 DEF m
<1> HIDE DEF N, Of
<1>3. 0 \in T
  <2>1. \A k \in FlagKey : ~(Rank[k] > N - 0)
    BY <1>1
  <2> QED
    BY <2>1
<1>4. ASSUME NEW n \in Nat, n \in T PROVE n + 1 \in T
  <2>1. PICK g : \A k \in FlagKey : Rank[k] > N - n => g[k] = Of(k, g)
    BY <1>4
  <2> DEFINE h == [k \in FlagKey |-> IF Rank[k] = N - n THEN Of(k, g) ELSE g[k]]
  <2>2. \A k \in FlagKey : h[k] = IF Rank[k] = N - n THEN Of(k, g) ELSE g[k]
    OBVIOUS
  <2> HIDE DEF h
  <2>3. ASSUME NEW k \in FlagKey, Rank[k] > N - (n + 1) PROVE h[k] = Of(k, h)
    <3>1. h[k] = Of(k, g)
      <4>1. CASE Rank[k] = N - n
        BY <2>2, <4>1
      <4>2. CASE Rank[k] # N - n
        <5>1. Rank[k] > N - n
          BY <1>1, <2>3, <4>2
        <5> QED
          BY <2>1, <2>2, <4>2, <5>1
      <4> QED
        BY <4>1, <4>2
    <3>2. ASSUME NEW p \in FlagKey, Rank[k] < Rank[p] PROVE g[p] = h[p]
      <4>1. Rank[p] # N - n
        BY <1>1, <2>3, <3>2
      <4> QED
        BY <2>2, <4>1
    <3>3. Of(k, g) = Of(k, h)
      BY <1>2, <3>2
    <3> QED
      BY <3>1, <3>3
  <2>4. n + 1 \in Nat
    OBVIOUS
  <2> QED
    BY <2>3, <2>4, Zenon
<1> HIDE DEF T
<1>5. N \in T
  BY <1>1, <1>3, <1>4, NatInduct
<1>6. PICK g : \A k \in FlagKey : Rank[k] > N - N => g[k] = Of(k, g)
  BY <1>5 DEF T
<1>7. \A k \in FlagKey : g[k] = Of(k, g)
  BY <1>1, <1>6
<1> DEFINE h == [k \in FlagKey |-> g[k]]
<1>8. ASSUME NEW k \in FlagKey PROVE h[k] = Of(k, h)
  <2>1. h[k] = g[k] /\ \A p \in FlagKey : g[p] = h[p]
    OBVIOUS
  <2> HIDE DEF h
  <2>2. Of(k, g) = Of(k, h)
    BY <1>2, <2>1
  <2> QED
    BY <1>7, <2>1, <2>2
<1>9. h = [k \in FlagKey |-> Of(k, h)]
  <2>1. h = [k \in FlagKey |-> h[k]]
    OBVIOUS
  <2> HIDE DEF h
  <2> QED
    BY <1>8, <2>1
<1> QED
  BY <1>9 DEF IsTrail, Of

\* The reference's events of a flag follow from those of its prerequisites.
LEMMA TrailFacts ==
  ASSUME NEW user, Stored, NEW k \in FlagKey
  PROVE  Trail(user)[k] = Events(data[k], Tested(data[k], Expected(user)), Expected(user), Trail(user))
<1> DEFINE result == Expected(user)
           chosen == CHOOSE h : IsTrail(result, h)
<1>1. Trail(user) = chosen
  BY DEF Trail, IsTrail
<1> HIDE DEF result
<1>2. IsTrail(result, chosen)
  BY TrailExists
<1> HIDE DEF chosen
<1>3. chosen[k] = Events(data[k], Tested(data[k], result), result, chosen)
  BY <1>2 DEF IsTrail
<1> QED
  BY <1>1, <1>3 DEF result

\* What a prerequisite leads to are events.
LEMMA AfterType ==
  ASSUME NEW user \in Evaluated, Stored, NEW k \in FlagKey, NEW parent \in FlagKey \cup {Null},
         NEW trail, trail[k] \in Seq(Event)
  PROVE  After(k, parent, Expected(user), trail) \in Seq(Event)
<1>1. CASE data[k] = Null
  BY <1>1 DEF After
<1>2. CASE data[k] # Null
  <2>1. data[k] \in Catalog /\ Expected(user)[k] \in Result
    BY <1>2, StoredFacts, ExpectedType
  <2> DEFINE event == NewEvalEvent(data[k], Expected(user)[k], parent)
  <2>2. event \in Event
    BY <2>1, EventFacts
  <2> HIDE DEF event
  <2>3. Append(trail[k], event) \in Seq(Event)
    BY <2>2, AppendProperties
  <2> QED
    BY <1>2, <2>3 DEF After, event
<1> QED
  BY <1>1, <1>2

\* What the first n prerequisites lead to are events.
LEMMA EventsType ==
  ASSUME NEW user \in Evaluated, Stored, NEW f \in Catalog, NEW n \in Nat, n <= Len(f.prerequisites),
         NEW trail, \A i \in 1..n : trail[f.prerequisites[i].key] \in Seq(Event)
  PROVE  /\ [i \in 1..n |-> After(f.prerequisites[i].key, f.key, Expected(user), trail)] \in Seq(Seq(Event))
         /\ Events(f, n, Expected(user), trail) \in Seq(Event)
<1> DEFINE s == [i \in 1..n |-> After(f.prerequisites[i].key, f.key, Expected(user), trail)]
<1>1. s \in Seq(Seq(Event))
  <2>1. ASSUME NEW i \in 1..n PROVE After(f.prerequisites[i].key, f.key, Expected(user), trail) \in Seq(Event)
    <3> DEFINE p == f.prerequisites[i].key
    <3>1. p \in FlagKey /\ f.key \in FlagKey \cup {Null} /\ trail[p] \in Seq(Event)
      BY FlagFacts
    <3> HIDE DEF p
    <3> QED
      BY <3>1, AfterType DEF p
  <2>2. s \in [1..n -> Seq(Event)]
    BY <2>1
  <2> HIDE DEF s
  <2> QED
    BY <2>2, SeqDef
<1> HIDE DEF s
<1>2. FlattenSeq(s) \in Seq(Event)
  BY <1>1, FlattenType
<1> QED
  BY <1>1, <1>2 DEF Events, s

\* What every flag leads to are events.
LEMMA TrailType ==
  ASSUME NEW user \in Evaluated, Stored
  PROVE  \A k \in FlagKey : Trail(user)[k] \in Seq(Event)
<1> DEFINE N == Cardinality(FlagKey)
           trail == Trail(user)
           T == {n \in Nat : \A k \in FlagKey : Rank[k] > N - n => trail[k] \in Seq(Event)}
<1>1. N \in Nat /\ \A k \in FlagKey : Rank[k] \in 1..N
  BY RankFacts
<1>2. \A k \in FlagKey : trail[k] = Events(data[k], Tested(data[k], Expected(user)), Expected(user), trail)
  BY TrailFacts
<1> HIDE DEF N, trail
<1>3. 0 \in T
  <2>1. \A k \in FlagKey : ~(Rank[k] > N - 0)
    BY <1>1
  <2> QED
    BY <2>1
<1>4. ASSUME NEW n \in Nat, n \in T PROVE n + 1 \in T
  <2>1. \A k \in FlagKey : Rank[k] > N - n => trail[k] \in Seq(Event)
    BY <1>4
  <2>2. ASSUME NEW k \in FlagKey, Rank[k] > N - (n + 1) PROVE trail[k] \in Seq(Event)
    <3>1. CASE data[k] = Null
      <4>1. trail[k] = Events(Null, 0, Expected(user), trail)
        BY <1>2, <3>1, TestedFacts
      <4>2. Events(Null, 0, Expected(user), trail) = <<>>
        BY EventsNothing
      <4>3. <<>> \in Seq(Event)
        OBVIOUS
      <4>4. trail[k] = <<>>
        BY <4>1, <4>2
      <4> QED
        BY <4>3, <4>4
    <3>2. CASE data[k] # Null
      <4> DEFINE m == Tested(data[k], Expected(user))
      <4>1. data[k] \in Catalog /\ Len(data[k].prerequisites) \in Nat
        BY <3>2, StoredFacts
      <4>2. m \in Nat /\ m <= Len(data[k].prerequisites)
        BY <3>2, <4>1, TestedFacts
      <4>3. trail[k] = Events(data[k], m, Expected(user), trail)
        BY <1>2
      <4> HIDE DEF m
      <4>4. ASSUME NEW i \in 1..m PROVE trail[data[k].prerequisites[i].key] \in Seq(Event)
        <5> DEFINE p == data[k].prerequisites[i].key
        <5>1. i \in DOMAIN data[k].prerequisites
          BY <3>2, <4>1, <4>2, StoredFacts
        <5>2. p \in FlagKey /\ Rank[k] < Rank[p]
          BY <3>2, <5>1, StoredFacts
        <5> HIDE DEF p
        <5>3. Rank[p] > N - n
          BY <1>1, <2>2, <5>2
        <5> QED
          BY <2>1, <5>2, <5>3 DEF p
      <4> QED
        BY <4>1, <4>2, <4>3, <4>4, EventsType
    <3> QED
      BY <3>1, <3>2
  <2>3. n + 1 \in Nat
    OBVIOUS
  <2> QED
    BY <2>2, <2>3, Zenon
<1> HIDE DEF T
<1>5. N \in T
  BY <1>1, <1>3, <1>4, NatInduct
<1>6. \A k \in FlagKey : Rank[k] > N - N => trail[k] \in Seq(Event)
  BY <1>5 DEF T
<1> QED
  BY <1>1, <1>6 DEF trail

-----------------------------------------------------------------------------
(* An evaluation that no update overlaps *)

\* How far a frame without a result has come, in the reference's words.
Reached(frame) ==
  LET flag == frame.flag
  IN  /\ frame.prereq >= 1 /\ frame.clause >= 1 /\ frame.value >= 1
      /\ frame.rule = 0 => frame.clause = 1 /\ frame.value = 1
      /\ \A i \in 1..frame.prereq - 1 : i \notin Unmet(flag, Expected(User))
      /\ frame.rule > 0 =>
           \A i \in DOMAIN flag.targets : User.own["key"] \notin flag.targets[i].values
      /\ \A i \in 1..frame.rule - 1 : ~RuleHolds(flag.rules[i], User)
      /\ frame.rule \in DOMAIN flag.rules /\ Rule(frame).clauses # Null =>
           /\ \A j \in 1..frame.clause - 1 : RuleClauseHolds(Rule(frame).clauses[j], User)
           /\ frame.clause \in DOMAIN Rule(frame).clauses /\ Clause(frame).op = "segmentMatch" =>
                \A v \in 1..frame.value - 1 : ~Belongs(Clause(frame).values[v], User)
FrameMatches(frame) ==
  /\ frame.flag = data[frame.flag.key]
  /\ frame.result = Null => Reached(frame)
  /\ frame.result # Null => frame.result = Expected(User)[frame.flag.key]

\* The events that the work on a frame has led to.
Done(frame) ==
  IF frame.result # Null THEN Trail(User)[frame.flag.key]
  ELSE Events(frame.flag, frame.prereq - 1, Expected(User), Trail(User))
Pieces(stack) == [i \in 1..Len(stack) |-> Done(stack[i])]

EvalMatches(e) ==
  /\ e.flag = data[e.flag.key]
  /\ NoKey(call.user) => e.stack = <<>> /\ e.result = ErrorResult("USER_NOT_SPECIFIED")
  /\ ~NoKey(call.user) =>
       /\ \A i \in 1..Len(e.stack) : FrameMatches(e.stack[i])
       /\ e.stack # <<>> => e.events = FlattenSeq(Pieces(e.stack))
       /\ e.stack = <<>> => e.result = Expected(User)[e.flag.key] /\ e.events = Trail(User)[e.flag.key]

Undisturbed ==
  /\ data \in Datasets
  /\ evals # NoFlags => call.user # Null
  /\ stage = "allowed" => ~IsAll /\ (call.ready \/ call.inited)
  /\ stage = "evaluating" => ~call.offline /\ call.user # Null
  /\ stage = "evaluating" /\ ~IsAll => (call.ready \/ call.inited) /\ call.key # Null
  /\ stage = "evaluating" /\ IsAll => DOMAIN evals = Wanted
  /\ \A k \in DOMAIN evals : EvalMatches(evals[k])
Matching == changes = 0 => Undisturbed /\ MatchesReference

-----------------------------------------------------------------------------
(* What an evaluation that no update overlaps has to do with *)

\* The user of a call is one that is evaluated.
LEMMA UserFacts ==
  ASSUME call \in Calls, call.user # Null PROVE User \in Evaluated /\ IsProper(User)
<1>1. User \in Evaluated
  BY DEF Evaluated, User
<1>2. \A attr \in DOMAIN User.own \cup DOMAIN User.custom :
        LET value == UserValue(User, attr)
        IN  value = Null \/ value[1] # "array" \/ IsList(value[2])
  BY <1>1, ShapeAssumption
<1>3. \A attr : attr \notin DOMAIN User.own \cup DOMAIN User.custom => UserValue(User, attr) = Null
  BY DEF UserValue
<1>4. IsProper(User)
  <2> SUFFICES ASSUME NEW attr
               PROVE  UserValue(User, attr) = Null \/ UserValue(User, attr)[1] # "array"
                      \/ IsList(UserValue(User, attr)[2])
    BY DEF IsProper
  <2> QED
    BY <1>2, <1>3
<1> QED
  BY <1>1, <1>4

\* The store as it was when the call was made, and a user to evaluate.
Quiet == data \in Datasets /\ Stored /\ call \in Calls /\ call.user # Null /\ ~NoKey(call.user)

\* What is known while no update overlaps.
LEMMA QuietFacts ==
  ASSUME Quiet
  PROVE  /\ Stored /\ User \in Evaluated /\ IsProper(User)
         /\ \A k \in SegmentKey : data[k] = Null \/ IsSegment(data[k])
         /\ DOMAIN data = FlagKey \cup SegmentKey
<1>1. \A k \in SegmentKey : data[k] = Null \/ IsSegment(data[k])
  BY ShapeAssumption DEF Quiet
<1>2. DOMAIN data = FlagKey \cup SegmentKey
  BY CallAssumption DEF Quiet
<1> QED
  BY <1>1, <1>2, UserFacts DEF Quiet

\* A flag of the store, with the reference's result and events.
LEMMA QuietFlag ==
  ASSUME Quiet, NEW f \in Catalog, f = data[f.key]
  PROVE  /\ Expected(User)[f.key] = ResultOf(f, User, Expected(User))
         /\ Expected(User)[f.key] \in Result /\ Expected(User)[f.key] # Null
         /\ Trail(User)[f.key] = Events(f, Tested(f, Expected(User)), Expected(User), Trail(User))
         /\ Trail(User)[f.key] \in Seq(Event)
         /\ \A i \in 1..Len(f.prerequisites) : Trail(User)[f.prerequisites[i].key] \in Seq(Event)
<1>1. Stored /\ User \in Evaluated /\ f.key \in FlagKey /\ f # Null
  BY QuietFacts, FlagFacts, NullFacts
<1>2. Expected(User)[f.key] = ResultOf(f, User, Expected(User))
  BY <1>1, ExpectedFacts
<1>3. Expected(User)[f.key] \in Result
  BY <1>1, ExpectedType
<1>4. Trail(User)[f.key] = Events(f, Tested(f, Expected(User)), Expected(User), Trail(User))
  BY <1>1, TrailFacts
<1>5. \A k \in FlagKey : Trail(User)[k] \in Seq(Event)
  BY <1>1, TrailType
<1> QED
  BY <1>1, <1>2, <1>3, <1>4, <1>5, FlagFacts, NullFacts

\* One more prerequisite adds what it leads to.
LEMMA EventsNext ==
  ASSUME Quiet, NEW f \in Catalog, f = data[f.key], NEW n \in Nat, n + 1 <= Len(f.prerequisites)
  PROVE  /\ Events(f, n, Expected(User), Trail(User)) \in Seq(Event)
         /\ After(f.prerequisites[n + 1].key, f.key, Expected(User), Trail(User)) \in Seq(Event)
         /\ Events(f, n + 1, Expected(User), Trail(User)) =
              Events(f, n, Expected(User), Trail(User))
              \o After(f.prerequisites[n + 1].key, f.key, Expected(User), Trail(User))
<1> DEFINE R == Expected(User)
           T == Trail(User)
           Each(i) == After(f.prerequisites[i].key, f.key, R, T)
           s == [i \in 1..n |-> Each(i)]
           t == [i \in 1..n + 1 |-> Each(i)]
           x == Each(n + 1)
<1>1. /\ Stored /\ User \in Evaluated /\ Len(f.prerequisites) \in Nat
      /\ \A i \in 1..Len(f.prerequisites) : T[f.prerequisites[i].key] \in Seq(Event)
  BY QuietFacts, QuietFlag, FlagFacts
<1>2. s \in Seq(Seq(Event)) /\ Events(f, n, R, T) \in Seq(Event) /\ Events(f, n, R, T) = FlattenSeq(s)
  <2>1. n <= Len(f.prerequisites) /\ \A i \in 1..n : T[f.prerequisites[i].key] \in Seq(Event)
    BY <1>1
  <2> HIDE DEF T
  <2> QED
    BY <1>1, <2>1, EventsType DEF Events
<1>3. t \in Seq(Seq(Event)) /\ Events(f, n + 1, R, T) = FlattenSeq(t)
  <2>1. n + 1 \in Nat /\ \A i \in 1..n + 1 : T[f.prerequisites[i].key] \in Seq(Event)
    BY <1>1
  <2> HIDE DEF T
  <2> QED
    BY <1>1, <2>1, EventsType DEF Events
<1>4. Len(s) = n /\ Len(t) = n + 1 /\ t[n + 1] = x /\ \A i \in 1..n : s[i] = Each(i) /\ t[i] = Each(i)
  <2> HIDE DEF Each
  <2> QED
    BY DEF x
<1>5. x \in Seq(Event)
  <2>1. n + 1 \in 1..Len(t)
    BY <1>4
  <2> HIDE DEF t, x
  <2>2. t[n + 1] \in Seq(Event)
    BY <1>3, <2>1, ElementOfSeq
  <2> QED
    BY <1>4, <2>2
<1>6. t = Append(s, x)
  <2> HIDE DEF s, t, x, Each
  <2>1. /\ Append(s, x) \in Seq(Seq(Event)) /\ Len(Append(s, x)) = n + 1
        /\ Append(s, x)[n + 1] = x /\ \A i \in 1..n : Append(s, x)[i] = s[i]
    BY <1>2, <1>4, <1>5, AppendProperties
  <2>2. \A i \in 1..n + 1 : t[i] = Append(s, x)[i]
    BY <1>4, <2>1
  <2> QED
    BY <1>3, <1>4, <2>1, <2>2, SeqEqual
<1> HIDE DEF s, t, x
<1>7. FlattenSeq(t) = FlattenSeq(s) \o x
  BY <1>2, <1>5, <1>6, FlattenAppend
<1> QED
  BY <1>2, <1>3, <1>5, <1>7 DEF x

-----------------------------------------------------------------------------
(* The steps of a frame *)

\* The first prerequisite that does not hold is the least one.
LEMMA FirstUnmet ==
  ASSUME NEW f \in Catalog, NEW result, NEW n \in Unmet(f, result), \A i \in 1..n - 1 : i \notin Unmet(f, result)
  PROVE  Unmet(f, result) # {} /\ Min(Unmet(f, result)) = n
<1> DEFINE U == Unmet(f, result)
<1>1. U \subseteq 1..Len(f.prerequisites) /\ Len(f.prerequisites) \in Nat /\ Min(U) \in U /\ Min(U) <= n
  BY UnmetFacts, FlagFacts
<1>2. \A i \in 1..n - 1 : i \notin U
  OBVIOUS
<1> HIDE DEF U
<1>3. Min(U) = n
  <2> DEFINE m == Min(U)
  <2>1. m \in Nat /\ m >= 1 /\ n \in Nat /\ m <= n /\ ~(m \in 1..n - 1)
    BY <1>1, <1>2 DEF U
  <2> HIDE DEF m
  <2>2. m = n
    BY <2>1
  <2> QED
    BY <2>2 DEF m
<1> QED
  BY <1>3 DEF U

\* An evaluation begins as the reference says.
LEMMA EnterMatches ==
  ASSUME Quiet, NEW f \in Catalog, f = data[f.key]
  PROVE  FrameMatches(Enter(f)) /\ Done(Enter(f)) = <<>>
<1> DEFINE g == Enter(f)
<1>1. /\ g.flag = f /\ g.prereq = 1 /\ g.rule = 0 /\ g.clause = 1 /\ g.value = 1
      /\ f.on => g.result = Null
      /\ ~f.on => g.result # Null /\ g.result = GetOffResult(f, <<"OFF">>)
  BY EnterFacts DEF Enter
<1> HIDE DEF g
<1>2. CASE f.on
  <2>1. 0 \notin DOMAIN f.rules
    BY FlagFacts
  <2>2. Reached(g)
    BY <1>1, <2>1 DEF Reached
  <2>3. FrameMatches(g)
    BY <1>1, <1>2, <2>2 DEF FrameMatches
  <2>4. Done(g) = Events(f, 0, Expected(User), Trail(User))
    BY <1>1, <1>2 DEF Done
  <2>5. Done(g) = <<>>
    BY <2>4, EventsNothing
  <2> QED
    BY <2>3, <2>5 DEF g
<1>3. CASE ~f.on
  <2>1. g.result = Expected(User)[f.key]
    <3>1. ResultOf(f, User, Expected(User)) = GetOffResult(f, <<"OFF">>)
      BY <1>3, ResultCases
    <3>2. Expected(User)[f.key] = ResultOf(f, User, Expected(User))
      BY QuietFlag
    <3>3. g.result = GetOffResult(f, <<"OFF">>)
      BY <1>1, <1>3
    <3> QED
      BY <3>1, <3>2, <3>3, Zenon
  <2>2. FrameMatches(g)
    BY <1>1, <1>3, <2>1 DEF FrameMatches
  <2>3. Tested(f, Expected(User)) = 0
    BY <1>3 DEF Tested
  <2>4. Trail(User)[f.key] = Events(f, 0, Expected(User), Trail(User))
    BY <2>3, QuietFlag
  <2>5. Done(g) = <<>>
    BY <1>1, <1>3, <2>4, EventsNothing DEF Done
  <2> QED
    BY <2>2, <2>5 DEF g
<1> QED
  BY <1>2, <1>3

\* A frame in work whose prerequisites hold so far.
OnItsWay(frame) ==
  /\ frame \in Frame /\ FrameInv(frame) /\ frame.result = Null /\ FrameMatches(frame)

\* What is known of a frame in work.
LEMMA OnItsWayFacts ==
  ASSUME NEW frame, OnItsWay(frame)
  PROVE  /\ frame.flag \in Catalog /\ frame.flag = data[frame.flag.key] /\ frame.flag.on
         /\ frame.flag # Null /\ Prereqs(frame) = frame.flag.prerequisites
         /\ Len(frame.flag.prerequisites) \in Nat /\ Reached(frame)
         /\ frame.prereq \in 1..Len(frame.flag.prerequisites) + 1
         /\ frame.prereq \in Nat /\ frame.rule \in Nat /\ frame.clause \in Nat /\ frame.value \in Nat
         /\ \A i \in 1..frame.prereq - 1 : i \notin Unmet(frame.flag, Expected(User))
<1>1. /\ frame.flag \in Catalog /\ Prereqs(frame) = frame.flag.prerequisites
      /\ frame.prereq \in Nat /\ frame.rule \in Nat /\ frame.clause \in Nat /\ frame.value \in Nat
  BY FrameFacts DEF OnItsWay
<1>2. frame.flag.on /\ frame.prereq \in 1..Len(frame.flag.prerequisites) + 1
  BY DEF OnItsWay, FrameInv, FrameOK
<1>3. frame.flag = data[frame.flag.key] /\ Reached(frame)
  BY DEF OnItsWay, FrameMatches
<1>4. \A i \in 1..frame.prereq - 1 : i \notin Unmet(frame.flag, Expected(User))
  BY <1>3 DEF Reached
<1> QED
  BY <1>1, <1>2, <1>3, <1>4, FlagFacts, NullFacts

\* A prerequisite that does not hold ends the flag's evaluation as the reference says.
LEMMA FailedMatches ==
  ASSUME Quiet, NEW frame, OnItsWay(frame), frame.prereq \in Unmet(frame.flag, Expected(User)),
         NEW g, g = PrerequisiteFailed(frame, frame.flag.prerequisites[frame.prereq].key)
  PROVE  /\ FrameMatches(g)
         /\ Done(g) = Events(frame.flag, frame.prereq, Expected(User), Trail(User))
<1> DEFINE f == frame.flag
           n == frame.prereq
           off == GetOffResult(f, <<"PREREQUISITE_FAILED", f.prerequisites[n].key>>)
<1>1. /\ f \in Catalog /\ f = data[f.key] /\ f.on /\ f # Null
      /\ \A i \in 1..n - 1 : i \notin Unmet(f, Expected(User))
  BY OnItsWayFacts
<1>2. g.flag = f /\ g.result = off
  BY DEF PrerequisiteFailed, OnItsWay, Frame
<1>3. Unmet(f, Expected(User)) # {} /\ Min(Unmet(f, Expected(User))) = n
  BY <1>1, FirstUnmet
<1>4. Expected(User)[f.key] = off /\ off # Null
  <2>1. ResultOf(f, User, Expected(User)) = off
    BY <1>1, <1>3, ResultCases
  <2> QED
    BY <1>1, <2>1, QuietFlag
<1>5. Tested(f, Expected(User)) = n
  BY <1>1, <1>3 DEF Tested
<1> HIDE DEF off
<1>6. FrameMatches(g)
  BY <1>1, <1>2, <1>4 DEF FrameMatches
<1>7. Done(g) = Trail(User)[f.key]
  BY <1>2, <1>4 DEF Done
<1> QED
  BY <1>1, <1>5, <1>6, <1>7, QuietFlag

\* After a prerequisite that holds the next one is due.
LEMMA MetMatches ==
  ASSUME Quiet, NEW frame, OnItsWay(frame), frame.rule = 0,
         frame.prereq \notin Unmet(frame.flag, Expected(User)),
         NEW g, g = [frame EXCEPT !.prereq = @ + 1]
  PROVE  /\ FrameMatches(g)
         /\ Done(g) = Events(frame.flag, frame.prereq, Expected(User), Trail(User))
<1>1. /\ g.flag = frame.flag /\ g.prereq = frame.prereq + 1 /\ g.rule = 0 /\ g.clause = frame.clause
      /\ g.value = frame.value /\ g.result = Null
  BY DEF OnItsWay, Frame
<1>2. /\ frame.flag = data[frame.flag.key] /\ Reached(frame) /\ frame.prereq \in Nat
      /\ \A i \in 1..frame.prereq - 1 : i \notin Unmet(frame.flag, Expected(User))
      /\ frame.flag \in Catalog
  BY OnItsWayFacts
<1>3. \A i \in 1..g.prereq - 1 : i \notin Unmet(g.flag, Expected(User))
  BY <1>1, <1>2
<1>4. g.rule \notin DOMAIN g.flag.rules
  BY <1>1, <1>2, FlagFacts
<1>5. g.prereq >= 1 /\ g.clause = 1 /\ g.value = 1
  BY <1>1, <1>2 DEF Reached
<1>6. Reached(g)
  BY <1>1, <1>3, <1>4, <1>5 DEF Reached
<1>7. g.prereq - 1 = frame.prereq
  BY <1>1, <1>2
<1> QED
  BY <1>1, <1>2, <1>6, <1>7 DEF FrameMatches, Done

\* A target, rule or fallthrough ends the flag's evaluation as the reference says.
LEMMA DecidedMatches ==
  ASSUME Quiet, NEW frame, OnItsWay(frame), frame.prereq > Len(frame.flag.prerequisites),
         NEW g, g = [frame EXCEPT !.result = Matched(frame.flag, User)]
  PROVE  FrameMatches(g) /\ Done(g) = Done(frame)
<1> DEFINE f == frame.flag
<1>1. /\ f \in Catalog /\ f = data[f.key] /\ f.on /\ f # Null /\ Len(f.prerequisites) \in Nat
      /\ \A i \in 1..frame.prereq - 1 : i \notin Unmet(f, Expected(User))
      /\ frame.prereq \in 1..Len(f.prerequisites) + 1
  BY OnItsWayFacts
<1>2. g.flag = f /\ g.result = Matched(f, User)
  BY DEF OnItsWay, Frame
<1>3. frame.prereq = Len(f.prerequisites) + 1 /\ frame.prereq - 1 = Len(f.prerequisites)
  BY <1>1
<1>4. Unmet(f, Expected(User)) = {}
  BY <1>1, <1>3, UnmetFacts
<1>5. Expected(User)[f.key] = Matched(f, User) /\ Matched(f, User) # Null
  BY <1>1, <1>4, QuietFlag, ResultCases
<1>6. Tested(f, Expected(User)) = Len(f.prerequisites)
  BY <1>1, <1>4 DEF Tested
<1>7. FrameMatches(g)
  BY <1>1, <1>2, <1>5 DEF FrameMatches
<1>8. Done(g) = Trail(User)[f.key]
  BY <1>2, <1>5 DEF Done
<1>9. Done(frame) = Events(f, Len(f.prerequisites), Expected(User), Trail(User))
  BY <1>3 DEF Done, OnItsWay
<1> QED
  BY <1>1, <1>6, <1>7, <1>8, <1>9, QuietFlag

\* A frame that has come further, but has met no prerequisite.
LEMMA MovedMatches ==
  ASSUME NEW frame, OnItsWay(frame), NEW g, g.flag = frame.flag, g.prereq = frame.prereq,
         g.result = Null, Reached(g)
  PROVE  FrameMatches(g) /\ Done(g) = Done(frame)
  BY DEF OnItsWay, FrameMatches, Done

\* The rule of a frame fails.
LEMMA RuleFails ==
  ASSUME NEW frame, OnItsWay(frame), frame.rule \in DOMAIN frame.flag.rules, ~RuleHolds(Rule(frame), User),
         NEW g, g = AfterVerdict(frame, "no")
  PROVE  FrameMatches(g) /\ Done(g) = Done(frame)
<1>1. /\ g.flag = frame.flag /\ g.prereq = frame.prereq /\ g.rule = frame.rule + 1 /\ g.clause = 1
      /\ g.value = 1 /\ g.result = Null
  BY DEF AfterVerdict, OnItsWay, Frame
<1>2. frame.flag \in Catalog /\ frame.rule \in Nat /\ Reached(frame)
  BY OnItsWayFacts
<1>3. frame.rule > 0
  BY <1>2, FlagFacts
<1>4. \A i \in 1..g.rule - 1 : ~RuleHolds(g.flag.rules[i], User)
  <2> TAKE i \in 1..g.rule - 1
  <2>1. i = frame.rule \/ i \in 1..frame.rule - 1
    BY <1>1, <1>2
  <2>2. \A j \in 1..frame.rule - 1 : ~RuleHolds(frame.flag.rules[j], User)
    BY <1>2 DEF Reached
  <2> QED
    BY <1>1, <2>1, <2>2 DEF Rule
<1>5. Reached(g)
  BY <1>1, <1>2, <1>3, <1>4 DEF Reached
<1> QED
  BY <1>1, <1>5, MovedMatches

\* The clause of a frame holds.
LEMMA ClausePasses ==
  ASSUME NEW frame, OnItsWay(frame), frame.rule \in DOMAIN frame.flag.rules, Rule(frame).clauses # Null,
         RuleClauseHolds(Clause(frame), User), NEW g, g = AfterVerdict(frame, "yes")
  PROVE  FrameMatches(g) /\ Done(g) = Done(frame)
<1>1. /\ g.flag = frame.flag /\ g.prereq = frame.prereq /\ g.rule = frame.rule
      /\ g.clause = frame.clause + 1 /\ g.value = 1 /\ g.result = Null
  BY DEF AfterVerdict, OnItsWay, Frame
<1>2. frame.flag \in Catalog /\ frame.rule \in Nat /\ frame.clause \in Nat /\ Reached(frame)
  BY OnItsWayFacts
<1>3. frame.rule > 0
  BY <1>2, FlagFacts
<1>4. \A j \in 1..frame.clause - 1 : RuleClauseHolds(Rule(frame).clauses[j], User)
  BY <1>2 DEF Reached
<1>5. \A j \in 1..g.clause - 1 : RuleClauseHolds(Rule(g).clauses[j], User)
  <2> TAKE j \in 1..g.clause - 1
  <2>1. j = frame.clause \/ j \in 1..frame.clause - 1
    BY <1>1, <1>2
  <2>2. Rule(g) = Rule(frame)
    BY <1>1 DEF Rule
  <2> QED
    BY <1>4, <2>1, <2>2 DEF Clause
<1>6. /\ frame.rule > 0 => \A i \in DOMAIN g.flag.targets : User.own["key"] \notin g.flag.targets[i].values
      /\ \A i \in 1..g.rule - 1 : ~RuleHolds(g.flag.rules[i], User)
      /\ \A i \in 1..g.prereq - 1 : i \notin Unmet(g.flag, Expected(User))
      /\ g.prereq >= 1 /\ frame.clause >= 1
  BY <1>1, <1>2 DEF Reached
<1>7. Reached(g)
  BY <1>1, <1>2, <1>3, <1>5, <1>6 DEF Reached
<1> QED
  BY <1>1, <1>7, MovedMatches

\* A segment of the frame's clause does not have the user.
LEMMA SegmentPasses ==
  ASSUME NEW frame, OnItsWay(frame), frame.rule \in DOMAIN frame.flag.rules, Rule(frame).clauses # Null,
         ~Belongs(Clause(frame).values[frame.value], User), Clause(frame).op = "segmentMatch",
         frame.clause \in DOMAIN Rule(frame).clauses, NEW g, g = [frame EXCEPT !.value = @ + 1]
  PROVE  FrameMatches(g) /\ Done(g) = Done(frame)
<1>1. /\ g.flag = frame.flag /\ g.prereq = frame.prereq /\ g.rule = frame.rule
      /\ g.clause = frame.clause /\ g.value = frame.value + 1 /\ g.result = Null
  BY DEF OnItsWay, Frame
<1>2. frame.flag \in Catalog /\ frame.rule \in Nat /\ frame.value \in Nat /\ Reached(frame)
  BY OnItsWayFacts
<1>3. frame.rule > 0
  BY <1>2, FlagFacts
<1>4. Rule(g) = Rule(frame) /\ Clause(g) = Clause(frame)
  BY <1>1 DEF Rule, Clause
<1>5. \A v \in 1..g.value - 1 : ~Belongs(Clause(g).values[v], User)
  <2> TAKE v \in 1..g.value - 1
  <2>1. v = frame.value \/ v \in 1..frame.value - 1
    BY <1>1, <1>2
  <2>2. \A w \in 1..frame.value - 1 : ~Belongs(Clause(frame).values[w], User)
    BY <1>2 DEF Reached
  <2> QED
    BY <1>4, <2>1, <2>2
<1>6. /\ frame.rule > 0 => \A i \in DOMAIN g.flag.targets : User.own["key"] \notin g.flag.targets[i].values
      /\ \A i \in 1..g.rule - 1 : ~RuleHolds(g.flag.rules[i], User)
      /\ \A i \in 1..g.prereq - 1 : i \notin Unmet(g.flag, Expected(User))
      /\ \A j \in 1..g.clause - 1 : RuleClauseHolds(Rule(g).clauses[j], User)
      /\ g.prereq >= 1 /\ g.clause >= 1 /\ frame.value >= 1
  BY <1>1, <1>2, <1>4 DEF Reached
<1>7. Reached(g)
  BY <1>1, <1>2, <1>3, <1>5, <1>6 DEF Reached
<1> QED
  BY <1>1, <1>7, MovedMatches

\* The frame goes on from its targets to its rules.
LEMMA TargetsPass ==
  ASSUME NEW frame, OnItsWay(frame), frame.rule = 0, Targets(frame.flag, User) = {},
         NEW g, g = [frame EXCEPT !.rule = 1]
  PROVE  FrameMatches(g) /\ Done(g) = Done(frame)
<1>1. /\ g.flag = frame.flag /\ g.prereq = frame.prereq /\ g.rule = 1
      /\ g.clause = frame.clause /\ g.value = frame.value /\ g.result = Null
  BY DEF OnItsWay, Frame
<1>2. Reached(frame)
  BY OnItsWayFacts
<1>3. \A i \in DOMAIN g.flag.targets : User.own["key"] \notin g.flag.targets[i].values
  BY <1>1 DEF Targets
<1>4. /\ \A i \in 1..g.prereq - 1 : i \notin Unmet(g.flag, Expected(User))
      /\ g.prereq >= 1 /\ g.clause = 1 /\ g.value = 1
  BY <1>1, <1>2 DEF Reached
<1>5. Reached(g)
  BY <1>1, <1>3, <1>4 DEF Reached
<1> QED
  BY <1>1, <1>5, MovedMatches

-----------------------------------------------------------------------------
(* The steps of a stack *)

\* What a frame has led to are events.
LEMMA DoneType ==
  ASSUME Quiet, NEW frame \in Frame, FrameInv(frame), FrameMatches(frame)
  PROVE  Done(frame) \in Seq(Event)
<1> DEFINE f == frame.flag
<1>1. f \in Catalog /\ f = data[f.key] /\ frame.prereq \in 1..Len(f.prerequisites) + 1
      /\ Len(f.prerequisites) \in Nat
  BY FrameFacts, FlagFacts DEF FrameMatches, FrameInv, FrameOK
<1>2. CASE frame.result # Null
  BY <1>1, <1>2, QuietFlag DEF Done
<1>3. CASE frame.result = Null
  <2> DEFINE n == frame.prereq - 1
  <2>1. n \in Nat /\ n <= Len(f.prerequisites)
    BY <1>1
  <2>2. Done(frame) = Events(f, n, Expected(User), Trail(User))
    BY <1>3 DEF Done
  <2> HIDE DEF n
  <2>3. \A i \in 1..Len(f.prerequisites) : Trail(User)[f.prerequisites[i].key] \in Seq(Event)
    BY <1>1, QuietFlag
  <2>4. \A i \in 1..n : Trail(User)[f.prerequisites[i].key] \in Seq(Event)
    BY <1>1, <2>1, <2>3
  <2> QED
    BY <1>1, <2>1, <2>2, <2>4, EventsType, QuietFacts
<1> QED
  BY <1>2, <1>3

\* A stack of frames that match, and its events.
OkFrame(frame) == frame \in Frame /\ FrameInv(frame) /\ FrameMatches(frame)
OkStack(s) == s \in Seq(Frame) /\ \A i \in 1..Len(s) : OkFrame(s[i])
Told(s) == FlattenSeq(Pieces(s))

\* What the frames of a stack have led to are events.
LEMMA PiecesType ==
  ASSUME Quiet, NEW s, OkStack(s)
  PROVE  /\ Pieces(s) \in Seq(Seq(Event)) /\ Len(Pieces(s)) = Len(s)
         /\ \A i \in 1..Len(s) : Pieces(s)[i] = Done(s[i])
         /\ Told(s) \in Seq(Event)
<1> DEFINE n == Len(s)
<1>1. n \in Nat
  BY DEF OkStack
<1>2. \A i \in 1..n : Done(s[i]) \in Seq(Event)
  BY DoneType DEF OkStack, OkFrame
<1>3. Pieces(s) = [i \in 1..n |-> Done(s[i])]
  BY DEF Pieces
<1> HIDE DEF n
<1>4. Pieces(s) \in [1..n -> Seq(Event)]
  BY <1>2, <1>3
<1>5. Pieces(s) \in Seq(Seq(Event)) /\ Len(Pieces(s)) = n
  BY <1>1, <1>4
<1> QED
  BY <1>3, <1>5, FlattenType DEF n, Told

\* A frame on top adds what it has led to.
LEMMA ToldAppend ==
  ASSUME Quiet, NEW s, OkStack(s), NEW g, OkFrame(g)
  PROVE  /\ OkStack(Append(s, g)) /\ Append(s, g) # <<>>
         /\ Told(Append(s, g)) = Told(s) \o Done(g)
<1> DEFINE n == Len(s)
           t == Append(s, g)
<1>1. n \in Nat /\ s \in Seq(Frame) /\ \A i \in 1..n : OkFrame(s[i])
  BY DEF OkStack
<1>2. t \in Seq(Frame) /\ Len(t) = n + 1 /\ t[n + 1] = g /\ \A i \in 1..n : t[i] = s[i]
  BY <1>1, AppendProperties DEF OkFrame
<1> HIDE DEF t
<1>3. t # <<>>
  BY <1>1, <1>2, EmptySeq
<1>4. OkStack(t)
  <2>1. ASSUME NEW i \in 1..n + 1 PROVE OkFrame(t[i])
    <3>1. i = n + 1 \/ i \in 1..n
      BY <1>1
    <3> QED
      BY <1>1, <1>2, <3>1
  <2> QED
    BY <1>2, <2>1 DEF OkStack
<1>5. /\ Pieces(s) \in Seq(Seq(Event)) /\ Len(Pieces(s)) = n
      /\ \A i \in 1..n : Pieces(s)[i] = Done(s[i])
  BY PiecesType
<1> HIDE DEF n
<1>6. /\ Pieces(t) \in Seq(Seq(Event)) /\ Len(Pieces(t)) = n + 1
      /\ \A i \in 1..n + 1 : Pieces(t)[i] = Done(t[i])
  BY <1>2, <1>4, PiecesType
<1>7. Done(g) \in Seq(Event)
  BY DoneType DEF OkFrame
<1>8. Pieces(t) = Append(Pieces(s), Done(g))
  <2> DEFINE p == Append(Pieces(s), Done(g))
  <2>1. p \in Seq(Seq(Event)) /\ Len(p) = n + 1 /\ p[n + 1] = Done(g) /\ \A i \in 1..n : p[i] = Pieces(s)[i]
    BY <1>5, <1>7, AppendProperties
  <2> HIDE DEF p
  <2>2. \A i \in 1..n + 1 : Pieces(t)[i] = p[i]
    <3> TAKE i \in 1..n + 1
    <3>1. i = n + 1 \/ i \in 1..n
      BY <1>1
    <3>2. CASE i = n + 1
      BY <1>2, <1>6, <2>1, <3>2
    <3>3. CASE i \in 1..n
      BY <1>2, <1>5, <1>6, <2>1, <3>3
    <3> QED
      BY <3>1, <3>2, <3>3
  <2> QED
    BY <1>6, <2>1, <2>2, SeqEqual DEF p
<1>9. Told(t) = Told(s) \o Done(g)
  BY <1>5, <1>7, <1>8, FlattenAppend DEF Told
<1> QED
  BY <1>3, <1>4, <1>9 DEF t

\* A stack's events, without and with its last frame.
LEMMA ToldFront ==
  ASSUME Quiet, NEW s, OkStack(s), s # <<>>
  PROVE  OkStack(Front(s)) /\ OkFrame(Last(s)) /\ Told(s) = Told(Front(s)) \o Done(Last(s))
<1> DEFINE n == Len(s)
           r == Front(s)
           x == Last(s)
<1>1. s \in Seq(Frame) /\ \A i \in 1..n : OkFrame(s[i])
  BY DEF OkStack
<1>2. /\ n \in Nat /\ n >= 1 /\ x = s[n] /\ x \in Frame /\ r \in Seq(Frame) /\ Len(r) = n - 1
      /\ \A i \in 1..n - 1 : r[i] = s[i]
  BY <1>1, TopFacts
<1> HIDE DEF r, x
<1>3. OkStack(r)
  BY <1>1, <1>2 DEF OkStack
<1>4. OkFrame(x)
  BY <1>1, <1>2
<1>5. s = Append(r, x)
  <2>1. /\ Append(r, x) \in Seq(Frame) /\ Len(Append(r, x)) = n /\ Append(r, x)[n] = x
        /\ \A i \in 1..n - 1 : Append(r, x)[i] = r[i]
    BY <1>2, AppendProperties
  <2>2. \A i \in 1..n : s[i] = Append(r, x)[i]
    <3> TAKE i \in 1..n
    <3>1. i = n \/ i \in 1..n - 1
      BY <1>2
    <3> QED
      BY <1>2, <2>1, <3>1
  <2> QED
    BY <1>1, <2>1, <2>2, SeqEqual
<1> QED
  BY <1>3, <1>4, <1>5, ToldAppend DEF r, x

\* What is known of an evaluation in work.
LEMMA EvalMatchesFacts ==
  ASSUME NEW e \in Eval, StackInv(e), EvalMatches(e), e.stack # <<>>
  PROVE  /\ ~NoKey(call.user) /\ e.flag = data[e.flag.key] /\ e.flag \in Catalog
         /\ OkStack(e.stack) /\ e.events = Told(e.stack) /\ OkFrame(Last(e.stack))
<1>1. /\ ~NoKey(call.user) /\ e.flag = data[e.flag.key]
      /\ \A i \in 1..Len(e.stack) : FrameMatches(e.stack[i])
      /\ e.events = Told(e.stack)
  BY DEF EvalMatches, Told
<1>2. OkStack(e.stack)
  <2>1. e.stack \in Seq(Frame) /\ \A i \in 1..Len(e.stack) : e.stack[i] \in Frame
    BY EvalFacts
  <2>2. \A i \in 1..Len(e.stack) : FrameInv(e.stack[i])
    BY DEF StackInv
  <2>3. \A i \in 1..Len(e.stack) : OkFrame(e.stack[i])
    BY <1>1, <2>1, <2>2 DEF OkFrame
  <2> QED
    BY <2>1, <2>3 DEF OkStack
<1>3. Len(e.stack) \in Nat /\ Len(e.stack) >= 1 /\ Last(e.stack) = e.stack[Len(e.stack)]
  BY EvalFacts, TopFacts
<1>4. Len(e.stack) \in 1..Len(e.stack)
  BY <1>3
<1> QED
  BY <1>1, <1>2, <1>3, <1>4, EvalFacts DEF OkStack

\* An evaluation whose stack matches does.
LEMMA StackMatches ==
  ASSUME NEW e2, ~NoKey(call.user), e2.flag = data[e2.flag.key], OkStack(e2.stack), e2.stack # <<>>,
         e2.events = Told(e2.stack)
  PROVE  EvalMatches(e2)
  BY DEF EvalMatches, OkStack, OkFrame, Told

\* The top frame is replaced by one that has led to the same events.
LEMMA ReplacedMatches ==
  ASSUME Quiet, NEW e \in Eval, NEW e2, StackInv(e), EvalMatches(e), e.stack # <<>>,
         NEW f, OkFrame(f), Done(f) = Done(Last(e.stack)),
         e2.flag = e.flag, e2.events = e.events, e2.stack = Append(Front(e.stack), f)
  PROVE  EvalMatches(e2)
<1>1. /\ ~NoKey(call.user) /\ e.flag = data[e.flag.key]
      /\ OkStack(e.stack) /\ e.events = Told(e.stack)
  BY EvalMatchesFacts
<1>2. OkStack(Front(e.stack)) /\ Told(e.stack) = Told(Front(e.stack)) \o Done(Last(e.stack))
  BY <1>1, ToldFront
<1>3. /\ OkStack(e2.stack) /\ e2.stack # <<>>
      /\ Told(e2.stack) = Told(Front(e.stack)) \o Done(f)
  BY <1>2, ToldAppend
<1> QED
  BY <1>1, <1>2, <1>3, StackMatches

\* A prerequisite is entered.
LEMMA PushedMatches ==
  ASSUME Quiet, NEW e \in Eval, NEW e2, StackInv(e), EvalMatches(e), e.stack # <<>>,
         NEW flag \in Catalog, flag = data[flag.key],
         e2.flag = e.flag, e2.events = e.events, e2.stack = Append(e.stack, Enter(flag))
  PROVE  EvalMatches(e2)
<1>1. /\ ~NoKey(call.user) /\ e.flag = data[e.flag.key]
      /\ OkStack(e.stack) /\ e.events = Told(e.stack)
  BY EvalMatchesFacts
<1>2. OkFrame(Enter(flag)) /\ Done(Enter(flag)) = <<>>
  BY EnterFacts, EnterMatches DEF OkFrame
<1>3. OkStack(e2.stack) /\ e2.stack # <<>> /\ Told(e2.stack) = Told(e.stack) \o <<>>
  BY <1>1, <1>2, ToldAppend
<1>4. Told(e.stack) \o <<>> = Told(e.stack)
  BY <1>1, PiecesType, ConcatEmptySeq
<1> QED
  BY <1>1, <1>3, <1>4, StackMatches

\* The last frame gives the evaluation its result.
LEMMA EndedMatches ==
  ASSUME Quiet, NEW e \in Eval, NEW e2, StackInv(e), EvalMatches(e), Len(e.stack) = 1, e.stack # <<>>,
         Last(e.stack).result # Null, e2.flag = e.flag, e2.events = e.events,
         e2.stack = <<>>, e2.result = Last(e.stack).result
  PROVE  EvalMatches(e2)
<1> DEFINE f == Last(e.stack)
           x == Trail(User)[e.flag.key]
<1>1. /\ ~NoKey(call.user) /\ e.flag = data[e.flag.key] /\ e.flag \in Catalog
      /\ OkStack(e.stack) /\ e.events = Told(e.stack) /\ OkFrame(f)
  BY EvalMatchesFacts
<1>2. f.flag = e.flag
  BY DEF StackInv, Last
<1>3. e2.result = Expected(User)[e.flag.key]
  BY <1>1, <1>2 DEF OkFrame, FrameMatches
<1>4. Done(f) = x /\ x \in Seq(Event)
  BY <1>1, <1>2, QuietFlag DEF Done
<1>5. Told(e.stack) = Told(Front(e.stack)) \o x
  BY <1>1, <1>4, ToldFront
<1>6. Told(Front(e.stack)) = <<>>
  <2>1. Front(e.stack) = <<>>
    BY EvalFacts, TopFacts, EmptySeq
  <2>2. Pieces(<<>>) = <<>>
    BY DEF Pieces
  <2> QED
    BY <2>1, <2>2, FlattenNothing DEF Told
<1>7. e2.events = x
  BY <1>1, <1>4, <1>5, <1>6, ConcatEmptySeq, SMTT(30)
<1> QED
  BY <1>1, <1>3, <1>7 DEF EvalMatches

\* A prerequisite is done: what it gives is what the frame below waits for.
LEMMA SatisfiedMeans ==
  ASSUME Quiet, NEW e \in Eval, StackInv(e), EvalMatches(e), Len(e.stack) > 1, Last(e.stack).result # Null
  PROVE  Satisfied(Last(e.stack), Awaited(e)) <=>
           Below(e).prereq \notin Unmet(Below(e).flag, Expected(User))
<1> DEFINE child == Last(e.stack)
           p == Awaited(e)
           f == Below(e).flag
<1>1. /\ Below(e).prereq \in 1..Len(f.prerequisites) /\ p = f.prerequisites[Below(e).prereq]
      /\ child.flag.key = p.key /\ p.variation \in Nat /\ Below(e) \in Frame
  BY BelowFacts
<1>2. e.stack # <<>>
  BY EvalFacts, EmptySeq
<1>3. /\ child.flag = data[child.flag.key] /\ child.result = Expected(User)[child.flag.key]
      /\ child.flag \in Catalog
  BY <1>2, EvalMatchesFacts, FrameFacts DEF OkFrame, FrameMatches
<1>4. child.result.variation = p.variation => ~IsError(child.result)
  BY <1>1, ErrorFacts, NullFacts DEF IsError
<1>5. DOMAIN f.prerequisites = 1..Len(f.prerequisites) /\ child.flag # Null
  BY <1>1, <1>3, FrameFacts, FlagFacts, NullFacts
<1> HIDE DEF child, p, f
<1>6. Satisfied(child, p) <=> child.flag.on /\ child.result.variation = p.variation
  BY <1>4 DEF Satisfied
<1>7. Below(e).prereq \in Unmet(f, Expected(User)) <=>
        ~(data[p.key] # Null /\ data[p.key].on /\ Expected(User)[p.key].variation = p.variation)
  BY <1>1, <1>5 DEF Unmet
<1> QED
  BY <1>1, <1>3, <1>5, <1>6, <1>7 DEF child, p, f

\* An event after events put together.
LEMMA AppendLater ==
  ASSUME NEW a \in Seq(Event), NEW b \in Seq(Event), NEW x \in Seq(Event), NEW event \in Event
  PROVE  Append((a \o b) \o x, event) = a \o (b \o Append(x, event))
<1>1. /\ <<event>> \in Seq(Event) /\ a \o b \in Seq(Event) /\ (a \o b) \o x \in Seq(Event)
      /\ x \o <<event>> \in Seq(Event)
  BY ConcatProperties
<1>2. Append((a \o b) \o x, event) = ((a \o b) \o x) \o <<event>> /\ Append(x, event) = x \o <<event>>
  BY <1>1, AppendIsConcat
<1>3. ((a \o b) \o x) \o <<event>> = (a \o b) \o (x \o <<event>>)
  BY <1>1, ConcatAssociative, SMTT(30)
<1>4. (a \o b) \o (x \o <<event>>) = a \o (b \o (x \o <<event>>))
  <2> DEFINE y == x \o <<event>>
  <2>1. y \in Seq(Event)
    BY <1>1
  <2> HIDE DEF y
  <2>2. (a \o b) \o y = a \o (b \o y)
    BY <2>1, ConcatAssociative, SMTT(30)
  <2> QED
    BY <2>2 DEF y
<1> QED
  BY <1>2, <1>3, <1>4

\* A prerequisite's result and event go to the flag below, as the reference says.
LEMMA PoppedMatches ==
  ASSUME Quiet, NEW e \in Eval, NEW e2, StackInv(e), EvalMatches(e), Len(e.stack) > 1,
         Last(e.stack).result # Null, e2.flag = e.flag,
         e2.stack = Append(Front(Front(e.stack)), Resumed(e)),
         e2.events = Append(e.events, ReturnEvent(e))
  PROVE  EvalMatches(e2)
<1> DEFINE child == Last(e.stack)
           parent == Below(e)
           f == parent.flag
           i == parent.prereq
           g == Resumed(e)
           r == Front(Front(e.stack))
           R == Expected(User)
           T == Trail(User)
           x == T[child.flag.key]
           event == ReturnEvent(e)
<1>1. /\ ~NoKey(call.user) /\ e.flag = data[e.flag.key] /\ OkStack(e.stack) /\ e.events = Told(e.stack)
      /\ OkFrame(child) /\ e.stack # <<>>
  BY EvalFacts, EmptySeq, EvalMatchesFacts
<1>2. Front(e.stack) # <<>> /\ Last(Front(e.stack)) = parent
  BY BelowTop DEF Below
<1>3. OkStack(Front(e.stack)) /\ Told(e.stack) = Told(Front(e.stack)) \o Done(child)
  BY <1>1, ToldFront
<1>4. OkStack(r) /\ OkFrame(parent) /\ Told(Front(e.stack)) = Told(r) \o Done(parent)
  BY <1>2, <1>3, ToldFront
<1>5. /\ parent.result = Null /\ parent.rule = 0 /\ i \in 1..Len(f.prerequisites)
      /\ child.flag.key = f.prerequisites[i].key /\ Awaited(e) = f.prerequisites[i]
  BY BelowFacts
<1>6. /\ child.flag = data[child.flag.key] /\ child.result = R[child.flag.key] /\ child.flag \in Catalog
      /\ child.flag # Null
  BY <1>1, FrameFacts, NullFacts DEF OkFrame, FrameMatches
<1>7. f \in Catalog /\ f = data[f.key] /\ OnItsWay(parent) /\ Len(f.prerequisites) \in Nat
  BY <1>4, <1>5, OnItsWayFacts DEF OkFrame, OnItsWay
<1>8. g \in Frame /\ FrameInv(g)
  BY ResumedFacts
<1>9. FrameMatches(g) /\ Done(g) = Events(f, i, R, T)
  <2>1. CASE i \in Unmet(f, R)
    <3>1. ~Satisfied(child, Awaited(e))
      BY <2>1, SatisfiedMeans
    <3>2. g = PrerequisiteFailed(parent, f.prerequisites[i].key)
      BY <1>5, <3>1 DEF Resumed
    <3> QED
      BY <1>7, <2>1, <3>2, FailedMatches
  <2>2. CASE i \notin Unmet(f, R)
    <3>1. Satisfied(child, Awaited(e))
      BY <2>2, SatisfiedMeans
    <3>2. g = [parent EXCEPT !.prereq = @ + 1]
      BY <3>1 DEF Resumed
    <3> QED
      BY <1>5, <1>7, <2>2, <3>2, MetMatches
  <2> QED
    BY <2>1, <2>2
<1>10. Done(parent) = Events(f, i - 1, R, T) /\ Done(child) = x
  BY <1>5, SMTT(30) DEF Done
<1>11. After(f.prerequisites[i].key, f.key, R, T) = Append(x, event)
  BY <1>5, <1>6, ZenonT(60) DEF After, ReturnEvent
<1>12. Events(f, i, R, T) = Events(f, i - 1, R, T) \o Append(x, event)
  <2> DEFINE n == i - 1
  <2>1. n \in Nat /\ n + 1 <= Len(f.prerequisites) /\ n + 1 = i
    BY <1>5, <1>7
  <2> HIDE DEF n
  <2>2. Events(f, n + 1, R, T) = Events(f, n, R, T) \o After(f.prerequisites[n + 1].key, f.key, R, T)
    BY <1>7, <2>1, EventsNext
  <2> QED
    BY <1>11, <2>1, <2>2, Zenon DEF n
<1>13. /\ x \in Seq(Event) /\ event \in Event /\ Told(r) \in Seq(Event) /\ Done(parent) \in Seq(Event)
  <2>1. x \in Seq(Event)
    BY <1>6, QuietFlag
  <2>2. event \in Event
    BY SatisfiedIsMet
  <2>3. Told(r) \in Seq(Event) /\ Done(parent) \in Seq(Event)
    BY <1>4, PiecesType, DoneType, SMTT(30) DEF OkFrame
  <2> QED
    BY <2>1, <2>2, <2>3
<1>14. e2.events = Append((Told(r) \o Done(parent)) \o x, event)
  BY <1>1, <1>3, <1>4, <1>10
<1>15. OkStack(e2.stack) /\ e2.stack # <<>> /\ Told(e2.stack) = Told(r) \o Done(g)
  BY <1>4, <1>8, <1>9, ToldAppend DEF OkFrame
<1> HIDE DEF x, event, r, g, parent, i, f, R, T
<1>16. e2.events = Told(r) \o (Done(parent) \o Append(x, event))
  BY <1>13, <1>14, AppendLater
<1>17. Done(g) = Done(parent) \o Append(x, event)
  BY <1>9, <1>10, <1>12
<1> QED
  BY <1>1, <1>15, <1>16, <1>17, StackMatches

-----------------------------------------------------------------------------
(* The work on an evaluation *)

\* What is known of the evaluation a step works on.
LEMMA WorkQuiet ==
  ASSUME Inv, Undisturbed, NEW k \in DOMAIN evals, stage = "evaluating", evals[k].stack # <<>>
  PROVE  /\ Quiet /\ evals[k] \in Eval /\ StackInv(evals[k]) /\ EvalMatches(evals[k])
         /\ evals[k].user = User
<1>1. /\ evals[k] \in Eval /\ StackInv(evals[k]) /\ EvalMatches(evals[k]) /\ evals[k].user = User
  BY DEF Inv, Types, EvalInv, Undisturbed
<1>2. ~NoKey(call.user)
  BY <1>1 DEF EvalMatches
<1>3. data \in Datasets /\ call.user # Null
  BY DEF Undisturbed
<1>4. call \in Calls /\ Stored
  BY DEF Inv, Types, Stored
<1> QED
  BY <1>1, <1>2, <1>3, <1>4 DEF Quiet

\* What is known of the frame a step works on.
LEMMA WorkingQuiet ==
  ASSUME Inv, Undisturbed, NEW k \in DOMAIN evals, Working(k)
  PROVE  /\ Quiet /\ evals[k] \in Eval /\ StackInv(evals[k]) /\ EvalMatches(evals[k])
         /\ evals[k].user = User /\ evals[k].stack # <<>>
         /\ OnItsWay(Top(k)) /\ Top(k) = Last(evals[k].stack)
<1>1. /\ evals[k] \in Eval /\ evals[k].stack # <<>> /\ Top(k) = Last(evals[k].stack)
      /\ Top(k).result = Null /\ stage = "evaluating"
  BY WorkingFacts DEF Working
<1>2. /\ Quiet /\ StackInv(evals[k]) /\ EvalMatches(evals[k]) /\ evals[k].user = User
  BY <1>1, WorkQuiet
<1>3. OkFrame(Top(k))
  BY <1>1, <1>2, EvalMatchesFacts
<1> QED
  BY <1>1, <1>2, <1>3 DEF OkFrame, OnItsWay

\* A step replaces the top frame by one that matches too.
LEMMA WorkedMatches ==
  ASSUME Inv, Undisturbed, NEW k \in DOMAIN evals, Working(k), Moves(k), NEW f,
         evals'[k].stack = Append(Front(evals[k].stack), f), evals'[k].events = evals[k].events,
         FrameMatches(f), Done(f) = Done(Top(k))
  PROVE  EvalMatches(evals'[k])
<1> DEFINE e == evals[k]
           e2 == evals'[k]
           S == Frame \cup {f}
<1>1. /\ Quiet /\ e \in Eval /\ StackInv(e) /\ EvalMatches(e) /\ e.stack # <<>> /\ Top(k) = Last(e.stack)
  BY WorkingQuiet
<1>2. e2 \in Eval /\ e2.flag = e.flag /\ StackInv(e2)
  BY DEF Moves, EvalInv
<1>3. e.stack \in Seq(Frame) /\ e2.stack \in Seq(Frame) /\ Len(e.stack) \in Nat /\ Len(e.stack) >= 1
  BY <1>1, <1>2, EvalFacts, TopFacts
<1> HIDE DEF e, e2
<1>4. e.stack \in Seq(S) /\ f \in S
  <2>1. \A i \in 1..Len(e.stack) : e.stack[i] \in S
    BY <1>3, ElementOfSeq
  <2> HIDE DEF S
  <2>2. e.stack \in Seq(S)
    BY <1>3, <2>1, SMTT(30)
  <2> QED
    BY <2>2 DEF S
<1>5. Len(e2.stack) = Len(e.stack) /\ e2.stack[Len(e.stack)] = f
  <2> HIDE DEF S
  <2> QED
    BY <1>1, <1>4, NewTop DEF e, e2
<1>6. Len(e.stack) \in 1..Len(e2.stack)
  BY <1>3, <1>5
<1>7. f \in Frame
  BY <1>3, <1>5, <1>6, ElementOfSeq
<1>8. FrameInv(f)
  BY <1>2, <1>5, <1>6 DEF StackInv
<1>9. OkFrame(f)
  BY <1>7, <1>8 DEF OkFrame
<1> QED
  BY <1>1, <1>2, <1>9, ReplacedMatches DEF e, e2

\* A step that replaces the top frame.
LEMMA ReplacedTop ==
  ASSUME NEW k \in DOMAIN evals, evals[k] \in Eval, NEW f,
         evals' = [evals EXCEPT ![k].stack = Append(Front(@), f)]
  PROVE  evals'[k].stack = Append(Front(evals[k].stack), f) /\ evals'[k].events = evals[k].events
<1> DEFINE e2 == [evals[k] EXCEPT !.stack = Append(Front(@), f)]
<1>1. evals'[k] = e2
  OBVIOUS
<1>2. e2.stack = Append(Front(evals[k].stack), f) /\ e2.events = evals[k].events
  BY DEF Eval
<1> QED
  BY <1>1, <1>2

\* A step that replaces the stack, and may yield.
LEMMA ReplacedTopSync ==
  ASSUME NEW k \in DOMAIN evals, evals[k] \in Eval, NEW b, NEW s,
         evals' = [evals EXCEPT ![k].sync = b, ![k].stack = s]
  PROVE  evals'[k].stack = s /\ evals'[k].events = evals[k].events
<1> DEFINE e2 == [evals[k] EXCEPT !.sync = b, !.stack = s]
<1>1. evals'[k] = e2
  OBVIOUS
<1>2. e2.stack = s /\ e2.events = evals[k].events
  BY DEF Eval
<1> QED
  BY <1>1, <1>2

\* Reading the next prerequisite goes by the reference.
LEMMA GetPrerequisiteMatches ==
  ASSUME Inv, Undisturbed, NEW k \in DOMAIN evals, NEW late \in BOOLEAN, GetPrerequisite(k, late)
  PROVE  Moves(k) /\ EvalMatches(evals'[k])
<1> DEFINE e == evals[k]
           top == Top(k)
           f == top.flag
           n == top.prereq
           key == Prereqs(top)[top.prereq].key
           flag == data[key]
           b == e.sync /\ ~late
           s == AfterAnswer(e.stack, key, flag)
<1>1. /\ Working(k) /\ top.rule = 0 /\ top.prereq <= Len(Prereqs(top))
      /\ evals' = [evals EXCEPT ![k].sync = b, ![k].stack = s]
      /\ Moves(k)
  BY GetPrerequisiteMoves DEF GetPrerequisite
<1>2. /\ Quiet /\ e \in Eval /\ StackInv(e) /\ EvalMatches(e) /\ e.stack # <<>>
      /\ OnItsWay(top) /\ top = Last(e.stack)
  BY <1>1, WorkingQuiet
<1>3. /\ f \in Catalog /\ f = data[f.key] /\ n \in 1..Len(f.prerequisites) /\ key = f.prerequisites[n].key
      /\ n - 1 \in Nat /\ Len(f.prerequisites) \in Nat /\ top.result = Null /\ key \in FlagKey
  <2>1. /\ f \in Catalog /\ f = data[f.key] /\ Prereqs(top) = f.prerequisites
        /\ n \in 1..Len(f.prerequisites) + 1 /\ Len(f.prerequisites) \in Nat /\ top.result = Null
    BY <1>2, OnItsWayFacts DEF OnItsWay
  <2>2. n \in 1..Len(f.prerequisites)
    BY <1>1, <2>1
  <2> QED
    BY <2>1, <2>2, FlagFacts
<1> HIDE DEF b, s
<1>4. evals'[k].stack = s /\ evals'[k].events = e.events /\ evals'[k].flag = e.flag
  <2>1. evals'[k].flag = e.flag
    BY <1>1 DEF Moves
  <2>2. evals' = [evals EXCEPT ![k].sync = b, ![k].stack = s]
    BY <1>1
  <2>3. evals'[k].stack = s /\ evals'[k].events = evals[k].events
    BY <1>2, <2>2, ReplacedTopSync
  <2> QED
    BY <2>1, <2>3
<1> HIDE DEF e, top, f, n, key, flag
<1>5. CASE flag = Null
  <2> DEFINE g == PrerequisiteFailed(top, key)
  <2>1. s = Append(Front(e.stack), g)
    BY <1>2, <1>5 DEF AfterAnswer, s
  <2>2. n \in Unmet(f, Expected(User))
    BY <1>3, <1>5, FlagFacts DEF Unmet, flag
  <2>3. FrameMatches(g) /\ Done(g) = Events(f, n, Expected(User), Trail(User))
    BY <1>2, <1>3, <2>2, FailedMatches DEF f, n
  <2> HIDE DEF g
  <2>4. Events(f, n, Expected(User), Trail(User)) = Events(f, n - 1, Expected(User), Trail(User))
    <3> DEFINE m == n - 1
               X == Events(f, m, Expected(User), Trail(User))
    <3>1. m \in Nat /\ m + 1 = n /\ m + 1 <= Len(f.prerequisites)
      BY <1>3
    <3> HIDE DEF m
    <3>2. /\ X \in Seq(Event)
          /\ Events(f, m + 1, Expected(User), Trail(User))
             = X \o After(f.prerequisites[m + 1].key, f.key, Expected(User), Trail(User))
      BY <1>2, <1>3, <3>1, EventsNext
    <3>3. After(key, f.key, Expected(User), Trail(User)) = <<>>
      BY <1>5 DEF After, flag
    <3> HIDE DEF X
    <3>4. X \o <<>> = X
      BY <3>2, ConcatEmptySeq
    <3> QED
      BY <1>3, <3>1, <3>2, <3>3, <3>4 DEF X, m
  <2>5. Done(top) = Events(f, n - 1, Expected(User), Trail(User))
    BY <1>3 DEF Done, f, n
  <2>6. EvalMatches(evals'[k])
    BY <1>1, <1>4, <2>1, <2>3, <2>4, <2>5, WorkedMatches DEF e, top
  <2> QED
    BY <1>1, <2>6
<1>6. CASE flag # Null
  <2>1. flag \in Catalog /\ flag.key = key /\ flag = data[flag.key]
    BY <1>2, <1>3, <1>6, QuietFacts, StoredFacts DEF flag
  <2>2. s = Append(e.stack, Enter(flag))
    BY <1>6 DEF AfterAnswer, s
  <2>3. EvalMatches(evals'[k])
    BY <1>2, <1>4, <2>1, <2>2, PushedMatches
  <2> QED
    BY <1>1, <2>3
<1> QED
  BY <1>5, <1>6

\* So does the test of the targets.
LEMMA TestTargetsMatches ==
  ASSUME Inv, Undisturbed, NEW k \in DOMAIN evals, TestTargets(k)
  PROVE  Moves(k) /\ EvalMatches(evals'[k])
<1> DEFINE e == evals[k]
           top == Top(k)
           target == TargetOf(top.flag, e.user)
           variation == top.flag.targets[target].variation
           result == GetVariation(top.flag, variation, <<"TARGET_MATCH">>)
           f == IF target = 0 THEN [top EXCEPT !.rule = 1] ELSE [top EXCEPT !.result = result]
<1>1. /\ Working(k) /\ top.rule = 0 /\ top.prereq > Len(Prereqs(top)) /\ Moves(k)
      /\ evals' = [evals EXCEPT ![k].stack = Append(Front(@), f)]
  BY TestTargetsMoves DEF TestTargets, Replace, Decide
<1>2. /\ Quiet /\ e \in Eval /\ e.user = User /\ OnItsWay(top)
  BY <1>1, WorkingQuiet
<1>3. top.flag \in Catalog /\ Prereqs(top) = top.flag.prerequisites
  BY <1>2, OnItsWayFacts
<1>4. target = TargetOf(top.flag, User)
  BY <1>2
<1> HIDE DEF top, target, e
<1>5. FrameMatches(f) /\ Done(f) = Done(top)
  <2>1. CASE target = 0
    <3>1. Targets(top.flag, User) = {}
      BY <1>3, <1>4, <2>1, TargetFacts
    <3>2. f = [top EXCEPT !.rule = 1]
      BY <2>1
    <3> HIDE DEF f
    <3> QED
      BY <1>1, <1>2, <3>1, <3>2, TargetsPass
  <2>2. CASE target # 0
    <3>1. result = Matched(top.flag, User)
      BY <1>3, <1>4, <2>2, TargetMatched
    <3>2. f = [top EXCEPT !.result = Matched(top.flag, User)]
      BY <2>2, <3>1
    <3> HIDE DEF f
    <3> QED
      BY <1>1, <1>2, <1>3, <3>2, DecidedMatches
  <2> QED
    BY <2>1, <2>2
<1> HIDE DEF f
<1>6. evals'[k].stack = Append(Front(evals[k].stack), f) /\ evals'[k].events = evals[k].events
  BY <1>1, <1>2, ReplacedTop DEF e
<1>7. EvalMatches(evals'[k])
  BY <1>1, <1>5, <1>6, WorkedMatches DEF top
<1> QED
  BY <1>1, <1>7

\* maybeNegate() swaps yes and no for a negated clause.
LEMMA NegateFacts ==
  ASSUME NEW c, c.negate \in BOOLEAN
  PROVE  /\ \A verdict \in {"yes", "no"} : MaybeNegate(c, verdict) \in {"yes", "no"}
         /\ MaybeNegate(c, "yes") = "yes" <=> ~c.negate
         /\ MaybeNegate(c, "no") = "yes" <=> c.negate
<1>1. CASE c.negate
  BY <1>1 DEF MaybeNegate, Verdict
<1>2. CASE ~c.negate
  BY <1>2 DEF MaybeNegate, Verdict
<1> QED
  BY <1>1, <1>2

\* The clause that evaluation k has come to.
LEMMA AtClauseFacts ==
  ASSUME Inv, Undisturbed, NEW k \in DOMAIN evals, AtClause(k)
  PROVE  LET top == Top(k)
         IN  /\ Working(k) /\ OnItsWay(top) /\ top.rule \in DOMAIN top.flag.rules
             /\ Rule(top).clauses # Null /\ top.clause \in DOMAIN Rule(top).clauses
             /\ Rule(top) \in Among(top.flag.rules) /\ top.value \in Nat /\ top.value >= 1
             /\ IsClause(Clause(top)) /\ IsList(Clause(top).values)
             /\ Clause(top).negate \in BOOLEAN /\ top.flag = data[top.flag.key]
             /\ top.flag \in Catalog /\ User \in Evaluated /\ IsProper(User)
             /\ ~RuleClauseHolds(Clause(top), User) => ~RuleHolds(Rule(top), User)
<1> DEFINE top == Top(k)
<1>1. /\ Working(k) /\ top.rule \in DOMAIN top.flag.rules
      /\ Rule(top).clauses # Null /\ top.clause \in DOMAIN Rule(top).clauses
  BY DEF AtClause
<1>2. Quiet /\ OnItsWay(top)
  BY <1>1, WorkingQuiet
<1> HIDE DEF top
<1>3. /\ top.flag \in Catalog /\ top.flag = data[top.flag.key] /\ Reached(top) /\ top.value \in Nat
  BY <1>2, OnItsWayFacts
<1>4. Rule(top) \in Among(top.flag.rules) /\ IsRule(Rule(top))
  BY <1>1, <1>3, FlagShape DEF Among, Rule
<1>5. IsClause(Clause(top))
  <2>1. Clause(top) \in Among(Rule(top).clauses)
    BY <1>1 DEF Among, Clause
  <2> QED
    BY <1>4, <2>1 DEF IsRule
<1>6. IsList(Clause(top).values) /\ Clause(top).negate \in BOOLEAN
  BY <1>5, ClauseShape
<1>7. ~RuleClauseHolds(Clause(top), User) => ~RuleHolds(Rule(top), User)
  BY <1>1 DEF RuleHolds, Clause
<1>8. top.value >= 1
  BY <1>3 DEF Reached
<1> QED
  BY <1>1, <1>2, <1>3, <1>4, <1>5, <1>6, <1>7, <1>8, QuietFacts DEF top

\* A verdict that says whether the clause holds.
LEMMA VerdictMatches ==
  ASSUME Inv, Undisturbed, NEW k \in DOMAIN evals, AtClause(k), NEW verdict \in {"yes", "no"},
         verdict = "yes" <=> RuleClauseHolds(Clause(Top(k)), User),
         NEW f, f = AfterVerdict(Top(k), verdict)
  PROVE  FrameMatches(f) /\ Done(f) = Done(Top(k))
<1>1. CASE verdict = "yes"
  BY <1>1, AtClauseFacts, ClausePasses
<1>2. CASE verdict = "no"
  <2>1. ~RuleHolds(Rule(Top(k)), User)
    BY <1>2, AtClauseFacts
  <2> QED
    BY <1>2, <2>1, AtClauseFacts, RuleFails
<1> QED
  BY <1>1, <1>2

\* The test of a clause goes by the reference, or throws where that may happen.
LEMMA TestClauseMatches ==
  ASSUME Inv, Undisturbed, NEW k \in DOMAIN evals, TestClause(k)
  PROVE  (Moves(k) /\ EvalMatches(evals'[k])) \/ (Throws /\ MayThrow(User))
<1> DEFINE e == evals[k]
           top == Top(k)
           clause == Clause(top)
           verdict == IF clause.op = "segmentMatch" THEN MaybeNegate(clause, "no")
                      ELSE ClauseMatchUserNoSegments(clause, e.user)
           f == AfterVerdict(top, verdict)
<1>1. /\ AtClause(k) /\ Working(k) /\ ~MoreSegments(k) /\ (Moves(k) \/ Throws)
      /\ verdict = "throws" => Throw(e.sync)
      /\ verdict # "throws" => stage' = stage /\ evals' = [evals EXCEPT ![k].stack = Append(Front(@), f)]
  BY TestClauseMoves DEF TestClause, AtClause, Replace
<1>2. Quiet /\ e \in Eval /\ e.user = User /\ OnItsWay(top)
  BY <1>1, WorkingQuiet
<1>3. /\ top.rule \in DOMAIN top.flag.rules /\ Rule(top).clauses # Null
      /\ top.clause \in DOMAIN Rule(top).clauses /\ Rule(top) \in Among(top.flag.rules)
      /\ IsClause(clause) /\ IsList(clause.values) /\ clause.negate \in BOOLEAN
      /\ top.flag = data[top.flag.key] /\ top.flag \in Catalog /\ IsProper(User)
      /\ top.value \in Nat /\ top.value >= 1
  BY <1>1, AtClauseFacts
<1>4. /\ verdict \in {"yes", "no", "throws"}
      /\ verdict = "yes" => RuleClauseHolds(clause, User)
      /\ verdict = "no" => ~RuleClauseHolds(clause, User)
      /\ verdict = "throws" => CanThrow(clause, User)
  <2>1. CASE clause.op = "segmentMatch"
    <3>1. verdict = MaybeNegate(clause, "no")
      BY <2>1
    <3>2. top.value \notin DOMAIN clause.values
      BY <1>1, <2>1 DEF MoreSegments
    <3>3. Reached(top)
      BY <1>2, OnItsWayFacts
    <3>4. \A v \in 1..top.value - 1 : ~Belongs(clause.values[v], User)
      BY <1>3, <2>1, <3>3 DEF Reached
    <3>5. DOMAIN clause.values = 1..Len(clause.values) /\ Len(clause.values) \in Nat
      BY <1>3, ListFacts
    <3> HIDE DEF verdict, clause, top
    <3>6. \A v \in DOMAIN clause.values : v \in 1..top.value - 1
      BY <1>3, <3>2, <3>5
    <3>7. ~ \E x \in Among(clause.values) : Belongs(x, User)
      BY <3>4, <3>6 DEF Among
    <3>8. RuleClauseHolds(clause, User) <=> clause.negate
      BY <1>3, <2>1, <3>7 DEF RuleClauseHolds
    <3> QED
      BY <1>3, <3>1, <3>8, NegateFacts
  <2>2. CASE clause.op # "segmentMatch"
    <3>1. verdict = ClauseMatchUserNoSegments(clause, User)
      BY <1>2, <2>2
    <3> HIDE DEF verdict, clause
    <3>2. RuleClauseHolds(clause, User) <=> ClauseHolds(clause, User)
      BY <2>2 DEF RuleClauseHolds
    <3>3. Tells(verdict, ClauseHolds(clause, User), CanThrow(clause, User))
      BY <1>3, <3>1, ClauseTells
    <3> QED
      BY <3>2, <3>3 DEF Tells, Verdicts
  <2> QED
    BY <2>1, <2>2
<1> HIDE DEF verdict
<1>5. CASE verdict = "throws"
  <2>1. Throws
    BY <1>1, <1>5 DEF Throw, Moves, Working, Throws
  <2>2. RulesMayThrow(top.flag, User)
    BY <1>3, <1>4, <1>5 DEF RulesMayThrow, Clause
  <2>3. top.flag # Null /\ top.flag.key \in FlagKey /\ FlagKey \subseteq DOMAIN data
    BY <1>2, <1>3, FlagFacts, NullFacts, QuietFacts
  <2>4. MayThrow(User)
    BY <1>3, <2>2, <2>3 DEF MayThrow
  <2> QED
    BY <2>1, <2>4
<1>6. CASE verdict # "throws"
  <2>1. Moves(k)
    BY <1>1, <1>6 DEF Throws
  <2>2. verdict \in {"yes", "no"} /\ (verdict = "yes" <=> RuleClauseHolds(clause, User))
    BY <1>4, <1>6
  <2>3. FrameMatches(f) /\ Done(f) = Done(top)
    BY <1>1, <2>2, VerdictMatches DEF top
  <2> HIDE DEF f
  <2>4. evals'[k].stack = Append(Front(evals[k].stack), f) /\ evals'[k].events = evals[k].events
    BY <1>1, <1>2, <1>6, ReplacedTop
  <2>5. EvalMatches(evals'[k])
    BY <1>1, <2>1, <2>3, <2>4, WorkedMatches DEF top
  <2> QED
    BY <2>1, <2>5
<1> QED
  BY <1>5, <1>6

\* So does the reading of a segment.
LEMMA GetSegmentMatches ==
  ASSUME Inv, Undisturbed, NEW k \in DOMAIN evals, NEW late \in BOOLEAN, GetSegment(k, late)
  PROVE  (Moves(k) /\ EvalMatches(evals'[k])) \/ (Throws /\ MayThrow(User))
<1> DEFINE e == evals[k]
           top == Top(k)
           clause == Clause(top)
           key == clause.values[top.value]
           segment == data[key]
           b == e.sync /\ ~late
           verdict == IF segment = Null THEN "no" ELSE SegmentMatchUser(segment, e.user)
           f == IF verdict = "no" THEN [top EXCEPT !.value = @ + 1]
                ELSE AfterVerdict(top, MaybeNegate(clause, "yes"))
           s == Append(Front(e.stack), f)
<1>1. /\ AtClause(k) /\ Working(k) /\ MoreSegments(k) /\ (Moves(k) \/ Throws)
      /\ verdict = "throws" => Throw(b)
      /\ verdict # "throws" =>
           stage' = stage /\ evals' = [evals EXCEPT ![k].sync = b, ![k].stack = Append(Front(@), f)]
  BY GetSegmentMoves, Zenon DEF GetSegment, AtClause
<1>2. Quiet /\ e \in Eval /\ e.user = User /\ OnItsWay(top)
  BY <1>1, WorkingQuiet
<1>3. /\ top.rule \in DOMAIN top.flag.rules /\ Rule(top).clauses # Null
      /\ top.clause \in DOMAIN Rule(top).clauses
      /\ IsClause(clause) /\ IsList(clause.values) /\ clause.negate \in BOOLEAN
  BY <1>1, AtClauseFacts
<1>4. clause.op = "segmentMatch" /\ top.value \in DOMAIN clause.values
  BY <1>1 DEF MoreSegments
<1> HIDE DEF b
<1>5. key \in SegmentKey /\ key \in Among(clause.values)
  <2> HIDE DEF clause
  <2>1. clause.values \in Seq(SegmentKey)
    BY <1>3, <1>4 DEF IsClause
  <2>2. clause.values[top.value] \in SegmentKey
    BY <1>4, <2>1
  <2> QED
    BY <1>4, <2>2 DEF Among
<1>6. /\ verdict \in {"yes", "no", "throws"}
      /\ verdict = "yes" => Belongs(key, User)
      /\ verdict = "no" => ~Belongs(key, User)
      /\ verdict = "throws" => MayThrow(User)
  <2> HIDE DEF key
  <2>1. CASE segment = Null
    BY <2>1 DEF Belongs
  <2>2. CASE segment # Null
    <3>1. IsSegment(segment) /\ IsProper(User) /\ key \in DOMAIN data
      BY <1>2, <1>5, <2>2, QuietFacts
    <3>2. verdict = SegmentMatchUser(segment, User)
      BY <1>2, <2>2
    <3> HIDE DEF verdict
    <3>3. Tells(verdict, InSegment(segment, User), RulesMayThrow(segment, User))
      <4> HIDE DEF segment
      <4> QED
        BY <3>1, <3>2, SegmentTells
    <3>4. RulesMayThrow(segment, User) => MayThrow(User)
      BY <2>2, <3>1 DEF MayThrow
    <3>5. Belongs(key, User) <=> InSegment(segment, User)
      BY <2>2 DEF Belongs
    <3> QED
      BY <3>3, <3>4, <3>5 DEF Tells, Verdicts
  <2> QED
    BY <2>1, <2>2
<1> HIDE DEF verdict, segment
<1>7. CASE verdict = "throws"
  <2>1. Throws
    BY <1>1, <1>7 DEF Throw, Moves, Working, Throws
  <2> QED
    BY <1>6, <1>7, <2>1
<1>8. CASE verdict # "throws"
  <2>1. Moves(k)
    BY <1>1, <1>8 DEF Throws
  <2>2. FrameMatches(f) /\ Done(f) = Done(top)
    <3>1. CASE verdict = "no"
      <4>1. ~Belongs(Clause(top).values[top.value], User) /\ Clause(top).op = "segmentMatch"
        BY <1>4, <1>6, <3>1
      <4>2. f = [top EXCEPT !.value = @ + 1]
        BY <3>1
      <4> HIDE DEF f, key, clause
      <4> QED
        BY <1>2, <1>3, <4>1, <4>2, SegmentPasses
    <3>2. CASE verdict = "yes"
      <4> DEFINE v == MaybeNegate(clause, "yes")
      <4>1. Belongs(key, User) /\ f = AfterVerdict(top, v)
        BY <1>6, <3>2
      <4> HIDE DEF f, clause, key
      <4>2. RuleClauseHolds(clause, User) <=> ~clause.negate
        BY <1>3, <1>4, <1>5, <4>1 DEF RuleClauseHolds
      <4>3. v \in {"yes", "no"} /\ (v = "yes" <=> RuleClauseHolds(clause, User))
        BY <1>3, <4>2, NegateFacts
      <4> HIDE DEF v
      <4> QED
        BY <1>1, <4>1, <4>3, VerdictMatches DEF clause, top
    <3> QED
      BY <1>6, <1>8, <3>1, <3>2
  <2> HIDE DEF f
  <2>3. evals' = [evals EXCEPT ![k].sync = b, ![k].stack = s]
    BY <1>1, <1>8
  <2> HIDE DEF s
  <2>4. evals'[k].stack = s /\ evals'[k].events = evals[k].events
    BY <1>2, <2>3, ReplacedTopSync
  <2>5. EvalMatches(evals'[k])
    BY <1>1, <2>1, <2>2, <2>4, WorkedMatches DEF top, s
  <2> QED
    BY <2>1, <2>5
<1> QED
  BY <1>7, <1>8, SMTT(30)

\* A rule whose clauses all hold, and the end of the rules, go by the reference.
LEMMA EndRuleMatches ==
  ASSUME Inv, Undisturbed, NEW k \in DOMAIN evals, EndRule(k)
  PROVE  Moves(k) /\ EvalMatches(evals'[k])
<1> DEFINE e == evals[k]
           top == Top(k)
           flag == top.flag
           rule == Rule(top)
           last == GetResultForVariationOrRollout(flag.fallthrough, e.user, flag, <<"FALLTHROUGH">>)
           hit == GetResultForVariationOrRollout(rule, e.user, flag, RuleReason(flag, rule))
           f == IF top.rule > Len(flag.rules) THEN [top EXCEPT !.result = last]
                ELSE IF rule.clauses = Null THEN AfterVerdict(top, "no")
                ELSE [top EXCEPT !.result = hit]
<1>1. /\ Working(k) /\ top.rule > 0 /\ ~AtClause(k) /\ Moves(k)
      /\ evals' = [evals EXCEPT ![k].stack = Append(Front(@), f)]
  BY EndRuleMoves DEF EndRule, Replace, Decide
<1>2. /\ Quiet /\ e \in Eval /\ e.user = User /\ OnItsWay(top)
  BY <1>1, WorkingQuiet
<1>3. ~(/\ top.rule \in DOMAIN flag.rules
        /\ rule.clauses # Null
        /\ top.clause \in DOMAIN rule.clauses)
  BY <1>1 DEF AtClause
<1>4. /\ last = GetResultForVariationOrRollout(flag.fallthrough, User, flag, <<"FALLTHROUGH">>)
      /\ hit = GetResultForVariationOrRollout(rule, User, flag, RuleReason(flag, rule))
  BY <1>2
<1>5. /\ flag \in Catalog /\ Reached(top) /\ Prereqs(top) = flag.prerequisites
      /\ top.rule \in Nat /\ top.clause \in Nat /\ User \in Evaluated
      /\ top.prereq > Len(flag.prerequisites)
  <2>1. /\ flag \in Catalog /\ Reached(top) /\ Prereqs(top) = flag.prerequisites
        /\ top.rule \in Nat /\ top.clause \in Nat /\ User \in Evaluated
    BY <1>2, OnItsWayFacts, QuietFacts
  <2> QED
    BY <1>1, <1>2, <2>1 DEF OnItsWay, FrameInv
<1>6. DOMAIN flag.rules = 1..Len(flag.rules) /\ Len(flag.rules) \in Nat
  BY <1>5, FlagFacts
<1>7. Targets(flag, User) = {} /\ \A i \in 1..top.rule - 1 : ~RuleHolds(flag.rules[i], User)
  BY <1>1, <1>5 DEF Reached, Targets
<1> HIDE DEF last, hit
<1>8. FrameMatches(f) /\ Done(f) = Done(top)
  <2>1. CASE top.rule > Len(flag.rules)
    <3>1. Rules(flag, User) = {}
      <4>1. \A i \in DOMAIN flag.rules : i \in 1..top.rule - 1
        BY <1>5, <1>6, <2>1
      <4> QED
        BY <1>7, <4>1 DEF Rules
    <3>2. last = Matched(flag, User)
      BY <1>4, <1>5, <1>7, <3>1, FallthroughMatched
    <3>3. f = [top EXCEPT !.result = Matched(top.flag, User)]
      BY <2>1, <3>2
    <3> HIDE DEF f, top
    <3> QED
      BY <1>2, <1>5, <3>3, DecidedMatches
  <2>2. CASE top.rule <= Len(flag.rules) /\ rule.clauses = Null
    <3>1. top.rule \in DOMAIN top.flag.rules /\ f = AfterVerdict(top, "no")
      BY <1>1, <1>5, <1>6, <2>2
    <3>2. ~RuleHolds(Rule(top), User)
      BY <2>2 DEF RuleHolds
    <3> HIDE DEF f, top
    <3> QED
      BY <1>2, <3>1, <3>2, RuleFails
  <2>3. CASE top.rule <= Len(flag.rules) /\ rule.clauses # Null
    <3>1. top.rule \in DOMAIN flag.rules /\ f = [top EXCEPT !.result = hit]
      BY <1>1, <1>5, <1>6, <2>3
    <3>2. IsList(rule.clauses)
      BY <1>5, <2>3, <3>1, FlagShape DEF IsRule, Rule
    <3>3. \A j \in 1..top.clause - 1 : RuleClauseHolds(rule.clauses[j], User)
      BY <1>5, <2>3, <3>1 DEF Reached
    <3>4. top.clause \notin DOMAIN rule.clauses /\ top.clause >= 1
      BY <1>3, <1>5, <2>3, <3>1 DEF Reached
    <3>5. DOMAIN rule.clauses = 1..Len(rule.clauses) /\ Len(rule.clauses) \in Nat
      BY <3>2, ListFacts
    <3> HIDE DEF f, rule
    <3>6. \A j \in DOMAIN rule.clauses : j \in 1..top.clause - 1
      BY <1>5, <3>4, <3>5
    <3>7. RuleHolds(rule, User)
      BY <2>3, <3>3, <3>6 DEF RuleHolds
    <3>8. rule = flag.rules[top.rule]
      BY DEF rule, Rule
    <3>9. hit = Matched(flag, User)
      BY <1>4, <1>5, <1>7, <3>1, <3>7, <3>8, RuleMatched
    <3>10. f = [top EXCEPT !.result = Matched(top.flag, User)]
      BY <3>1, <3>9
    <3> HIDE DEF top
    <3> QED
      BY <1>2, <1>5, <3>10, DecidedMatches
  <2> QED
    BY <1>5, <1>6, <2>1, <2>2, <2>3
<1> HIDE DEF f
<1>9. evals'[k].stack = Append(Front(evals[k].stack), f) /\ evals'[k].events = evals[k].events
  BY <1>1, <1>2, ReplacedTop DEF e
<1>10. EvalMatches(evals'[k])
  BY <1>1, <1>8, <1>9, WorkedMatches DEF top
<1> QED
  BY <1>1, <1>10

\* So does the return to the flag below, or to the caller.
LEMMA ReturnMatches ==
  ASSUME Inv, Undisturbed, NEW k \in DOMAIN evals, Return(k)
  PROVE  Moves(k) /\ EvalMatches(evals'[k])
<1> DEFINE e == evals[k]
           child == Last(e.stack)
<1>1. e.stack # <<>> /\ child.result # Null /\ stage = "evaluating" /\ Moves(k)
  BY ReturnMoves, Zenon DEF Return
<1>2. Quiet /\ e \in Eval /\ StackInv(e) /\ EvalMatches(e)
  BY <1>1, WorkQuiet
<1>3. CASE Len(e.stack) = 1
  <2> DEFINE e2 == [e EXCEPT !.stack = <<>>, !.result = child.result]
  <2>1. evals' = [evals EXCEPT ![k] = e2]
    BY <1>3 DEF Return
  <2>2. evals'[k] = e2
    BY <2>1
  <2>3. e2.flag = e.flag /\ e2.events = e.events /\ e2.stack = <<>> /\ e2.result = child.result
    <3> HIDE DEF child
    <3> QED
      BY <1>2 DEF Eval
  <2> HIDE DEF e2
  <2>4. EvalMatches(e2)
    BY <1>1, <1>2, <1>3, <2>3, EndedMatches
  <2> QED
    BY <1>1, <2>2, <2>4
<1>4. CASE Len(e.stack) > 1
  <2> DEFINE f == Resumed(e)
             event == ReturnEvent(e)
             e2 == [e EXCEPT !.stack = Append(Front(Front(@)), f), !.events = Append(@, event)]
  <2>1. evals' = [evals EXCEPT ![k] = e2]
    <3>1. Len(e.stack) # 1
      <4> DEFINE n == Len(e.stack)
      <4>1. n \in Nat /\ n > 1
        BY <1>2, <1>4, EvalFacts
      <4> HIDE DEF n
      <4>2. n # 1
        BY <4>1
      <4> QED
        BY <4>2 DEF n
    <3> QED
      BY <3>1, Zenon DEF Return, Resumed, ReturnEvent, Awaited, Below
  <2>2. evals'[k] = e2
    BY <2>1
  <2> HIDE DEF f, event
  <2>3. /\ e2.flag = e.flag /\ e2.stack = Append(Front(Front(e.stack)), f)
        /\ e2.events = Append(e.events, event)
    BY <1>2 DEF Eval
  <2> HIDE DEF e2
  <2>4. EvalMatches(e2)
    BY <1>1, <1>2, <1>4, <2>3, PoppedMatches DEF f, event
  <2> QED
    BY <1>1, <2>2, <2>4
<1>5. Len(e.stack) > 1 \/ Len(e.stack) = 1
  <2> DEFINE n == Len(e.stack)
  <2>1. n \in Nat /\ n >= 1
    BY <1>1, <1>2, EvalFacts, TopFacts
  <2> HIDE DEF n
  <2>2. n > 1 \/ n = 1
    BY <2>1
  <2> QED
    BY <2>2 DEF n
<1> QED
  BY <1>3, <1>4, <1>5

\* Every step of an evaluation goes by the reference, or throws where that may happen.
LEMMA WorkMatches ==
  ASSUME Inv, Undisturbed, NEW k \in DOMAIN evals, Work(k)
  PROVE  (Moves(k) /\ EvalMatches(evals'[k])) \/ (Throws /\ MayThrow(User))
<1>1. ASSUME NEW late \in BOOLEAN, GetPrerequisite(k, late) \/ GetSegment(k, late)
      PROVE  (Moves(k) /\ EvalMatches(evals'[k])) \/ (Throws /\ MayThrow(User))
  BY <1>1, GetPrerequisiteMatches, GetSegmentMatches
<1>2. CASE Return(k)
  BY <1>2, ReturnMatches
<1>3. CASE TestTargets(k)
  BY <1>3, TestTargetsMatches
<1>4. CASE TestClause(k)
  BY <1>4, TestClauseMatches
<1>5. CASE EndRule(k)
  BY <1>5, EndRuleMatches
<1> QED
  BY <1>1, <1>2, <1>3, <1>4, <1>5, Zenon DEF Work

-----------------------------------------------------------------------------
(* The invariant of the calls that no update overlaps *)

\* The reference stays the same while the store and the call do.
LEMMA SameReference ==
  ASSUME UNCHANGED <<data, call>>
  PROVE  /\ User' = User /\ Expected(User)' = Expected(User) /\ Trail(User)' = Trail(User)
         /\ ExpectedVariation' = ExpectedVariation /\ Wanted' = Wanted
         /\ MayThrow(User)' <=> MayThrow(User)
         /\ IsAll' <=> IsAll
         /\ \A f, result, p : NewEvalEvent(f, result, p)' = NewEvalEvent(f, result, p)
         /\ \A f, result : AddFlag(f, result)' = AddFlag(f, result)
<1>1. User' = User
  BY DEF User
<1>2. Expected(User)' = Expected(User)
  BY SMT DEF Expected, User, Unmet, Matched, RuleHolds, RuleClauseHolds, Belongs, ResultOf
<1>3. Trail(User)' = Trail(User)
  BY SMT DEF Expected, User, Unmet, Matched, RuleHolds, RuleClauseHolds, Belongs, ResultOf,
             Trail, Events, After, NewEvalEvent, Tested
<1>4. Wanted' = Wanted
  BY DEF Wanted, Present
<1>5. MayThrow(User)' <=> MayThrow(User)
  BY DEF MayThrow, User
<1>6. ExpectedVariation' = ExpectedVariation
  BY <1>2 DEF ExpectedVariation
<1>7. IsAll' <=> IsAll
  BY DEF IsAll
<1>8. \A f, result, p : NewEvalEvent(f, result, p)' = NewEvalEvent(f, result, p)
  BY DEF NewEvalEvent
<1>9. \A f, result : AddFlag(f, result)' = AddFlag(f, result)
  BY DEF AddFlag
<1> QED
  BY <1>1, <1>2, <1>3, <1>4, <1>5, <1>6, <1>7, <1>8, <1>9

\* What an evaluation is compared with does not depend on how far the call has come.
LEMMA SameEval ==
  ASSUME UNCHANGED <<data, call>>, NEW e PROVE EvalMatches(e)' <=> EvalMatches(e)
<1>1. User' = User /\ Expected(User)' = Expected(User) /\ Trail(User)' = Trail(User)
  BY SameReference
<1>2. \A rule : RuleHolds(rule, User)' <=> RuleHolds(rule, User)
  BY SMT DEF RuleHolds, RuleClauseHolds, Belongs, User
<1>3. \A c : RuleClauseHolds(c, User)' <=> RuleClauseHolds(c, User)
  BY SMT DEF RuleClauseHolds, Belongs, User
<1>4. \A c : Belongs(c, User)' <=> Belongs(c, User)
  BY SMT DEF Belongs, User
<1>5. \A f : Unmet(f, Expected(User))' = Unmet(f, Expected(User))
  BY <1>1, SMT DEF Unmet
<1>6. \A f, n : Events(f, n, Expected(User), Trail(User))' = Events(f, n, Expected(User), Trail(User))
  BY <1>1, SMT DEF Events, After, NewEvalEvent
<1>7. \A frame : Reached(frame)' <=> Reached(frame)
  BY <1>1, <1>2, <1>3, <1>4, <1>5, SMT DEF Reached
<1>8. \A frame : FrameMatches(frame)' <=> FrameMatches(frame)
  BY <1>1, <1>7, SMT DEF FrameMatches
<1>9. \A frame : Done(frame)' = Done(frame)
  BY <1>1, <1>6, SMT DEF Done
<1>10. \A s : Pieces(s)' = Pieces(s)
  BY <1>9, SMT DEF Pieces
<1> QED
  BY <1>1, <1>8, <1>10, SMT DEF EvalMatches

\* evaluate() starts as the reference says.
LEMMA StartedMatches ==
  ASSUME data \in Datasets, Stored, call \in Calls, call.user # Null,
         NEW f \in Catalog, f = data[f.key], NEW b \in BOOLEAN
  PROVE  EvalMatches(Evaluate(f, b))
<1> DEFINE e == Evaluate(f, b)
<1>1. /\ e.flag = f /\ e.events = <<>>
      /\ NoKey(call.user) => e.stack = <<>> /\ e.result = ErrorResult("USER_NOT_SPECIFIED")
      /\ ~NoKey(call.user) => e.stack = <<Enter(f)>>
  BY DEF Evaluate
<1> HIDE DEF e
<1>2. CASE NoKey(call.user)
  BY <1>1, <1>2 DEF EvalMatches, e
<1>3. CASE ~NoKey(call.user)
  <2>1. Quiet
    BY <1>3 DEF Quiet
  <2>2. OkFrame(Enter(f)) /\ Done(Enter(f)) = <<>>
    BY <2>1, EnterFacts, EnterMatches DEF OkFrame
  <2>3. OkStack(<<>>) /\ Told(<<>>) = <<>>
    <3>1. Pieces(<<>>) = <<>>
      BY DEF Pieces
    <3>2. Told(<<>>) = <<>>
      BY <3>1, FlattenNothing DEF Told
    <3> QED
      BY <3>2 DEF OkStack
  <2>4. Append(<<>>, Enter(f)) = <<Enter(f)>>
    <3> DEFINE x == Enter(f)
    <3> HIDE DEF x
    <3>1. Append(<<>>, x) = <<x>>
      OBVIOUS
    <3> QED
      BY <3>1 DEF x
  <2>5. /\ OkStack(<<Enter(f)>>) /\ <<Enter(f)>> # <<>>
        /\ Told(<<Enter(f)>>) = Told(<<>>) \o Done(Enter(f))
    BY <2>1, <2>2, <2>3, <2>4, ToldAppend
  <2>6. Told(<<Enter(f)>>) = <<>>
    <3>1. <<>> \o <<>> = <<>>
      OBVIOUS
    <3> QED
      BY <2>2, <2>3, <2>5, <3>1, Zenon
  <2> QED
    BY <1>1, <1>3, <2>5, <2>6, StackMatches DEF e
<1> QED
  BY <1>2, <1>3

\* What the store and the call keep from a step to the next.
Kept == UNCHANGED <<data, call>>

\* The evaluations go by the reference after the step, too.
LEMMA UndisturbedNext ==
  ASSUME Undisturbed, Kept,
         evals' # NoFlags => call.user # Null,
         stage' = "allowed" => ~IsAll /\ (call.ready \/ call.inited),
         stage' = "evaluating" => ~call.offline /\ call.user # Null,
         stage' = "evaluating" /\ ~IsAll => (call.ready \/ call.inited) /\ call.key # Null,
         stage' = "evaluating" /\ IsAll => DOMAIN evals' = Wanted,
         \A k \in DOMAIN evals' : EvalMatches(evals'[k])
  PROVE  Undisturbed'
<1>1. /\ data' = data /\ call' = call
  BY DEF Kept
<1>2. \A e : EvalMatches(e)' <=> EvalMatches(e)
  BY <1>1, SameEval
<1>3. (\A k \in DOMAIN evals : EvalMatches(evals[k]))'
  BY <1>2
<1>4. (IsAll' <=> IsAll) /\ Wanted' = Wanted
  BY <1>1, SameReference
<1>5. data' \in Datasets
  BY <1>1 DEF Undisturbed
<1>6. NoFlags' = NoFlags
  BY DEF NoFlags
<1> QED
  BY <1>1, <1>3, <1>4, <1>5, <1>6 DEF Undisturbed

\* A result of variation().
LEMMA VariationMatches ==
  ASSUME Kept, ~IsAll, outcome' \notin {Rejected, Crashed}, outcome' = ExpectedVariation,
         evals' # NoFlags =>
           /\ ~NoKey(call.user) => Front(sent') = Trail(User)[call.key]
           /\ Last(sent') = NewEvalEvent(data[call.key], outcome', Null)
  PROVE  MatchesReference'
<1>1. data' = data /\ call' = call
  BY DEF Kept
<1>2. /\ ExpectedVariation' = ExpectedVariation /\ (IsAll' <=> IsAll)
      /\ Trail(User)' = Trail(User)
      /\ \A f, result, p : NewEvalEvent(f, result, p)' = NewEvalEvent(f, result, p)
  BY <1>1, SameReference
<1>3. ~IsAll' /\ outcome' = ExpectedVariation' /\ NoFlags' = NoFlags
  BY <1>2 DEF NoFlags
<1>4. ~NoKey(call.user)' <=> ~NoKey(call.user)
  BY <1>1
<1>5. (evals # NoFlags => /\ ~NoKey(call.user) => Front(sent) = Trail(User)[call.key]
                          /\ Last(sent) = NewEvalEvent(data[call.key], outcome, Null))'
  BY <1>1, <1>2, <1>3, <1>4
<1> QED
  BY <1>3, <1>5 DEF MatchesReference

\* What allFlagsState() gives.
LEMMA AllFlagsMatches ==
  ASSUME Kept, IsAll, outcome' \notin {Rejected, Crashed}, sent' = <<>>,
         outcome'.valid = (~call.offline /\ call.user # Null),
         outcome'.valid /\ ~NoKey(call.user) =>
           outcome'.flags = [k \in Wanted |-> AddFlag(data[k], Expected(User)[k])]
  PROVE  MatchesReference'
<1>1. data' = data /\ call' = call
  BY DEF Kept
<1>2. /\ (IsAll' <=> IsAll) /\ Wanted' = Wanted /\ Expected(User)' = Expected(User)
      /\ \A f, result : AddFlag(f, result)' = AddFlag(f, result)
  BY <1>1, SameReference
<1>3. (sent = <<>> /\ outcome.valid = (~call.offline /\ call.user # Null))'
  BY <1>1
<1>4. (outcome.valid /\ ~NoKey(call.user) =>
         outcome.flags = [k \in Wanted |-> AddFlag(data[k], Expected(User)[k])])'
  <2>1. [k \in Wanted |-> AddFlag(data[k], Expected(User)[k])]'
        = [k \in Wanted |-> AddFlag(data[k], Expected(User)[k])]
    BY <1>1, <1>2
  <2> QED
    BY <1>1, <2>1
<1> QED
  BY <1>2, <1>3, <1>4 DEF MatchesReference

\* A call may fail where a clause may throw.
LEMMA FailureMatches ==
  ASSUME Kept, outcome' \in {Rejected, Crashed}, MayThrow(User) PROVE MatchesReference'
<1>1. MayThrow(User)'
  BY SameReference DEF Kept
<1> QED
  BY <1>1 DEF MatchesReference

\* Nothing is asked of a call that is not settled.
LEMMA UnsettledMatches == ASSUME stage' # "settled" PROVE MatchesReference'
  BY DEF MatchesReference

\* A result is no failure.
LEMMA OutcomeFacts ==
  \A x \in Result \cup AllState : x \notin {Rejected, Crashed}
  BY CallAssumption

-----------------------------------------------------------------------------
(* The calls that no update overlaps *)

\* variation() before the client is ready.
LEMMA EvaluateIfPossibleMatches ==
  ASSUME Inv, Undisturbed, NEW late \in BOOLEAN, EvaluateIfPossible(late)
  PROVE  Undisturbed' /\ MatchesReference'
<1> DEFINE result == ErrorResult("CLIENT_NOT_READY")
<1>1. stage = "called" /\ ~IsAll /\ Kept /\ evals = NoFlags /\ DOMAIN NoFlags = {}
  BY NoFlagsFacts DEF EvaluateIfPossible, Kept, Inv, StageInv
<1>2. CASE call.ready \/ call.inited
  <2>1. stage' = "allowed" /\ evals' = evals
    BY <1>2 DEF EvaluateIfPossible
  <2> QED
    BY <1>1, <1>2, <2>1, UndisturbedNext, UnsettledMatches
<1>3. CASE ~(call.ready \/ call.inited)
  <2>1. stage' = "settled" /\ evals' = evals /\ outcome' = result
    BY <1>3 DEF EvaluateIfPossible, Settle
  <2>2. ExpectedVariation = result
    BY <1>3 DEF ExpectedVariation
  <2>3. outcome' \notin {Rejected, Crashed}
    BY <2>1, ErrorFacts, OutcomeFacts
  <2>4. Undisturbed'
    BY <1>1, <2>1, UndisturbedNext
  <2> QED
    BY <1>1, <2>1, <2>2, <2>3, <2>4, VariationMatches
<1> QED
  BY <1>2, <1>3

\* The calls that are answered without an evaluation.
LEMMA RefuseMatches ==
  ASSUME Inv, Undisturbed, Refuse PROVE Undisturbed' /\ MatchesReference'
<1>1. /\ stage = "allowed" /\ ~IsAll /\ (call.ready \/ call.inited) /\ Kept
      /\ evals = NoFlags /\ DOMAIN NoFlags = {}
  BY NoFlagsFacts DEF Refuse, Kept, Inv, StageInv, Undisturbed
<1>2. /\ stage' = "settled" /\ evals' = evals /\ (call.offline \/ call.key = Null)
      /\ outcome' = ErrorResult(IF call.offline THEN "CLIENT_NOT_READY" ELSE "FLAG_NOT_FOUND")
  BY DEF Refuse, Settle
<1>3. outcome' = ExpectedVariation
  <2>1. CASE call.offline
    BY <1>1, <1>2, <2>1 DEF ExpectedVariation
  <2>2. CASE ~call.offline
    BY <1>1, <1>2, <2>2 DEF ExpectedVariation
  <2> QED
    BY <2>1, <2>2
<1>4. outcome' \notin {Rejected, Crashed}
  BY <1>2, ErrorFacts, OutcomeFacts
<1>5. Undisturbed'
  BY <1>1, <1>2, UndisturbedNext
<1> QED
  BY <1>1, <1>2, <1>3, <1>4, <1>5, VariationMatches

\* The flag that variation() read.
LEMMA GetFlagMatches ==
  ASSUME Inv, Undisturbed, NEW late \in BOOLEAN, GetFlag(late)
  PROVE  Undisturbed' /\ MatchesReference'
<1> DEFINE flag == data[call.key]
           b == sync /\ ~late
<1>1. /\ stage = "allowed" /\ ~IsAll /\ (call.ready \/ call.inited) /\ Kept
      /\ ~call.offline /\ call.key # Null /\ evals = NoFlags /\ DOMAIN NoFlags = {}
  BY NoFlagsFacts DEF GetFlag, Kept, Inv, StageInv, Undisturbed
<1>2. CASE flag = Null \/ call.user = Null
  <2> DEFINE kind == IF flag = Null THEN "FLAG_NOT_FOUND" ELSE "USER_NOT_SPECIFIED"
  <2>1. stage' = "settled" /\ evals' = evals /\ outcome' = ErrorResult(kind)
    <3>1. CASE flag = Null
      BY <3>1 DEF GetFlag, Settle
    <3>2. CASE flag # Null
      BY <1>2, <3>2 DEF GetFlag, Settle
    <3> QED
      BY <3>1, <3>2
  <2>2. ExpectedVariation = ErrorResult(kind)
    BY <1>1, <1>2 DEF ExpectedVariation
  <2>3. outcome' \notin {Rejected, Crashed}
    BY <2>1, ErrorFacts, OutcomeFacts
  <2>4. Undisturbed'
    BY <1>1, <2>1, UndisturbedNext
  <2> HIDE DEF kind
  <2> QED
    BY <1>1, <2>1, <2>2, <2>3, <2>4, VariationMatches
<1>3. CASE flag # Null /\ call.user # Null
  <2>1. stage' = "evaluating" /\ evals' = [k \in {call.key} |-> Evaluate(flag, b)]
    BY <1>3 DEF GetFlag
  <2>2. call \in Calls /\ call.key \in FlagKey /\ Stored /\ data \in Datasets /\ b \in BOOLEAN
    BY <1>1, CallFacts DEF Inv, Types, Stored, Undisturbed
  <2>3. flag \in Catalog /\ flag = data[flag.key]
    BY <1>3, <2>2, StoredFacts
  <2> HIDE DEF b
  <2>4. EvalMatches(Evaluate(flag, b))
    BY <1>3, <2>2, <2>3, StartedMatches
  <2>5. \A k \in DOMAIN evals' : EvalMatches(evals'[k])
    BY <2>1, <2>4
  <2>6. Undisturbed'
    BY <1>1, <1>3, <2>1, <2>5, UndisturbedNext
  <2> QED
    BY <2>1, <2>6, UnsettledMatches
<1> QED
  BY <1>2, <1>3

\* The flags that allFlagsState() read.
LEMMA GetAllMatches ==
  ASSUME Inv, Undisturbed, NEW late \in BOOLEAN, GetAll(late)
  PROVE  Undisturbed' /\ MatchesReference'
<1> DEFINE none == FlagsState(FALSE, NoFlags)
<1>1. stage = "called" /\ IsAll /\ Kept /\ evals = NoFlags /\ DOMAIN NoFlags = {} /\ sent = <<>>
  BY NoFlagsFacts DEF GetAll, Kept, Inv, StageInv
<1>2. CASE call.offline \/ call.user = Null
  <2>1. stage' = "settled" /\ evals' = evals /\ outcome' = none /\ sent' = sent \o <<>>
    BY <1>2 DEF GetAll, Settle
  <2>2. sent' = <<>>
    BY <1>1, <2>1
  <2>3. none \in AllState
    <3>1. NoFlags \in [{} -> FlagState] /\ {} \in SUBSET FlagKey
      BY DEF NoFlags
    <3>2. NoFlags \in UNION {[K -> FlagState] : K \in SUBSET FlagKey}
      BY <3>1
    <3> QED
      BY <3>2 DEF AllState, FlagsState
  <2>4. none.valid = FALSE
    BY DEF FlagsState
  <2> HIDE DEF none
  <2>5. outcome' \notin {Rejected, Crashed}
    BY <2>1, <2>3, OutcomeFacts
  <2>6. Undisturbed'
    BY <1>1, <2>1, UndisturbedNext
  <2>7. outcome'.valid = (~call.offline /\ call.user # Null) /\ ~outcome'.valid
    BY <1>2, <2>1, <2>4, Zenon
  <2> QED
    BY <1>1, <2>2, <2>5, <2>6, <2>7, AllFlagsMatches
<1>3. CASE ~(call.offline \/ call.user = Null)
  <2> DEFINE b == ~late
  <2>1. stage' = "evaluating" /\ evals' = [k \in Wanted |-> Evaluate(data[k], b)]
    BY <1>3 DEF GetAll
  <2>2. call \in Calls /\ Stored /\ data \in Datasets
    BY DEF Inv, Types, Stored, Undisturbed
  <2>3. b \in BOOLEAN
    <3>1. b \in {TRUE, FALSE}
      BY Zenon
    <3> QED
      BY <3>1
  <2> HIDE DEF b
  <2>4. ASSUME NEW k \in Wanted PROVE EvalMatches(Evaluate(data[k], b))
    <3>1. data[k] \in Catalog /\ data[k] = data[data[k].key]
      BY <2>2, <2>4, StoredFacts DEF Wanted, Present
    <3> QED
      BY <1>3, <2>2, <2>3, <3>1, StartedMatches
  <2>5. DOMAIN evals' = Wanted /\ \A k \in DOMAIN evals' : EvalMatches(evals'[k])
    BY <2>1, <2>4
  <2>6. Undisturbed'
    BY <1>1, <1>3, <2>1, <2>5, UndisturbedNext
  <2> QED
    BY <2>1, <2>6, UnsettledMatches
<1> QED
  BY <1>2, <1>3

\* The work on an evaluation.
LEMMA WorkKeeps ==
  ASSUME Inv, Undisturbed, NEW k \in DOMAIN evals, Work(k)
  PROVE  Undisturbed' /\ MatchesReference'
<1>1. stage = "evaluating"
  BY Zenon DEF Work, GetPrerequisite, GetSegment, AtClause, Return, TestTargets, TestClause,
               EndRule, Working
<1>2. /\ ~call.offline /\ call.user # Null /\ (~IsAll => (call.ready \/ call.inited) /\ call.key # Null)
      /\ (IsAll => DOMAIN evals = Wanted) /\ \A j \in DOMAIN evals : EvalMatches(evals[j])
  BY <1>1 DEF Undisturbed
<1>3. CASE Moves(k) /\ EvalMatches(evals'[k])
  <2>1. Kept /\ stage' = stage /\ evals' = [evals EXCEPT ![k] = evals'[k]]
    BY <1>3 DEF Moves, Kept
  <2>2. DOMAIN evals' = DOMAIN evals /\ \A j \in DOMAIN evals : j # k => evals'[j] = evals[j]
    BY <2>1
  <2>3. \A j \in DOMAIN evals' : EvalMatches(evals'[j])
    <3> SUFFICES ASSUME NEW j \in DOMAIN evals PROVE EvalMatches(evals'[j])
      BY <2>2
    <3>1. CASE j = k
      BY <1>3, <3>1
    <3>2. CASE j # k
      BY <1>2, <2>2, <3>2
    <3> QED
      BY <3>1, <3>2
  <2>4. Undisturbed'
    BY <1>1, <1>2, <2>1, <2>2, <2>3, UndisturbedNext
  <2> QED
    BY <1>1, <2>1, <2>4, UnsettledMatches
<1>4. CASE Throws /\ MayThrow(User)
  <2>1. Kept /\ evals' = evals /\ stage' = "settled" /\ outcome' \in {Rejected, Crashed}
    BY <1>4 DEF Throws, Kept
  <2>2. Undisturbed'
    BY <1>2, <2>1, UndisturbedNext
  <2> QED
    BY <1>4, <2>1, <2>2, FailureMatches
<1> QED
  BY <1>3, <1>4, WorkMatches

\* A sequence without the element that was put at its end.
LEMMA FrontOfAppend ==
  ASSUME NEW S, NEW s \in Seq(S), NEW x \in S
  PROVE  Front(Append(s, x)) = s /\ Last(Append(s, x)) = x
<1> DEFINE t == Append(s, x)
           n == Len(s)
<1>1. /\ t \in Seq(S) /\ Len(t) = n + 1 /\ t[n + 1] = x /\ n \in Nat
      /\ \A i \in 1..n : t[i] = s[i]
  BY AppendProperties
<1> HIDE DEF t
<1>2. t # <<>>
  BY <1>1, EmptySeq
<1>3. /\ Last(t) = t[Len(t)] /\ Front(t) \in Seq(S) /\ Len(Front(t)) = Len(t) - 1
      /\ \A i \in 1..Len(t) - 1 : Front(t)[i] = t[i]
  BY <1>1, <1>2, TopFacts
<1> HIDE DEF n
<1>4. Len(Front(t)) = n /\ \A i \in 1..n : Front(t)[i] = s[i]
  BY <1>1, <1>3
<1>5. Front(t) = s
  BY <1>3, <1>4, SeqEqual DEF n
<1> QED
  BY <1>1, <1>3, <1>5 DEF t

\* The answer of variation() and the events it sends.
LEMMA FinishVariationMatches ==
  ASSUME Inv, Undisturbed, FinishVariation PROVE Undisturbed' /\ MatchesReference'
<1> DEFINE e == evals[call.key]
           event == NewEvalEvent(e.flag, e.result, Null)
<1>1. /\ stage = "evaluating" /\ ~IsAll /\ e.result # Null /\ Kept
      /\ stage' = "settled" /\ outcome' = e.result /\ evals' = evals
      /\ sent' = sent \o Append(e.events, event)
  BY DEF FinishVariation, Settle, Kept
<1>2. /\ DOMAIN evals = {call.key} /\ sent = <<>> /\ ~call.offline /\ call.user # Null
      /\ (call.ready \/ call.inited) /\ call.key # Null
      /\ \A k \in DOMAIN evals : EvalMatches(evals[k])
  BY <1>1 DEF Inv, StageInv, Undisturbed
<1>3. e \in Eval /\ StackInv(e) /\ EvalMatches(e) /\ e.flag.key = call.key
  BY <1>2, SMTT(30) DEF Inv, Types, EvalInv
<1>4. /\ e.result \in Result /\ e.flag \in Catalog /\ e.events \in Seq(Event) /\ e.stack = <<>>
      /\ e.flag # Null
  BY <1>1, <1>3, EvalFacts, NullFacts DEF StackInv
<1>5. event \in Event
  BY <1>4, EventFacts
<1>6. /\ e.flag = data[call.key]
      /\ NoKey(call.user) => e.result = ErrorResult("USER_NOT_SPECIFIED")
      /\ ~NoKey(call.user) => /\ e.result = Expected(User)[call.key]
                              /\ e.events = Trail(User)[call.key]
  BY <1>3, <1>4, Zenon DEF EvalMatches
<1>7. event = NewEvalEvent(data[call.key], outcome', Null)
  BY <1>1, <1>6
<1> HIDE DEF event
<1>8. sent' = Append(e.events, event)
  <2>1. Append(e.events, event) \in Seq(Event)
    BY <1>4, <1>5, AppendProperties
  <2> QED
    BY <1>1, <1>2, <2>1, ConcatEmptySeq
<1>9. Front(sent') = e.events /\ Last(sent') = event
  BY <1>4, <1>5, <1>8, FrontOfAppend
<1>10. outcome' = ExpectedVariation
  BY <1>1, <1>2, <1>4, <1>6 DEF ExpectedVariation
<1>11. outcome' \notin {Rejected, Crashed}
  BY <1>1, <1>4, OutcomeFacts
<1>12. Undisturbed'
  BY <1>1, <1>2, UndisturbedNext
<1> HIDE DEF e
<1> QED
  BY <1>1, <1>6, <1>7, <1>9, <1>10, <1>11, <1>12, VariationMatches

\* The state that allFlagsState() gives.
LEMMA FinishAllFlagsMatches ==
  ASSUME Inv, Undisturbed, FinishAllFlags PROVE Undisturbed' /\ MatchesReference'
<1> DEFINE flags == [k \in DOMAIN evals |-> AddFlag(evals[k].flag, evals[k].result)]
           state == FlagsState(TRUE, flags)
<1>1. /\ stage = "evaluating" /\ IsAll /\ (\A k \in DOMAIN evals : evals[k].result # Null) /\ Kept
      /\ stage' = "settled" /\ outcome' = state /\ evals' = evals /\ sent' = sent \o <<>>
  BY DEF FinishAllFlags, Settle, Kept
<1>2. /\ sent = <<>> /\ ~call.offline /\ call.user # Null /\ DOMAIN evals = Wanted
      /\ \A k \in DOMAIN evals : EvalMatches(evals[k])
  BY <1>1 DEF Inv, StageInv, Undisturbed
<1>3. sent' = <<>>
  BY <1>1, <1>2
<1>4. ASSUME NEW k \in DOMAIN evals
      PROVE  /\ evals[k].flag = data[k] /\ evals[k].result \in Result /\ evals[k].flag \in Catalog
             /\ ~NoKey(call.user) => evals[k].result = Expected(User)[k]
  <2>1. evals[k] \in Eval /\ StackInv(evals[k]) /\ EvalMatches(evals[k]) /\ evals[k].flag.key = k
    BY <1>2 DEF Inv, Types, EvalInv
  <2>2. evals[k].stack = <<>> /\ evals[k].result \in Result /\ evals[k].flag \in Catalog
    BY <1>1, <2>1, EvalFacts DEF StackInv
  <2> QED
    BY <2>1, <2>2, Zenon DEF EvalMatches
<1>5. state \in AllState
  <2>1. \A k \in DOMAIN evals : AddFlag(evals[k].flag, evals[k].result) \in FlagState
    <3> TAKE k \in DOMAIN evals
    <3> QED
      BY <1>4, FlagFacts DEF AddFlag, FlagState, Result
  <2>2. flags \in [DOMAIN evals -> FlagState] /\ DOMAIN evals \in SUBSET FlagKey
    BY <2>1 DEF Inv, Types
  <2> HIDE DEF flags
  <2>3. flags \in UNION {[K -> FlagState] : K \in SUBSET FlagKey}
    BY <2>2
  <2> QED
    BY <2>3 DEF AllState, FlagsState
<1>6. state.valid = TRUE /\ state.flags = flags
  BY DEF FlagsState
<1>7. ~NoKey(call.user) => flags = [k \in Wanted |-> AddFlag(data[k], Expected(User)[k])]
  BY <1>2, <1>4
<1> HIDE DEF state, flags
<1>8. outcome' \notin {Rejected, Crashed}
  BY <1>1, <1>5, OutcomeFacts
<1>9. outcome'.valid = (~call.offline /\ call.user # Null)
  BY <1>1, <1>2, <1>6, Zenon
<1>10. outcome'.valid /\ ~NoKey(call.user) =>
         outcome'.flags = [k \in Wanted |-> AddFlag(data[k], Expected(User)[k])]
  BY <1>1, <1>6, <1>7
<1>11. Undisturbed'
  BY <1>1, <1>2, UndisturbedNext
<1> QED
  BY <1>1, <1>3, <1>8, <1>9, <1>10, <1>11, AllFlagsMatches

\* A step that leaves everything as it is.
LEMMA StutterMatches ==
  ASSUME Undisturbed, MatchesReference, UNCHANGED vars PROVE Undisturbed' /\ MatchesReference'
<1>1. /\ Kept /\ stage' = stage /\ evals' = evals /\ sent' = sent /\ outcome' = outcome
      /\ changes' = changes /\ data' = data /\ call' = call
  BY DEF vars, Kept
<1>2. Undisturbed'
  BY <1>1, UndisturbedNext DEF Undisturbed
<1>3. /\ User' = User /\ Expected(User)' = Expected(User) /\ Trail(User)' = Trail(User)
      /\ ExpectedVariation' = ExpectedVariation /\ Wanted' = Wanted
      /\ MayThrow(User)' <=> MayThrow(User)
      /\ \A f, result, p : NewEvalEvent(f, result, p)' = NewEvalEvent(f, result, p)
      /\ \A f, result : AddFlag(f, result)' = AddFlag(f, result)
  BY <1>1, SameReference
<1>4. MatchesReference'
  <2>1. CASE stage # "settled" \/ changes # 0
    BY <1>1, <2>1 DEF MatchesReference
  <2>2. CASE stage = "settled" /\ changes = 0 /\ outcome \in {Rejected, Crashed}
    <3>1. MayThrow(User)
      BY <2>2 DEF MatchesReference
    <3> QED
      BY <1>1, <2>2, <3>1, FailureMatches
  <2>3. CASE stage = "settled" /\ changes = 0 /\ outcome \notin {Rejected, Crashed} /\ ~IsAll
    <3>1. /\ outcome = ExpectedVariation
          /\ evals # NoFlags =>
               /\ ~NoKey(call.user) => Front(sent) = Trail(User)[call.key]
               /\ Last(sent) = NewEvalEvent(data[call.key], outcome, Null)
      BY <2>3 DEF MatchesReference
    <3> QED
      BY <1>1, <2>3, <3>1, VariationMatches
  <2>4. CASE stage = "settled" /\ changes = 0 /\ outcome \notin {Rejected, Crashed} /\ IsAll
    <3>1. /\ sent = <<>>
          /\ outcome.valid = (~call.offline /\ call.user # Null)
          /\ outcome.valid /\ ~NoKey(call.user) =>
               outcome.flags = [k \in Wanted |-> AddFlag(data[k], Expected(User)[k])]
      BY <2>4 DEF MatchesReference
    <3> QED
      BY <1>1, <2>4, <3>1, AllFlagsMatches
  <2> QED
    BY <2>1, <2>2, <2>3, <2>4
<1> QED
  BY <1>2, <1>4

\* The invariant holds when a call is made.
LEMMA InitMatching == Init => Matching
<1> SUFFICES ASSUME Init PROVE Matching
  OBVIOUS
<1>1. data \in Datasets /\ stage = "called" /\ evals = NoFlags
  BY DEF Init
<1> QED
  BY <1>1, NoFlagsFacts DEF Matching, Undisturbed, MatchesReference

\* Every step keeps it: an update ends what it asks, and every other step goes by the reference.
LEMMA NextMatching == Inv /\ Matching /\ [Next]_vars => Matching'
<1> SUFFICES ASSUME Inv, Matching, [Next]_vars, changes' = 0 PROVE Undisturbed' /\ MatchesReference'
  BY DEF Matching
<1>1. ASSUME NEW c \in Changes, Change(c) PROVE FALSE
  BY <1>1 DEF Change, Inv, Types
<1>2. CASE UNCHANGED vars
  <2>1. changes = 0
    BY <1>2 DEF vars
  <2> QED
    BY <1>2, <2>1, StutterMatches DEF Matching
<1>3. ASSUME Proceed PROVE Undisturbed' /\ MatchesReference'
  <2>1. changes' = changes
    BY <1>3, ZenonT(30) DEF Proceed, EvaluateIfPossible, GetFlag, GetAll, Refuse, FinishVariation,
       FinishAllFlags, Work, GetPrerequisite, GetSegment, Return, TestTargets, TestClause, EndRule
  <2>2. Undisturbed
    BY <2>1 DEF Matching
  <2>3. ASSUME NEW late \in BOOLEAN, EvaluateIfPossible(late) \/ GetFlag(late) \/ GetAll(late)
        PROVE  Undisturbed' /\ MatchesReference'
    BY <2>2, <2>3, EvaluateIfPossibleMatches, GetFlagMatches, GetAllMatches
  <2> QED
    BY <1>3, <2>2, <2>3, RefuseMatches, WorkKeeps, FinishVariationMatches, FinishAllFlagsMatches
    DEF Proceed
<1> QED
  BY <1>1, <1>2, <1>3 DEF Next

-----------------------------------------------------------------------------
(* The theorem *)

\* A call of variation() or allFlagsState() (index.js) that no update overlaps gives the
\* result or the flags' state that the definition of the flags, their segments and the
\* user give (evaluate_flag.js), and sends the events of the prerequisites that were
\* tested, in order, and then the flag's own; it fails only where a version operator may
\* meet a value that is no string.  For any flags without a cycle of prerequisites, any
\* segments and users, and any interleaving of the store's answers.
THEOREM CallsMatchReference == Spec => []MatchesReference
<1>1. Inv /\ (changes = 0 => MatchesReference) => MatchesReference
  BY DEF MatchesReference
<1>2. Matching => (changes = 0 => MatchesReference)
  BY DEF Matching
<1>3. Spec => []Inv
  BY SpecInv
<1>4. Spec => []Matching
  BY <1>3, InitMatching, NextMatching, PTL DEF Spec
<1> QED
  BY <1>1, <1>2, <1>3, <1>4, PTL
=============================================================================
