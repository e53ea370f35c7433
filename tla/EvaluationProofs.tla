--------------------------- MODULE EvaluationProofs ---------------------------
(* An evaluation never gets deeper than there are flags, and its result follows from
   the flags' versions that its events name, for any flags without a cycle of
   prerequisites and any changes between the reads.                          *)
EXTENDS EvaluationReference, FiniteSetTheorems, SequenceTheorems, WellFoundedInduction, TLAPS

\* The order in which prerequisites lead from flag to flag.
Ranks(rank) ==
  /\ rank \in [FlagKey -> 1..Cardinality(FlagKey)]
  /\ \A f \in Catalog : \A i \in DOMAIN f.prerequisites :
       rank[f.key] < rank[f.prerequisites[i].key]
Rank == CHOOSE rank \in [FlagKey -> 1..Cardinality(FlagKey)] : Ranks(rank)

Users == {SanitizedUser(c.user) : c \in Calls}
Frame == [flag : Catalog, prereq : Nat, rule : Nat, clause : Nat, value : Nat,
          result : Result \cup {Null}]
Event == [key : FlagKey \cup {Null}, version : Nat \cup {Null}, variation : Nat \cup {Null},
          prereqOf : FlagKey \cup {Null}, trackEvents : BOOLEAN, reason : Reason \cup {Null}]
Eval == [flag : Catalog, user : Users, stack : Seq(Frame), events : Seq(Event),
         result : Result \cup {Null}, sync : BOOLEAN]

Types ==
  /\ DOMAIN data = FlagKey \cup SegmentKey /\ \A k \in FlagKey : data[k] \in ConfigOf(k)
  /\ call \in Calls
  /\ stage \in {"called", "allowed", "evaluating", "settled"}
  /\ sync \in BOOLEAN
  /\ evals \in [DOMAIN evals -> Eval] /\ DOMAIN evals \subseteq FlagKey
  /\ \A k \in DOMAIN evals : evals[k].flag.key = k /\ evals[k].user = User
  /\ sent \in Seq(Event)
  /\ outcome = Pending <=> stage # "settled"
  /\ changes \in 0..MaxChanges

\* Where an evaluation stands with the flag of a frame.
FrameInv(frame) ==
  /\ FrameOK(frame)
  /\ frame.rule > 0 => frame.prereq > Len(Prereqs(frame))
  /\ frame.result = Null => frame.flag.on

\* A frame but the last waits for the prerequisite above it, which ranks higher.
StackInv(e) ==
  /\ e.stack = <<>> <=> e.result # Null
  /\ e.stack # <<>> => e.stack[1].flag = e.flag
  /\ \A i \in 1..Len(e.stack) : FrameInv(e.stack[i]) /\ i <= Rank[e.stack[i].flag.key]
  /\ \A i \in 1..Len(e.stack) - 1 :
       /\ e.stack[i].result = Null /\ e.stack[i].rule = 0
       /\ e.stack[i].prereq <= Len(Prereqs(e.stack[i]))
       /\ e.stack[i + 1].flag.key = Prereqs(e.stack[i])[e.stack[i].prereq].key
       /\ Rank[e.flag.key] < Rank[e.stack[i + 1].flag.key]

\* The events of the flag's own prerequisites; the first n were looked at and the
\* first m have held.
OwnEvents(e) == {p \in 1..Len(e.events) : e.events[p].prereqOf = e.flag.key}
Met(event, prereq) == event.variation = prereq.variation /\ The(event.key, event.version).on
Enumerates(at, n, positions) ==
  /\ at \in [1..n -> positions]
  /\ \A i, j \in 1..n : i < j => at[i] < at[j]
  /\ \A p \in positions : \E i \in 1..n : p = at[i]
Looked(e, n, m) ==
  \E at \in [1..n -> OwnEvents(e)] :
    /\ Enumerates(at, n, OwnEvents(e))
    /\ \A i \in 1..n : /\ e.events[at[i]].key = e.flag.prerequisites[i].key
                       /\ Met(e.events[at[i]], e.flag.prerequisites[i]) <=> i <= m

Decided(result) ==
  result.reason[1] \in {"TARGET_MATCH", "RULE_MATCH", "FALLTHROUGH"} \/ IsError(result)
Failed(flag, i) == GetOffResult(flag, <<"PREREQUISITE_FAILED", flag.prerequisites[i].key>>)
Explains(e, result) ==
  /\ ~e.flag.on => e.events = <<>> /\ result = GetOffResult(e.flag, <<"OFF">>)
  /\ e.flag.on =>
       \E n, m \in 0..Len(e.flag.prerequisites) :
         /\ m = n \/ m = n - 1
         /\ Looked(e, n, m)
         /\ m < Len(e.flag.prerequisites) => result = Failed(e.flag, m + 1)
         /\ m = Len(e.flag.prerequisites) => Decided(result)

StoryInv(e) ==
  /\ e.stack = <<>> => Explains(e, e.result)
  /\ e.stack # <<>> /\ e.stack[1].result # Null => Explains(e, e.stack[1].result)
  /\ e.stack # <<>> /\ e.stack[1].result = Null =>
       Looked(e, e.stack[1].prereq - 1, e.stack[1].prereq - 1)

EvalInv(e) == StackInv(e) /\ (~NoKey(call.user) => StoryInv(e))

StageInv ==
  /\ stage \in {"called", "allowed"} => evals = NoFlags
  /\ stage = "evaluating" /\ ~IsAll => DOMAIN evals = {call.key}
  /\ stage # "settled" => sent = <<>>

SettledInv ==
  stage = "settled" /\ evals # NoFlags /\ ~IsAll /\ sent # <<>> =>
    /\ DOMAIN evals = {call.key} /\ evals[call.key].result # Null
    /\ outcome = evals[call.key].result
    /\ sent = Append(evals[call.key].events,
                     NewEvalEvent(evals[call.key].flag, evals[call.key].result, Null))

Inv == Types /\ (\A k \in DOMAIN evals : EvalInv(evals[k])) /\ StageInv /\ SettledInv

-----------------------------------------------------------------------------
(* The configurations and the results *)

LEMMA FlagFacts ==
  ASSUME NEW f \in Catalog
  PROVE  /\ f.key \in FlagKey /\ f.version \in Nat /\ f.variations \in Nat
         /\ f.on \in BOOLEAN /\ f.trackEvents \in BOOLEAN
         /\ Len(f.prerequisites) \in Nat /\ DOMAIN f.prerequisites = 1..Len(f.prerequisites)
         /\ \A i \in 1..Len(f.prerequisites) :
              f.prerequisites[i].key \in FlagKey /\ f.prerequisites[i].variation \in Nat
         /\ Len(f.rules) \in Nat /\ DOMAIN f.rules = 1..Len(f.rules)
<1>1. /\ f.key \in FlagKey /\ {f.version, f.variations} \subseteq Nat
      /\ {f.on, f.trackEvents} \subseteq BOOLEAN
      /\ f.prerequisites \in Seq([key : FlagKey, variation : Nat])
      /\ f.rules \in Seq(ToSet(f.rules))
  BY CatalogAssumption
<1>2. /\ Len(f.prerequisites) \in Nat /\ DOMAIN f.prerequisites = 1..Len(f.prerequisites)
      /\ \A i \in 1..Len(f.prerequisites) : f.prerequisites[i] \in [key : FlagKey, variation : Nat]
  <2> DEFINE P == [key : FlagKey, variation : Nat]
  <2>1. f.prerequisites \in Seq(P)
    BY <1>1
  <2> HIDE DEF P
  <2>2. /\ Len(f.prerequisites) \in Nat /\ DOMAIN f.prerequisites = 1..Len(f.prerequisites)
        /\ \A i \in 1..Len(f.prerequisites) : f.prerequisites[i] \in P
    BY <2>1
  <2> QED
    BY <2>2 DEF P
<1>3. Len(f.rules) \in Nat /\ DOMAIN f.rules = 1..Len(f.rules)
  BY <1>1
<1> QED
  BY <1>1, <1>2, <1>3

LEMMA NullFacts ==
  /\ Null \notin Catalog /\ Null \notin Nat /\ Null \notin Result
  /\ \A f, g \in Catalog : f.key = g.key /\ f.version = g.version => f = g
  BY CatalogAssumption

LEMMA RankFacts ==
  /\ Cardinality(FlagKey) \in Nat
  /\ \A k \in FlagKey : Rank[k] \in 1..Cardinality(FlagKey)
  /\ \A f \in Catalog : \A i \in 1..Len(f.prerequisites) :
       Rank[f.key] < Rank[f.prerequisites[i].key]
<1>1. Rank \in [FlagKey -> 1..Cardinality(FlagKey)] /\ Ranks(Rank)
  BY AcyclicAssumption DEF Rank, Ranks
<1>2. Cardinality(FlagKey) \in Nat
  BY CatalogAssumption, FS_CardinalityType
<1> QED
  BY <1>1, <1>2, FlagFacts DEF Ranks

LEMMA TheFacts == ASSUME NEW f \in Catalog PROVE The(f.key, f.version) = f
<1> DEFINE found == The(f.key, f.version)
<1>1. found \in Catalog /\ found.key = f.key /\ found.version = f.version
  BY DEF The
<1> QED
  BY <1>1, NullFacts

LEMMA NatMin ==
  ASSUME NEW T, T \subseteq Nat, T # {} PROVE \E m \in T : \A k \in T : m <= k
<1> DEFINE R == {ss \in Nat \X Nat : ss[1] < ss[2]}
<1>1. IsWellFoundedOn(OpToRel(<,Nat), Nat)
  BY NatLessThanWellFounded
<1>2. OpToRel(<,Nat) = R
  BY DEF OpToRel
<1>3. \E m \in T : \A k \in T : ~ (<<k, m>> \in R)
  BY <1>1, <1>2, WFMin, ZenonT(30)
<1>4. \A m, k \in T : k < m => <<k, m>> \in R
  BY SMT
<1>5. PICK m \in T : \A k \in T : ~ (<<k, m>> \in R)
  BY <1>3
<1>6. \A k \in T : ~ (k < m)
  BY <1>4, <1>5
<1> HIDE DEF R
<1> QED
  BY <1>6

LEMMA RuleReasonFacts ==
  ASSUME NEW f \in Catalog, NEW rule
  PROVE  /\ RuleReason(f, rule) \in Reason /\ RuleReason(f, rule)[1] = "RULE_MATCH"
<1> DEFINE I == {i \in 1..Len(f.rules) : f.rules[i].id = rule.id}
           index == SelectInSeq(f.rules, LAMBDA r : r.id = rule.id)
<1>1. index = IF I # {} THEN Min(I) ELSE 0
  BY DEF SelectInSeq
<1>2. I \subseteq Nat
  BY SMT
<1>3. I # {} => Min(I) \in I
  <2> HIDE DEF I
  <2> QED
    BY <1>2, NatMin DEF Min
<1>4. index \in Nat
  BY <1>1, <1>2, <1>3
<1>5. RuleReason(f, rule) = <<"RULE_MATCH", index>>
  BY DEF RuleReason
<1> QED
  BY <1>4, <1>5 DEF Reason

\* A result of flag for the given reason, or the error that says it has none.
Gives(result, flag, reason) ==
  /\ result \in Result /\ result.variation \in 0..(flag.variations - 1) \cup {Null}
  /\ result.reason = reason \/ IsError(result)
  /\ Len(result.reason) \in 1..2

LEMMA ErrorFacts ==
  ASSUME NEW kind \in {"CLIENT_NOT_READY", "FLAG_NOT_FOUND", "USER_NOT_SPECIFIED", "MALFORMED_FLAG"}
  PROVE  /\ ErrorResult(kind) \in Result /\ ErrorResult(kind).variation = Null
         /\ Len(ErrorResult(kind).reason) = 2
<1>1. <<"ERROR", kind>> \in Reason
  BY DEF Reason
<1> QED
  BY <1>1 DEF ErrorResult, Result

LEMMA ReasonLength == \A reason \in Reason : Len(reason) \in 1..2
  BY DEF Reason

LEMMA VariationFacts ==
  ASSUME NEW f \in Catalog, NEW index, NEW reason \in Reason
  PROVE  Gives(GetVariation(f, index, reason), f, reason)
<1>1. CASE index \in 0..(f.variations - 1)
  <2>1. GetVariation(f, index, reason) = [variation |-> index, reason |-> reason]
    BY <1>1 DEF GetVariation
  <2>2. index \in Nat
    BY <1>1, FlagFacts
  <2> QED
    BY <1>1, <2>1, <2>2, ReasonLength DEF Gives, Result
<1>2. CASE index \notin 0..(f.variations - 1)
  <2>1. GetVariation(f, index, reason) = ErrorResult("MALFORMED_FLAG")
    BY <1>2 DEF GetVariation
  <2> QED
    BY <2>1, ErrorFacts DEF Gives, IsError
<1> QED
  BY <1>1, <1>2

LEMMA OffFacts ==
  ASSUME NEW f \in Catalog, NEW reason \in Reason
  PROVE  Gives(GetOffResult(f, reason), f, reason)
<1>1. CASE f.offVariation = Null
  <2>1. GetOffResult(f, reason) = [variation |-> Null, reason |-> reason]
    BY <1>1 DEF GetOffResult
  <2> QED
    BY <2>1, ReasonLength DEF Gives, Result
<1>2. CASE f.offVariation # Null
  BY <1>2, VariationFacts DEF GetOffResult
<1> QED
  BY <1>1, <1>2

LEMMA RolloutFacts ==
  ASSUME NEW f \in Catalog, NEW r, NEW user, NEW reason \in Reason
  PROVE  Gives(GetResultForVariationOrRollout(r, user, f, reason), f, reason)
<1>1. CASE r = Null
  <2>1. GetResultForVariationOrRollout(r, user, f, reason) = ErrorResult("MALFORMED_FLAG")
    BY <1>1 DEF GetResultForVariationOrRollout
  <2> QED
    BY <2>1, ErrorFacts DEF Gives, IsError
<1>2. CASE r # Null
  BY <1>2, VariationFacts DEF GetResultForVariationOrRollout
<1> QED
  BY <1>1, <1>2

LEMMA OffIsServedOff ==
  ASSUME NEW f \in Catalog, NEW reason
  PROVE  GetOffResult(f, reason) = ServedOff(f, reason)
<1>1. Null \notin 0..(f.variations - 1)
  BY NullFacts, FlagFacts
<1> QED
  BY <1>1 DEF GetOffResult, ServedOff, GetVariation, Served

LEMMA GivesResult ==
  ASSUME NEW result, NEW f, NEW reason, Gives(result, f, reason)
  PROVE  result \in Result /\ result # Null
  BY NullFacts DEF Gives

LEMMA FlagReasons ==
  /\ {<<"OFF">>, <<"TARGET_MATCH">>, <<"FALLTHROUGH">>} \subseteq Reason
  /\ \A k \in FlagKey : <<"PREREQUISITE_FAILED", k>> \in Reason
  BY DEF Reason

-----------------------------------------------------------------------------
(* Stacks *)

LEMMA TopFacts ==
  ASSUME NEW S, NEW s \in Seq(S), s # <<>>
  PROVE  /\ Len(s) \in Nat /\ Len(s) >= 1 /\ Last(s) = s[Len(s)] /\ Last(s) \in S
         /\ Front(s) \in Seq(S) /\ Len(Front(s)) = Len(s) - 1
         /\ \A i \in 1..Len(s) - 1 : Front(s)[i] = s[i]
<1>1. Len(s) \in Nat /\ Len(s) >= 1
  BY EmptySeq
<1>2. Last(s) = s[Len(s)] /\ Last(s) \in S
  BY <1>1, ElementOfSeq DEF Last
<1>3. CASE Len(s) = 1
  <2>1. Front(s) = <<>>
    BY <1>3, SubSeqEmpty DEF Front
  <2> QED
    BY <1>1, <1>2, <1>3, <2>1
<1>4. CASE Len(s) > 1
  <2>1. /\ Front(s) \in Seq(S) /\ Len(Front(s)) = Len(s) - 1 - 1 + 1
        /\ \A i \in 1..Len(s) - 1 - 1 + 1 : Front(s)[i] = s[1 + i - 1]
    BY <1>1, <1>4, SubSeqProperties DEF Front
  <2> QED
    BY <1>1, <1>2, <1>4, <2>1
<1>5. Len(s) = 1 \/ Len(s) > 1
  <2> DEFINE n == Len(s)
  <2>1. n \in Nat /\ n >= 1
    BY <1>1
  <2> HIDE DEF n
  <2>2. n = 1 \/ n > 1
    BY <2>1
  <2> QED
    BY <2>2 DEF n
<1> QED
  BY <1>3, <1>4, <1>5

LEMMA NewTop ==
  ASSUME NEW S, NEW s \in Seq(S), s # <<>>, NEW x \in S
  PROVE  /\ Append(Front(s), x) \in Seq(S) /\ Append(Front(s), x) # <<>>
         /\ Len(Append(Front(s), x)) = Len(s)
         /\ Append(Front(s), x)[Len(s)] = x
         /\ \A i \in 1..Len(s) - 1 : Append(Front(s), x)[i] = s[i]
<1>1. /\ Len(s) \in Nat /\ Len(s) >= 1 /\ Front(s) \in Seq(S) /\ Len(Front(s)) = Len(s) - 1
      /\ \A i \in 1..Len(s) - 1 : Front(s)[i] = s[i]
  BY TopFacts
<1> DEFINE front == Front(s)
<1> HIDE DEF front
<1>2. /\ Append(front, x) \in Seq(S) /\ Len(Append(front, x)) = Len(front) + 1
      /\ Append(front, x)[Len(front) + 1] = x
      /\ \A i \in 1..Len(front) : Append(front, x)[i] = front[i]
  BY <1>1, AppendProperties DEF front
<1>3. Append(front, x) # <<>>
  BY <1>1, <1>2, EmptySeq DEF front
<1> QED
  BY <1>1, <1>2, <1>3 DEF front

LEMMA EvalFacts ==
  ASSUME NEW e \in Eval
  PROVE  /\ e.flag \in Catalog /\ e.user \in Users /\ e.stack \in Seq(Frame)
         /\ e.events \in Seq(Event) /\ e.result \in Result \cup {Null} /\ e.sync \in BOOLEAN
         /\ Len(e.stack) \in Nat /\ Len(e.events) \in Nat
         /\ \A i \in 1..Len(e.stack) : e.stack[i] \in Frame
  BY ElementOfSeq DEF Eval

LEMMA FrameFacts ==
  ASSUME NEW f \in Frame
  PROVE  /\ f.flag \in Catalog /\ f.prereq \in Nat /\ f.rule \in Nat
         /\ f.clause \in Nat /\ f.value \in Nat /\ f.result \in Result \cup {Null}
         /\ Prereqs(f) = f.flag.prerequisites /\ Len(Prereqs(f)) \in Nat
  BY FlagFacts DEF Frame, Prereqs

LEMMA EnterFacts ==
  ASSUME NEW f \in Catalog
  PROVE  /\ Enter(f) \in Frame /\ FrameInv(Enter(f))
         /\ Enter(f).flag = f /\ Enter(f).prereq = 1 /\ Enter(f).rule = 0
         /\ f.on => Enter(f).result = Null
         /\ ~f.on => Enter(f).result # Null /\ Enter(f).result = GetOffResult(f, <<"OFF">>)
<1>1. Gives(GetOffResult(f, <<"OFF">>), f, <<"OFF">>)
  BY OffFacts, FlagReasons
<1>2. GetOffResult(f, <<"OFF">>) \in Result /\ GetOffResult(f, <<"OFF">>) # Null
  BY <1>1, GivesResult
<1>3. /\ Enter(f) \in Frame /\ Enter(f).flag = f /\ Enter(f).prereq = 1 /\ Enter(f).rule = 0
      /\ Enter(f).clause = 1 /\ Enter(f).value = 1
      /\ Enter(f).result = IF f.on THEN Null ELSE GetOffResult(f, <<"OFF">>)
  BY <1>2 DEF Enter, Frame
<1>4. FrameOK(Enter(f))
  <2>1. 1 \in 1..Len(f.prerequisites) + 1 /\ 0 \in 0..Len(f.rules) + 1
    BY FlagFacts
  <2>2. Enter(f).result # Null =>
          /\ Enter(f).result.variation \in 0..(f.variations - 1) \cup {Null}
          /\ Len(Enter(f).result.reason) \in 1..2
    BY <1>1, <1>3, Zenon DEF Gives
  <2> QED
    BY <1>3, <2>1, <2>2 DEF FrameOK
<1> QED
  BY <1>2, <1>3, <1>4 DEF FrameInv

-----------------------------------------------------------------------------
(* What a piece of work does to the stack *)

LEMMA ReplacedStack ==
  ASSUME NEW e \in Eval, NEW e2 \in Eval, StackInv(e), e.stack # <<>>, NEW f \in Frame,
         f.flag = Last(e.stack).flag, FrameInv(f),
         e2.flag = e.flag, e2.result = e.result, e2.stack = Append(Front(e.stack), f)
  PROVE  StackInv(e2)
<1> DEFINE n == Len(e.stack)
<1>1. /\ n \in Nat /\ n >= 1 /\ Last(e.stack) = e.stack[n]
  BY EvalFacts, TopFacts
<1>2. /\ e2.stack # <<>> /\ Len(e2.stack) = n /\ e2.stack[n] = f
      /\ \A i \in 1..n - 1 : e2.stack[i] = e.stack[i]
  BY EvalFacts, NewTop
<1>3. \A i \in 1..n : e2.stack[i].flag = e.stack[i].flag
  BY <1>1, <1>2
<1>4. \A i \in 1..n : FrameInv(e2.stack[i]) /\ i <= Rank[e2.stack[i].flag.key]
  <2> TAKE i \in 1..n
  <2>1. FrameInv(e.stack[i]) /\ i <= Rank[e.stack[i].flag.key]
    BY DEF StackInv
  <2> QED
    BY <1>1, <1>2, <1>3, <2>1
<1>5. \A i \in 1..n - 1 :
        /\ e2.stack[i].result = Null /\ e2.stack[i].rule = 0
        /\ e2.stack[i].prereq <= Len(Prereqs(e2.stack[i]))
        /\ e2.stack[i + 1].flag.key = Prereqs(e2.stack[i])[e2.stack[i].prereq].key
        /\ Rank[e2.flag.key] < Rank[e2.stack[i + 1].flag.key]
  <2> TAKE i \in 1..n - 1
  <2>1. e2.stack[i] = e.stack[i] /\ e2.stack[i + 1].flag = e.stack[i + 1].flag
    BY <1>1, <1>2, <1>3, SMTT(30)
  <2> QED
    BY <2>1 DEF StackInv
<1> QED
  BY <1>1, <1>2, <1>3, <1>4, <1>5 DEF StackInv

LEMMA PushedStack ==
  ASSUME NEW e \in Eval, NEW e2 \in Eval, StackInv(e), e.stack # <<>>, NEW flag \in Catalog,
         Last(e.stack).result = Null, Last(e.stack).rule = 0,
         Last(e.stack).prereq <= Len(Prereqs(Last(e.stack))),
         flag.key = Prereqs(Last(e.stack))[Last(e.stack).prereq].key,
         e2.flag = e.flag, e2.result = e.result, e2.stack = Append(e.stack, Enter(flag))
  PROVE  StackInv(e2)
<1> DEFINE n == Len(e.stack)
           top == e.stack[n]
<1>1. /\ n \in Nat /\ n >= 1 /\ Last(e.stack) = top
  BY EvalFacts, TopFacts
<1>2. /\ e2.stack # <<>> /\ Len(e2.stack) = n + 1 /\ e2.stack[n + 1] = Enter(flag)
      /\ \A i \in 1..n : e2.stack[i] = e.stack[i]
  <2>1. /\ Len(Append(e.stack, Enter(flag))) = n + 1
        /\ Append(e.stack, Enter(flag))[n + 1] = Enter(flag)
        /\ \A i \in 1..n : Append(e.stack, Enter(flag))[i] = e.stack[i]
    BY EvalFacts, EnterFacts, AppendProperties
  <2> QED
    BY <1>1, <2>1, EvalFacts, EmptySeq
<1>3. top \in Frame /\ FrameInv(top) /\ n <= Rank[top.flag.key]
  BY <1>1, EvalFacts, SMTT(30) DEF StackInv
<1>4. top.prereq \in 1..Len(top.flag.prerequisites) /\ flag.key = top.flag.prerequisites[top.prereq].key
  BY <1>1, <1>3, FrameFacts, SMTT(30) DEF FrameInv, FrameOK, Prereqs
<1>5. Rank[top.flag.key] < Rank[flag.key]
  BY <1>3, <1>4, FrameFacts, RankFacts
<1>6. e.flag.key \in FlagKey /\ top.flag.key \in FlagKey /\ flag.key \in FlagKey
  BY <1>3, FrameFacts, EvalFacts, FlagFacts
<1>7. Rank[e.flag.key] \in Nat /\ Rank[top.flag.key] \in Nat /\ Rank[flag.key] \in Nat
  BY <1>6, RankFacts, SMTT(30)
<1>8. Rank[e.flag.key] <= Rank[top.flag.key]
  <2>1. CASE n = 1
    BY <1>7, <2>1 DEF StackInv
  <2>2. CASE n > 1
    <3>1. n - 1 \in 1..n - 1 /\ n - 1 + 1 = n
      BY <1>1, <2>2
    <3>2. Rank[e.flag.key] < Rank[e.stack[n - 1 + 1].flag.key]
      BY <3>1 DEF StackInv
    <3> QED
      BY <1>7, <3>1, <3>2, SMTT(30)
  <2>3. n = 1 \/ n > 1
    <3> HIDE DEF n, top
    <3> QED
      BY <1>1
  <2> QED
    BY <2>1, <2>2, <2>3
<1>9. \A i \in 1..n + 1 : FrameInv(e2.stack[i]) /\ i <= Rank[e2.stack[i].flag.key]
  <2> TAKE i \in 1..n + 1
  <2>1. CASE i \in 1..n
    BY <1>2, <2>1, Zenon DEF StackInv
  <2>2. CASE i = n + 1
    BY <1>1, <1>2, <1>3, <1>5, <1>7, <2>2, EnterFacts, SMTT(30)
  <2> QED
    BY <1>1, <2>1, <2>2
<1>10. \A i \in 1..n :
        /\ e2.stack[i].result = Null /\ e2.stack[i].rule = 0
        /\ e2.stack[i].prereq <= Len(Prereqs(e2.stack[i]))
        /\ e2.stack[i + 1].flag.key = Prereqs(e2.stack[i])[e2.stack[i].prereq].key
        /\ Rank[e2.flag.key] < Rank[e2.stack[i + 1].flag.key]
  <2> TAKE i \in 1..n
  <2>1. CASE i < n
    <3>1. i \in 1..n - 1 /\ e2.stack[i] = e.stack[i] /\ e2.stack[i + 1] = e.stack[i + 1]
      BY <1>1, <1>2, <2>1
    <3> QED
      BY <3>1 DEF StackInv
  <2>2. CASE i = n
    <3>1. e2.stack[i] = top /\ e2.stack[i + 1].flag = flag
      BY <1>1, <1>2, <2>2, EnterFacts
    <3>2. Rank[e.flag.key] < Rank[flag.key]
      BY <1>5, <1>7, <1>8, SMTT(30)
    <3> QED
      BY <1>1, <2>2, <3>1, <3>2
  <2>3. i < n \/ i = n
    BY <1>1
  <2> QED
    BY <2>1, <2>2, <2>3
<1>11. e2.stack[1].flag = e2.flag
  BY <1>1, <1>2 DEF StackInv
<1>12. e2.result = Null
  BY DEF StackInv
<1>13. Len(e2.stack) - 1 = n
  BY <1>1, <1>2
<1> QED
  BY <1>2, <1>9, <1>10, <1>11, <1>12, <1>13 DEF StackInv

\* The frame below the top, and what is left without the top.
LEMMA BelowTop ==
  ASSUME NEW e \in Eval, StackInv(e), Len(e.stack) > 1
  PROVE  /\ Front(e.stack) \in Seq(Frame) /\ Front(e.stack) # <<>>
         /\ Len(Front(e.stack)) = Len(e.stack) - 1
         /\ Last(Front(e.stack)) = e.stack[Len(e.stack) - 1]
         /\ e.stack[Len(e.stack) - 1] \in Frame
         /\ \A i \in 1..Len(e.stack) - 1 : Front(e.stack)[i] = e.stack[i]
<1>1. /\ Front(e.stack) \in Seq(Frame) /\ Len(Front(e.stack)) = Len(e.stack) - 1
      /\ \A i \in 1..Len(e.stack) - 1 : Front(e.stack)[i] = e.stack[i]
  <2>1. e.stack \in Seq(Frame) /\ e.stack # <<>>
    BY EvalFacts, EmptySeq
  <2> QED
    BY <2>1, TopFacts
<1>2. Front(e.stack) # <<>>
  BY <1>1, EvalFacts, EmptySeq
<1>3. Len(e.stack) - 1 \in 1..Len(e.stack) - 1
  BY EvalFacts
<1> QED
  BY <1>1, <1>2, <1>3, TopFacts, ZenonT(30)

LEMMA PoppedStack ==
  ASSUME NEW e \in Eval, NEW e2 \in Eval, StackInv(e), Len(e.stack) > 1, NEW f \in Frame,
         f.flag = e.stack[Len(e.stack) - 1].flag, FrameInv(f),
         e2.flag = e.flag, e2.result = e.result,
         e2.stack = Append(Front(Front(e.stack)), f)
  PROVE  StackInv(e2)
<1> DEFINE n == Len(e.stack) - 1
           s == Front(e.stack)
<1>1. /\ Len(e.stack) \in Nat /\ n \in Nat /\ n >= 1
      /\ s \in Seq(Frame) /\ s # <<>> /\ Len(s) = n /\ \A i \in 1..n : s[i] = e.stack[i]
  BY EvalFacts, BelowTop
<1>2. /\ e2.stack # <<>> /\ Len(e2.stack) = n /\ e2.stack[n] = f
      /\ \A i \in 1..n - 1 : e2.stack[i] = s[i]
  <2>1. e2.stack = Append(Front(s), f)
    OBVIOUS
  <2> HIDE DEF s, n
  <2>2. /\ Append(Front(s), f) # <<>> /\ Len(Append(Front(s), f)) = Len(s)
        /\ Append(Front(s), f)[Len(s)] = f
        /\ \A i \in 1..Len(s) - 1 : Append(Front(s), f)[i] = s[i]
    BY <1>1, NewTop, SMTT(30)
  <2> QED
    BY <1>1, <2>1, <2>2
<1>3. \A i \in 1..n - 1 : e2.stack[i] = e.stack[i]
  BY <1>1, <1>2
<1>4. \A i \in 1..n : e2.stack[i].flag = e.stack[i].flag
  <2> TAKE i \in 1..n
  <2>1. i \in 1..n - 1 \/ i = n
    BY <1>1
  <2> QED
    BY <1>1, <1>2, <1>3, <2>1
<1>5. \A i \in 1..n : FrameInv(e2.stack[i]) /\ i <= Rank[e2.stack[i].flag.key]
  <2> TAKE i \in 1..n
  <2>1. i \in 1..Len(e.stack)
    BY <1>1
  <2>2. FrameInv(e.stack[i]) /\ i <= Rank[e.stack[i].flag.key]
    BY <2>1 DEF StackInv
  <2>3. i \in 1..n - 1 \/ i = n
    BY <1>1
  <2>4. e2.stack[i].flag = e.stack[i].flag
    BY <1>4
  <2>5. FrameInv(e2.stack[i])
    BY <1>2, <1>3, <2>2, <2>3
  <2> QED
    BY <2>2, <2>4, <2>5
<1>6. \A i \in 1..n - 1 :
        /\ e2.stack[i].result = Null /\ e2.stack[i].rule = 0
        /\ e2.stack[i].prereq <= Len(Prereqs(e2.stack[i]))
        /\ e2.stack[i + 1].flag.key = Prereqs(e2.stack[i])[e2.stack[i].prereq].key
        /\ Rank[e2.flag.key] < Rank[e2.stack[i + 1].flag.key]
  <2> TAKE i \in 1..n - 1
  <2>1. i \in 1..Len(e.stack) - 1 /\ i + 1 \in 1..n
    BY <1>1
  <2>2. e2.stack[i] = e.stack[i] /\ e2.stack[i + 1].flag = e.stack[i + 1].flag
    BY <1>3, <1>4, <2>1
  <2> QED
    BY <2>1, <2>2 DEF StackInv
<1>7. e2.stack[1].flag = e2.flag
  <2>1. 1 \in 1..n /\ e.stack # <<>>
    BY <1>1, EmptySeq
  <2>2. e2.stack[1].flag = e.stack[1].flag /\ e.stack[1].flag = e.flag
    BY <1>4, <2>1 DEF StackInv
  <2> QED
    BY <2>2
<1>8. e2.result = Null
  BY EvalFacts, EmptySeq DEF StackInv
<1> QED
  BY <1>2, <1>5, <1>6, <1>7, <1>8 DEF StackInv

-----------------------------------------------------------------------------
(* What the events tell *)

LEMMA LookedKept ==
  ASSUME NEW e, NEW e2, NEW n, NEW m, Looked(e, n, m), e2.flag = e.flag,
         OwnEvents(e2) = OwnEvents(e), \A p \in OwnEvents(e) : e2.events[p] = e.events[p]
  PROVE  Looked(e2, n, m)
<1>1. PICK at \in [1..n -> OwnEvents(e)] :
        /\ Enumerates(at, n, OwnEvents(e))
        /\ \A i \in 1..n : /\ e.events[at[i]].key = e.flag.prerequisites[i].key
                           /\ Met(e.events[at[i]], e.flag.prerequisites[i]) <=> i <= m
  BY DEF Looked
<1>2. \A i \in 1..n : e2.events[at[i]] = e.events[at[i]]
  BY <1>1
<1>3. \A i \in 1..n : /\ e2.events[at[i]].key = e2.flag.prerequisites[i].key
                      /\ Met(e2.events[at[i]], e2.flag.prerequisites[i]) <=> i <= m
  BY <1>1, <1>2
<1>4. at \in [1..n -> OwnEvents(e2)] /\ Enumerates(at, n, OwnEvents(e2))
  BY <1>1
<1> QED
  BY <1>3, <1>4 DEF Looked

\* An event of another flag's prerequisite.
LEMMA OtherEvent ==
  ASSUME NEW e \in Eval, NEW e2 \in Eval, NEW event \in Event, e2.flag = e.flag,
         event.prereqOf # e.flag.key, e2.events = Append(e.events, event)
  PROVE  /\ OwnEvents(e2) = OwnEvents(e)
         /\ \A p \in OwnEvents(e) : e2.events[p] = e.events[p]
<1> DEFINE n == Len(e.events)
<1>1. /\ n \in Nat /\ Len(e2.events) = n + 1 /\ e2.events[n + 1] = event
      /\ \A p \in 1..n : e2.events[p] = e.events[p]
  BY EvalFacts, AppendProperties
<1> HIDE DEF n
<1>2. OwnEvents(e) = {p \in 1..n : e.events[p].prereqOf = e.flag.key}
  BY DEF OwnEvents, n
<1>3. OwnEvents(e2) = {p \in 1..n + 1 : e2.events[p].prereqOf = e.flag.key}
  BY <1>1 DEF OwnEvents
<1> QED
  BY <1>1, <1>2, <1>3

\* The event of the next prerequisite of the flag itself.
LEMMA OwnEvent ==
  ASSUME NEW e \in Eval, NEW e2 \in Eval, NEW event \in Event, e2.flag = e.flag,
         event.prereqOf = e.flag.key, e2.events = Append(e.events, event),
         NEW n \in Nat, Looked(e, n, n), event.key = e.flag.prerequisites[n + 1].key
  PROVE  /\ Met(event, e.flag.prerequisites[n + 1]) => Looked(e2, n + 1, n + 1)
         /\ ~Met(event, e.flag.prerequisites[n + 1]) => Looked(e2, n + 1, n)
<1> DEFINE l == Len(e.events)
<1>1. /\ l \in Nat /\ Len(e2.events) = l + 1 /\ e2.events[l + 1] = event
      /\ \A p \in 1..l : e2.events[p] = e.events[p]
  BY EvalFacts, AppendProperties
<1> HIDE DEF l
<1>2. OwnEvents(e) \subseteq 1..l /\ OwnEvents(e2) = OwnEvents(e) \cup {l + 1}
  <2>1. OwnEvents(e) = {p \in 1..l : e.events[p].prereqOf = e.flag.key}
    BY DEF OwnEvents, l
  <2>2. OwnEvents(e2) = {p \in 1..l + 1 : e2.events[p].prereqOf = e.flag.key}
    BY <1>1 DEF OwnEvents
  <2> QED
    BY <1>1, <2>1, <2>2
<1>3. PICK at \in [1..n -> OwnEvents(e)] :
        /\ Enumerates(at, n, OwnEvents(e))
        /\ \A i \in 1..n : /\ e.events[at[i]].key = e.flag.prerequisites[i].key
                           /\ Met(e.events[at[i]], e.flag.prerequisites[i]) <=> i <= n
  BY DEF Looked
<1> DEFINE at2 == [i \in 1..n + 1 |-> IF i = n + 1 THEN l + 1 ELSE at[i]]
<1>4. /\ at2[n + 1] = l + 1
      /\ \A i \in 1..n : at2[i] = at[i] /\ at[i] \in OwnEvents(e) /\ at[i] \in 1..l
  BY <1>2, <1>3
<1>5. at2 \in [1..n + 1 -> OwnEvents(e2)]
  BY <1>2, <1>4
<1> HIDE DEF at2
<1>6. \A i, j \in 1..n + 1 : i < j => at2[i] < at2[j]
  <2> SUFFICES ASSUME NEW i \in 1..n + 1, NEW j \in 1..n + 1, i < j
               PROVE  at2[i] < at2[j]
    OBVIOUS
  <2>1. i \in 1..n
    OBVIOUS
  <2>2. CASE j = n + 1
    BY <1>1, <1>4, <2>1, <2>2
  <2>3. CASE j \in 1..n
    BY <1>3, <1>4, <2>1, <2>3 DEF Enumerates
  <2> QED
    BY <2>2, <2>3
<1>7. \A p \in OwnEvents(e2) : \E i \in 1..n + 1 : p = at2[i]
  <2> SUFFICES ASSUME NEW p \in OwnEvents(e2)
               PROVE  \E i \in 1..n + 1 : p = at2[i]
    OBVIOUS
  <2>1. CASE p = l + 1
    BY <1>4, <2>1
  <2>2. CASE p \in OwnEvents(e)
    <3>1. PICK i \in 1..n : p = at[i]
      BY <1>3, <2>2 DEF Enumerates
    <3> QED
      BY <1>4, <3>1
  <2> QED
    BY <1>2, <2>1, <2>2
<1>8. Enumerates(at2, n + 1, OwnEvents(e2))
  BY <1>5, <1>6, <1>7 DEF Enumerates
<1>9. \A i \in 1..n : /\ e2.events[at2[i]].key = e2.flag.prerequisites[i].key
                      /\ Met(e2.events[at2[i]], e2.flag.prerequisites[i])
  <2> TAKE i \in 1..n
  <2>1. e2.events[at2[i]] = e.events[at[i]] /\ i <= n
    BY <1>1, <1>4
  <2>2. /\ e.events[at[i]].key = e.flag.prerequisites[i].key
        /\ Met(e.events[at[i]], e.flag.prerequisites[i])
    BY <1>3, <2>1
  <2> QED
    BY <2>1, <2>2
<1>10. e2.events[at2[n + 1]] = event
  BY <1>1, <1>4
<1>11. ASSUME NEW m \in {n, n + 1}, Met(event, e.flag.prerequisites[n + 1]) <=> m = n + 1
       PROVE  Looked(e2, n + 1, m)
  <2>1. \A i \in 1..n + 1 : /\ e2.events[at2[i]].key = e2.flag.prerequisites[i].key
                            /\ Met(e2.events[at2[i]], e2.flag.prerequisites[i]) <=> i <= m
    <3> TAKE i \in 1..n + 1
    <3>1. CASE i = n + 1
      <4>1. i <= m <=> m = n + 1
        BY <3>1
      <4> QED
        BY <1>10, <1>11, <3>1, <4>1
    <3>2. CASE i \in 1..n
      <4>1. i <= m
        BY <3>2
      <4> QED
        BY <1>9, <3>2, <4>1
    <3>3. i = n + 1 \/ i \in 1..n
      OBVIOUS
    <3> QED
      BY <3>1, <3>2, <3>3
  <2> QED
    BY <1>5, <1>8, <2>1 DEF Looked
<1>12. n # n + 1
  OBVIOUS
<1> QED
  BY <1>11, <1>12

\* Before anything was looked at.
LEMMA NothingLooked == ASSUME NEW e, e.events = <<>> PROVE Looked(e, 0, 0)
<1>1. OwnEvents(e) = {}
  BY DEF OwnEvents
<1> DEFINE at == [i \in 1..0 |-> 0]
<1>2. at \in [1..0 -> OwnEvents(e)] /\ Enumerates(at, 0, OwnEvents(e))
  BY <1>1 DEF Enumerates
<1>3. \A i \in 1..0 : FALSE
  OBVIOUS
<1> HIDE DEF at
<1> QED
  BY <1>2, <1>3 DEF Looked

LEMMA ExplainsKept ==
  ASSUME NEW e, NEW e2, NEW result, Explains(e, result), e2.flag = e.flag, e2.events = e.events
  PROVE  Explains(e2, result)
<1>1. \A n, m : Looked(e, n, m) => Looked(e2, n, m)
  BY LookedKept DEF OwnEvents
<1> QED
  BY <1>1 DEF Explains

LEMMA EventFacts ==
  ASSUME NEW f \in Catalog, NEW result \in Result, NEW k \in FlagKey \cup {Null}
  PROVE  /\ NewEvalEvent(f, result, k) \in Event
         /\ NewEvalEvent(f, result, k).key = f.key /\ NewEvalEvent(f, result, k).version = f.version
         /\ NewEvalEvent(f, result, k).variation = result.variation
         /\ NewEvalEvent(f, result, k).prereqOf = k
<1> DEFINE experiment == IsExperiment(f, result.reason)
           reason == IF experiment \/ call.reasons THEN result.reason ELSE Null
           track == experiment \/ f.trackEvents
<1>1. reason \in Reason \cup {Null} /\ track \in BOOLEAN
  BY DEF Result
<1>2. f.key \in FlagKey /\ f.version \in Nat /\ result.variation \in Nat \cup {Null}
  BY FlagFacts DEF Result
<1>3. NewEvalEvent(f, result, k) =
        [key |-> f.key, version |-> f.version, variation |-> result.variation,
         prereqOf |-> k, trackEvents |-> track, reason |-> reason]
  BY DEF NewEvalEvent
<1> HIDE DEF reason, track
<1> QED
  BY <1>1, <1>2, <1>3 DEF Event

\* A result that fits how far the top frame has come.
Justified(top, f) ==
  \/ f.result = Null
  \/ /\ top.prereq <= Len(Prereqs(top))
     /\ f.result = Failed(top.flag, top.prereq)
  \/ top.prereq > Len(Prereqs(top)) /\ Decided(f.result)

LEMMA RootFacts ==
  ASSUME NEW e \in Eval, StackInv(e), e.stack # <<>>
  PROVE  /\ e.stack[1] \in Frame /\ FrameInv(e.stack[1]) /\ e.stack[1].flag = e.flag
         /\ e.flag \in Catalog /\ Len(e.flag.prerequisites) \in Nat
         /\ e.stack[1].prereq \in 1..Len(e.flag.prerequisites) + 1
         /\ e.stack[1].result = Null => e.flag.on
         /\ Len(e.stack) > 1 =>
              /\ e.stack[1].result = Null /\ e.stack[1].prereq <= Len(e.flag.prerequisites)
              /\ e.stack[2].flag.key = e.flag.prerequisites[e.stack[1].prereq].key
<1>1. Len(e.stack) \in Nat /\ Len(e.stack) >= 1
  BY EvalFacts, TopFacts
<1>2. /\ e.stack[1] \in Frame /\ FrameInv(e.stack[1]) /\ e.stack[1].flag = e.flag
  BY <1>1, EvalFacts DEF StackInv
<1>3. Len(e.stack) > 1 =>
        /\ e.stack[1].result = Null /\ e.stack[1].prereq <= Len(Prereqs(e.stack[1]))
        /\ e.stack[1 + 1].flag.key = Prereqs(e.stack[1])[e.stack[1].prereq].key
  BY <1>1 DEF StackInv
<1>4. e.flag \in Catalog /\ Len(e.flag.prerequisites) \in Nat
  BY EvalFacts, FlagFacts
<1>5. /\ e.stack[1].prereq \in 1..Len(e.flag.prerequisites) + 1
      /\ e.stack[1].result = Null => e.flag.on
  BY <1>2 DEF FrameInv, FrameOK
<1> QED
  BY <1>2, <1>3, <1>4, <1>5 DEF Prereqs

LEMMA ReplacedStory ==
  ASSUME NEW e \in Eval, NEW e2 \in Eval, StackInv(e), StoryInv(e), e.stack # <<>>, NEW f \in Frame,
         Last(e.stack).result = Null, f.flag = Last(e.stack).flag, f.prereq = Last(e.stack).prereq,
         Justified(Last(e.stack), f), e2.flag = e.flag, e2.events = e.events,
         e2.stack = Append(Front(e.stack), f)
  PROVE  StoryInv(e2)
<1> DEFINE root == e.stack[1]
           p == root.prereq - 1
           l == Len(e.flag.prerequisites)
<1>1. /\ Len(e.stack) \in Nat /\ Len(e.stack) >= 1 /\ Last(e.stack) = e.stack[Len(e.stack)]
  BY EvalFacts, TopFacts
<1>2. /\ e2.stack # <<>> /\ e2.stack[Len(e.stack)] = f
      /\ \A i \in 1..Len(e.stack) - 1 : e2.stack[i] = e.stack[i]
  BY EvalFacts, NewTop
<1>3. /\ l \in Nat /\ root.prereq \in 1..l + 1 /\ p \in 0..l /\ root.flag = e.flag
      /\ root.result = Null => e.flag.on
  BY RootFacts, SMTT(30)
<1>4. root.result = Null => Looked(e2, p, p)
  <2>1. root.result = Null => Looked(e, p, p)
    BY DEF StoryInv
  <2> QED
    BY <2>1, LookedKept DEF OwnEvents
<1>5. CASE Len(e.stack) > 1
  <2>1. e2.stack[1] = root /\ root.result = Null
    BY <1>1, <1>2, <1>5, RootFacts
  <2> QED
    BY <1>2, <1>4, <2>1 DEF StoryInv
<1>6. CASE Len(e.stack) = 1
  <2>1. e2.stack[1] = f /\ Last(e.stack) = root /\ root.result = Null
    BY <1>1, <1>2, <1>6
  <2>2. CASE f.result = Null
    <3>1. e2.stack[1].prereq - 1 = p
      BY <2>1
    <3> QED
      BY <1>2, <1>4, <2>1, <2>2, <3>1 DEF StoryInv
  <2>3. CASE /\ root.prereq <= l /\ f.result = Failed(e.flag, root.prereq)
    <3>1. Looked(e2, p, p) /\ p < l /\ p + 1 = root.prereq /\ e2.flag.on
      BY <1>3, <1>4, <2>1, <2>3, SMTT(30)
    <3>2. p # l
      BY <1>3, <3>1
    <3>3. Explains(e2, f.result)
      BY <1>3, <2>3, <3>1, <3>2 DEF Explains
    <3>4. f.result # Null \/ f.result = Null
      OBVIOUS
    <3> QED
      BY <1>2, <2>1, <2>2, <3>3, <3>4 DEF StoryInv
  <2>4. CASE root.prereq > l /\ Decided(f.result)
    <3>1. Looked(e2, l, l) /\ e2.flag.on
      <4>1. p = l
        BY <1>3, <2>4, SMTT(30)
      <4> QED
        BY <1>3, <1>4, <2>1, <4>1
    <3>2. Explains(e2, f.result)
      BY <1>3, <2>4, <3>1, SMTT(30) DEF Explains
    <3>3. f.result # Null \/ f.result = Null
      OBVIOUS
    <3> QED
      BY <1>2, <2>1, <2>2, <3>2, <3>3 DEF StoryInv
  <2> QED
    BY <1>3, <2>1, <2>2, <2>3, <2>4 DEF Justified, Prereqs
<1>7. Len(e.stack) > 1 \/ Len(e.stack) = 1
  <2> DEFINE n == Len(e.stack)
  <2>1. n \in Nat /\ n >= 1
    BY <1>1
  <2> HIDE DEF n
  <2>2. n > 1 \/ n = 1
    BY <2>1
  <2> QED
    BY <2>2 DEF n
<1> QED
  BY <1>5, <1>6, <1>7

LEMMA PushedStory ==
  ASSUME NEW e \in Eval, NEW e2 \in Eval, StackInv(e), StoryInv(e), e.stack # <<>>,
         Last(e.stack).result = Null, NEW f \in Frame,
         e2.flag = e.flag, e2.events = e.events, e2.stack = Append(e.stack, f)
  PROVE  StoryInv(e2)
<1> DEFINE root == e.stack[1]
<1>1. /\ Len(e.stack) \in Nat /\ Len(e.stack) >= 1 /\ Last(e.stack) = e.stack[Len(e.stack)]
  BY EvalFacts, TopFacts
<1>2. e2.stack # <<>> /\ e2.stack[1] = root
  <2>1. /\ Len(Append(e.stack, f)) = Len(e.stack) + 1
        /\ \A i \in 1..Len(e.stack) : Append(e.stack, f)[i] = e.stack[i]
    BY EvalFacts, AppendProperties
  <2> QED
    BY <1>1, <2>1, EvalFacts, EmptySeq
<1>3. root.result = Null
  <2>1. CASE Len(e.stack) > 1
    BY <2>1, RootFacts
  <2>2. CASE ~(Len(e.stack) > 1)
    <3>1. Len(e.stack) = 1
      <4> DEFINE n == Len(e.stack)
      <4>1. n \in Nat /\ n >= 1 /\ ~(n > 1)
        BY <1>1, <2>2
      <4> HIDE DEF n
      <4>2. n = 1
        BY <4>1
      <4> QED
        BY <4>2 DEF n
    <3> QED
      BY <1>1, <3>1
  <2> QED
    BY <2>1, <2>2
<1>4. Looked(e, root.prereq - 1, root.prereq - 1)
  BY <1>3 DEF StoryInv
<1>5. Looked(e2, root.prereq - 1, root.prereq - 1)
  BY <1>4, LookedKept, ZenonT(30) DEF OwnEvents
<1> QED
  BY <1>2, <1>3, <1>5 DEF StoryInv

\* What the frame below becomes when the prerequisite above it is done.
Below(e) == e.stack[Len(e.stack) - 1]
Awaited(e) == Prereqs(Below(e))[Below(e).prereq]
Resumed(e) ==
  IF Satisfied(Last(e.stack), Awaited(e)) THEN [Below(e) EXCEPT !.prereq = @ + 1]
  ELSE PrerequisiteFailed(Below(e), Awaited(e).key)
ReturnEvent(e) ==
  NewEvalEvent(Last(e.stack).flag, Last(e.stack).result, Below(e).flag.key)

LEMMA BelowFacts ==
  ASSUME NEW e \in Eval, StackInv(e), Len(e.stack) > 1
  PROVE  /\ Below(e) \in Frame /\ FrameInv(Below(e)) /\ Below(e).result = Null
         /\ Below(e).rule = 0 /\ Below(e).prereq \in 1..Len(Below(e).flag.prerequisites)
         /\ Last(e.stack) \in Frame /\ Last(e.stack).flag.key = Awaited(e).key
         /\ Awaited(e) = Below(e).flag.prerequisites[Below(e).prereq]
         /\ Awaited(e).key \in FlagKey /\ Awaited(e).variation \in Nat
<1> DEFINE n == Len(e.stack) - 1
<1>1. /\ n \in 1..Len(e.stack) - 1 /\ n \in 1..Len(e.stack) /\ e.stack \in Seq(Frame)
      /\ n + 1 = Len(e.stack) /\ e.stack # <<>>
  BY EvalFacts, EmptySeq
<1>2. /\ e.stack[n].result = Null /\ e.stack[n].rule = 0
      /\ e.stack[n].prereq <= Len(Prereqs(e.stack[n]))
      /\ e.stack[n + 1].flag.key = Prereqs(e.stack[n])[e.stack[n].prereq].key
      /\ FrameInv(e.stack[n])
  BY <1>1 DEF StackInv
<1>3. Below(e) \in Frame /\ Below(e) = e.stack[n]
  BY <1>1, EvalFacts DEF Below
<1>4. Last(e.stack) \in Frame /\ Last(e.stack) = e.stack[n + 1]
  BY <1>1, TopFacts
<1>5. Prereqs(Below(e)) = Below(e).flag.prerequisites /\ Below(e).flag \in Catalog
  BY <1>3, FrameFacts
<1>6. Below(e).prereq \in 1..Len(Below(e).flag.prerequisites)
  BY <1>2, <1>3, <1>5, FlagFacts DEF FrameInv, FrameOK
<1> QED
  BY <1>2, <1>3, <1>4, <1>5, <1>6, FlagFacts DEF Awaited

LEMMA FailedFacts ==
  ASSUME NEW f \in Frame, FrameInv(f), f.rule = 0 \/ f.prereq > Len(Prereqs(f)), NEW k \in FlagKey
  PROVE  /\ PrerequisiteFailed(f, k) \in Frame /\ FrameInv(PrerequisiteFailed(f, k))
         /\ PrerequisiteFailed(f, k).flag = f.flag /\ PrerequisiteFailed(f, k).prereq = f.prereq
         /\ PrerequisiteFailed(f, k).rule = f.rule
         /\ PrerequisiteFailed(f, k).result = GetOffResult(f.flag, <<"PREREQUISITE_FAILED", k>>)
         /\ PrerequisiteFailed(f, k).result # Null
<1> DEFINE off == GetOffResult(f.flag, <<"PREREQUISITE_FAILED", k>>)
           g == PrerequisiteFailed(f, k)
<1>1. Gives(off, f.flag, <<"PREREQUISITE_FAILED", k>>)
  BY OffFacts, FlagReasons, FrameFacts
<1>2. off \in Result /\ off # Null
  BY <1>1, GivesResult
<1>3. /\ g \in Frame /\ g.flag = f.flag /\ g.prereq = f.prereq /\ g.rule = f.rule
      /\ g.clause = f.clause /\ g.value = f.value /\ g.result = off
  BY <1>2 DEF PrerequisiteFailed, Frame
<1> HIDE DEF g, off
<1>4. FrameOK(g)
  BY <1>1, <1>3 DEF FrameInv, FrameOK, Gives
<1>5. FrameInv(g)
  BY <1>2, <1>3, <1>4 DEF FrameInv, Prereqs
<1> QED
  BY <1>2, <1>3, <1>5 DEF g, off

LEMMA ResumedFacts ==
  ASSUME NEW e \in Eval, StackInv(e), Len(e.stack) > 1
  PROVE  /\ Resumed(e) \in Frame /\ FrameInv(Resumed(e)) /\ Resumed(e).flag = Below(e).flag
         /\ Satisfied(Last(e.stack), Awaited(e)) =>
              Resumed(e).result = Null /\ Resumed(e).prereq = Below(e).prereq + 1
         /\ ~Satisfied(Last(e.stack), Awaited(e)) =>
              /\ Resumed(e).prereq = Below(e).prereq /\ Resumed(e).result # Null
              /\ Resumed(e).result = Failed(Below(e).flag, Below(e).prereq)
<1> DEFINE b == Below(e)
<1>1. /\ b \in Frame /\ FrameInv(b) /\ b.result = Null /\ b.rule = 0
      /\ b.prereq \in 1..Len(b.flag.prerequisites)
      /\ Awaited(e) = b.flag.prerequisites[b.prereq] /\ Awaited(e).key \in FlagKey
  BY BelowFacts
<1> HIDE DEF b
<1>2. CASE Satisfied(Last(e.stack), Awaited(e))
  <2> DEFINE f == [b EXCEPT !.prereq = @ + 1]
  <2>1. /\ f \in Frame /\ f.flag = b.flag /\ f.prereq = b.prereq + 1 /\ f.rule = 0
        /\ f.clause = b.clause /\ f.value = b.value /\ f.result = Null
    BY <1>1 DEF Frame
  <2> HIDE DEF f
  <2>2. FrameOK(f)
    <3>1. Len(b.flag.prerequisites) \in Nat /\ Len(b.flag.rules) \in Nat /\ b.flag \in Catalog
      BY <1>1, FrameFacts, FlagFacts
    <3> QED
      BY <1>1, <2>1, <3>1 DEF FrameInv, FrameOK
  <2>3. FrameInv(f)
    BY <1>1, <2>1, <2>2 DEF FrameInv
  <2>4. Resumed(e) = f
    BY <1>2, ZenonT(30) DEF Resumed, f, b
  <2> QED
    BY <1>2, <2>1, <2>3, <2>4 DEF b
<1>3. CASE ~Satisfied(Last(e.stack), Awaited(e))
  <2>1. Resumed(e) = PrerequisiteFailed(b, Awaited(e).key)
    BY <1>3 DEF Resumed, b
  <2>2. Failed(b.flag, b.prereq) = GetOffResult(b.flag, <<"PREREQUISITE_FAILED", Awaited(e).key>>)
    BY <1>1 DEF Failed
  <2> QED
    BY <1>1, <1>3, <2>1, <2>2, FailedFacts DEF b
<1> QED
  BY <1>2, <1>3

\* A prerequisite holds exactly if its event says so.
LEMMA SatisfiedIsMet ==
  ASSUME NEW e \in Eval, StackInv(e), Len(e.stack) > 1, Last(e.stack).result # Null
  PROVE  /\ ReturnEvent(e) \in Event /\ ReturnEvent(e).prereqOf = Below(e).flag.key
         /\ ReturnEvent(e).key = Awaited(e).key
         /\ Satisfied(Last(e.stack), Awaited(e)) <=> Met(ReturnEvent(e), Awaited(e))
<1> DEFINE child == Last(e.stack)
           event == ReturnEvent(e)
<1>1. /\ child \in Frame /\ Below(e) \in Frame /\ child.flag.key = Awaited(e).key
      /\ Awaited(e).variation \in Nat
  BY BelowFacts
<1>2. /\ child.flag \in Catalog /\ child.result \in Result /\ Below(e).flag.key \in FlagKey
  BY <1>1, FrameFacts, FlagFacts
<1>3. /\ event \in Event /\ event.key = child.flag.key /\ event.version = child.flag.version
      /\ event.variation = child.result.variation /\ event.prereqOf = Below(e).flag.key
  BY <1>2, EventFacts DEF ReturnEvent
<1>4. The(event.key, event.version) = child.flag
  BY <1>2, <1>3, TheFacts
<1>5. IsError(child.result) => child.result.variation = Null
  BY ErrorFacts DEF IsError
<1>6. Satisfied(child, Awaited(e)) <=> Met(event, Awaited(e))
  <2> HIDE DEF child, event
  <2>1. Awaited(e).variation # Null
    BY <1>1, NullFacts
  <2>2. CASE child.flag.on
    BY <1>3, <1>4, <1>5, <2>1, <2>2 DEF Satisfied, Met
  <2>3. CASE ~child.flag.on
    BY <1>4, <2>3 DEF Satisfied, Met
  <2> QED
    BY <2>2, <2>3
<1> QED
  BY <1>1, <1>3, <1>6

LEMMA PoppedStory ==
  ASSUME NEW e \in Eval, NEW e2 \in Eval, StackInv(e), StoryInv(e), Len(e.stack) > 1,
         Last(e.stack).result # Null, e2.flag = e.flag,
         e2.events = Append(e.events, ReturnEvent(e)),
         e2.stack = Append(Front(Front(e.stack)), Resumed(e))
  PROVE  StoryInv(e2)
<1> DEFINE n == Len(e.stack) - 1
           s == Front(e.stack)
           root == e.stack[1]
           p == root.prereq - 1
           l == Len(e.flag.prerequisites)
           f == Resumed(e)
           event == ReturnEvent(e)
<1>1. /\ n \in Nat /\ n >= 1 /\ s \in Seq(Frame) /\ s # <<>> /\ Len(s) = n
      /\ \A i \in 1..n : s[i] = e.stack[i]
  BY EvalFacts, BelowTop
<1>2. f \in Frame /\ f.flag = Below(e).flag
  BY ResumedFacts
<1>3. /\ e2.stack # <<>> /\ e2.stack[n] = f /\ \A i \in 1..n - 1 : e2.stack[i] = s[i]
  <2>1. e2.stack = Append(Front(s), f)
    OBVIOUS
  <2>2. s \in Seq(Frame) /\ s # <<>> /\ Len(s) = n /\ f \in Frame
    BY <1>1, <1>2
  <2> HIDE DEF s, n, f
  <2>3. /\ Append(Front(s), f) # <<>> /\ Append(Front(s), f)[Len(s)] = f
        /\ \A i \in 1..Len(s) - 1 : Append(Front(s), f)[i] = s[i]
    BY <2>2, NewTop, SMTT(30)
  <2> QED
    BY <2>1, <2>2, <2>3
<1>4. e.stack # <<>>
  BY EvalFacts, EmptySeq
<1>5. /\ root.result = Null /\ root.prereq \in 1..l /\ root.flag = e.flag
      /\ e.flag.on /\ l \in Nat
  BY <1>4, RootFacts
<1>6. Looked(e, p, p)
  BY <1>4, <1>5 DEF StoryInv
<1>7. /\ event \in Event /\ event.prereqOf = Below(e).flag.key /\ event.key = Awaited(e).key
      /\ Satisfied(Last(e.stack), Awaited(e)) <=> Met(event, Awaited(e))
  BY SatisfiedIsMet
<1> HIDE DEF s, n, f, event
<1>8. CASE n > 1
  <2>1. e2.stack[1] = root
    BY <1>1, <1>3, <1>8, SMTT(30)
  <2>2. Below(e).flag.key # e.flag.key
    <3>1. n - 1 \in 1..Len(e.stack) - 1 /\ n - 1 + 1 = n /\ n \in 1..Len(e.stack)
      BY <1>1, <1>8, EvalFacts, SMTT(30) DEF n
    <3>2. Rank[e.flag.key] < Rank[e.stack[n].flag.key]
      BY <3>1 DEF StackInv
    <3>3. Below(e) = e.stack[n] /\ e.flag.key \in FlagKey
      BY EvalFacts, FlagFacts DEF Below, n
    <3>4. Rank[e.flag.key] \in Nat
      BY <3>3, RankFacts
    <3> QED
      BY <3>2, <3>3, <3>4
  <2>3. Looked(e2, p, p)
    <3>1. /\ OwnEvents(e2) = OwnEvents(e)
          /\ \A q \in OwnEvents(e) : e2.events[q] = e.events[q]
      BY <1>7, <2>2, OtherEvent DEF event
    <3> QED
      BY <1>6, <3>1, LookedKept
  <2> QED
    BY <1>3, <1>5, <2>1, <2>3 DEF StoryInv
<1>9. CASE n = 1
  <2>1. e2.stack[1] = f /\ Below(e) = root
    BY <1>3, <1>9 DEF Below, n
  <2>2. p \in Nat /\ p + 1 = root.prereq
    BY <1>5
  <2>3. Awaited(e) = e.flag.prerequisites[p + 1]
    BY <1>5, <2>1, <2>2 DEF Awaited, Prereqs
  <2>4. /\ Met(event, Awaited(e)) => Looked(e2, p + 1, p + 1)
        /\ ~Met(event, Awaited(e)) => Looked(e2, p + 1, p)
    BY <1>5, <1>6, <1>7, <2>1, <2>2, <2>3, OwnEvent, ZenonT(30) DEF event
  <2>5. CASE Satisfied(Last(e.stack), Awaited(e))
    <3>1. f.result = Null /\ f.prereq = root.prereq + 1
      BY <2>1, <2>5, ResumedFacts DEF f
    <3>2. f.prereq - 1 = p + 1
      BY <2>2, <3>1
    <3> QED
      BY <1>3, <1>7, <2>1, <2>4, <2>5, <3>1, <3>2 DEF StoryInv
  <2>6. CASE ~Satisfied(Last(e.stack), Awaited(e))
    <3>1. f.result # Null /\ f.result = Failed(e.flag, p + 1)
      BY <1>5, <2>1, <2>2, <2>6, ResumedFacts DEF f
    <3>2. Looked(e2, p + 1, p)
      BY <1>7, <2>4, <2>6
    <3>3. p + 1 \in 0..l /\ p \in 0..l /\ p = p + 1 - 1 /\ p # l
      BY <1>5, SMTT(30)
    <3>4. Explains(e2, f.result)
      BY <1>5, <3>1, <3>2, <3>3, SMTT(30) DEF Explains
    <3> QED
      BY <1>3, <2>1, <3>1, <3>4 DEF StoryInv
  <2> QED
    BY <2>5, <2>6
<1>10. n > 1 \/ n = 1
  BY <1>1
<1> QED
  BY <1>8, <1>9, <1>10

LEMMA EndedEval ==
  ASSUME NEW e \in Eval, NEW e2 \in Eval, StackInv(e), Len(e.stack) = 1, e.stack # <<>>,
         Last(e.stack).result # Null, e2.flag = e.flag, e2.events = e.events,
         e2.stack = <<>>, e2.result = Last(e.stack).result
  PROVE  StackInv(e2) /\ (StoryInv(e) => StoryInv(e2))
<1>1. Last(e.stack) = e.stack[1]
  BY DEF Last
<1>2. StackInv(e2)
  BY DEF StackInv
<1>3. ASSUME StoryInv(e) PROVE StoryInv(e2)
  <2>1. Explains(e, e2.result)
    BY <1>1, <1>3 DEF StoryInv
  <2>2. Explains(e2, e2.result)
    BY <2>1, ExplainsKept
  <2> QED
    BY <2>2 DEF StoryInv
<1> QED
  BY <1>2, <1>3

\* A new evaluation.
LEMMA StartedEval ==
  ASSUME NEW f \in Catalog, NEW b \in BOOLEAN, call \in Calls
  PROVE  /\ Evaluate(f, b) \in Eval /\ Evaluate(f, b).flag = f /\ Evaluate(f, b).user = User
         /\ EvalInv(Evaluate(f, b))
<1> DEFINE e == Evaluate(f, b)
           noKey == NoKey(call.user)
<1>1. User \in Users
  BY DEF User, Users
<1>2. /\ Enter(f) \in Frame /\ FrameInv(Enter(f)) /\ Enter(f).flag = f /\ Enter(f).prereq = 1
      /\ f.on => Enter(f).result = Null
      /\ ~f.on => Enter(f).result # Null /\ Enter(f).result = GetOffResult(f, <<"OFF">>)
  BY EnterFacts
<1>3. /\ ErrorResult("USER_NOT_SPECIFIED") \in Result
      /\ ErrorResult("USER_NOT_SPECIFIED") # Null
  BY ErrorFacts, NullFacts
<1>4. e = [flag |-> f, user |-> User, events |-> <<>>, sync |-> b,
           stack |-> IF noKey THEN <<>> ELSE <<Enter(f)>>,
           result |-> IF noKey THEN ErrorResult("USER_NOT_SPECIFIED") ELSE Null]
  BY DEF Evaluate, User
<1>5. /\ e.flag = f /\ e.user = User /\ e.events = <<>> /\ e.sync = b
      /\ e.stack = IF noKey THEN <<>> ELSE <<Enter(f)>>
      /\ e.result = IF noKey THEN ErrorResult("USER_NOT_SPECIFIED") ELSE Null
  BY <1>4
<1>6. e \in Eval
  <2>1. <<>> \in Seq(Event) /\ <<>> \in Seq(Frame) /\ <<Enter(f)>> \in Seq(Frame)
    BY <1>2
  <2>2. /\ (IF noKey THEN <<>> ELSE <<Enter(f)>>) \in Seq(Frame)
        /\ (IF noKey THEN ErrorResult("USER_NOT_SPECIFIED") ELSE Null) \in Result \cup {Null}
    BY <1>3, <2>1
  <2> QED
    BY <1>1, <1>4, <2>1, <2>2 DEF Eval
<1>7. CASE noKey
  <2>1. e.stack = <<>> /\ e.result # Null
    BY <1>3, <1>5, <1>7
  <2>2. StackInv(e)
    BY <2>1 DEF StackInv
  <2> QED
    BY <1>5, <1>6, <1>7, <2>2 DEF EvalInv
<1>8. CASE ~noKey
  <2>1. e.stack = <<Enter(f)>> /\ e.result = Null
    BY <1>5, <1>8
  <2>2. Len(e.stack) = 1 /\ e.stack[1] = Enter(f) /\ e.stack # <<>>
    BY <2>1
  <2>3. Rank[f.key] >= 1
    BY RankFacts, FlagFacts
  <2>4. StackInv(e)
    BY <1>2, <1>5, <2>1, <2>2, <2>3 DEF StackInv
  <2>5. CASE f.on
    <3>1. Looked(e, 0, 0) /\ Enter(f).prereq - 1 = 0
      BY <1>2, <1>5, NothingLooked
    <3>2. StoryInv(e)
      BY <1>2, <2>2, <2>5, <3>1 DEF StoryInv
    <3> QED
      BY <1>5, <1>6, <2>4, <3>2 DEF EvalInv
  <2>6. CASE ~f.on
    <3>1. Explains(e, Enter(f).result)
      BY <1>2, <1>5, <2>6 DEF Explains
    <3>2. StoryInv(e)
      BY <1>2, <2>2, <2>6, <3>1 DEF StoryInv
    <3> QED
      BY <1>5, <1>6, <2>4, <3>2 DEF EvalInv
  <2> QED
    BY <2>5, <2>6
<1> QED
  BY <1>7, <1>8

-----------------------------------------------------------------------------
(* The steps of an evaluation *)

\* What the steps of evaluation k have in common.
Moves(k) ==
  /\ UNCHANGED <<data, call, stage, sync, sent, outcome, changes>>
  /\ evals' = [evals EXCEPT ![k] = evals'[k]]
  /\ evals'[k] \in Eval /\ evals'[k].flag = evals[k].flag /\ evals'[k].user = evals[k].user
  /\ EvalInv(evals'[k])

\* A piece of work that replaces the top frame.
LEMMA Worked ==
  ASSUME Inv, NEW k \in DOMAIN evals, evals[k].stack # <<>>, NEW f \in Frame, FrameInv(f),
         Top(k).result = Null, f.flag = Top(k).flag, f.prereq = Top(k).prereq, Justified(Top(k), f),
         NEW b \in BOOLEAN,
         evals' = [evals EXCEPT ![k].sync = b, ![k].stack = Append(Front(@), f)],
         UNCHANGED <<data, call, stage, sync, sent, outcome, changes>>
  PROVE  Moves(k)
<1> DEFINE e == evals[k]
           e2 == [e EXCEPT !.sync = b, !.stack = Append(Front(@), f)]
<1>1. e \in Eval /\ EvalInv(e) /\ Top(k) = Last(e.stack)
  BY DEF Inv, Types, Top
<1>2. Append(Front(e.stack), f) \in Seq(Frame)
  BY <1>1, EvalFacts, NewTop
<1>3. evals' = [evals EXCEPT ![k] = e2]
  OBVIOUS
<1>4. evals'[k] = e2
  BY <1>3
<1>5. /\ e2 \in Eval /\ e2.flag = e.flag /\ e2.user = e.user /\ e2.events = e.events
      /\ e2.result = e.result /\ e2.stack = Append(Front(e.stack), f)
  BY <1>1, <1>2 DEF Eval
<1> HIDE DEF e2
<1>6. StackInv(e) /\ (~NoKey(call.user) => StoryInv(e))
  BY <1>1 DEF EvalInv
<1>7. StackInv(e2)
  BY <1>1, <1>5, <1>6, ReplacedStack
<1>8. StoryInv(e) => StoryInv(e2)
  BY <1>1, <1>5, <1>6, ReplacedStory
<1>9. EvalInv(e2)
  BY <1>6, <1>7, <1>8 DEF EvalInv
<1> QED
  BY <1>3, <1>4, <1>5, <1>9 DEF Moves

\* A frame in work.
LEMMA WorkingFacts ==
  ASSUME Inv, NEW k \in DOMAIN evals, Working(k)
  PROVE  /\ evals[k] \in Eval /\ EvalInv(evals[k]) /\ evals[k].stack # <<>>
         /\ Top(k) \in Frame /\ FrameInv(Top(k)) /\ Top(k).result = Null
         /\ Top(k) = Last(evals[k].stack) /\ evals[k].flag.key = k /\ k \in FlagKey
<1> DEFINE e == evals[k]
<1>1. e \in Eval /\ EvalInv(e) /\ e.flag.key = k /\ k \in FlagKey
  BY DEF Inv, Types
<1>2. e.stack # <<>> /\ Top(k).result = Null /\ Top(k) = Last(e.stack)
  BY DEF Working, Top
<1>3. /\ Len(e.stack) \in Nat /\ Len(e.stack) >= 1 /\ Last(e.stack) = e.stack[Len(e.stack)]
      /\ Last(e.stack) \in Frame
  BY <1>1, <1>2, EvalFacts, TopFacts
<1>4. FrameInv(e.stack[Len(e.stack)])
  BY <1>1, <1>3 DEF EvalInv, StackInv
<1> QED
  BY <1>1, <1>2, <1>3, <1>4

\* A frame with a result.
LEMMA DecidedFrame ==
  ASSUME NEW f \in Frame, FrameInv(f), f.prereq > Len(Prereqs(f)), NEW reason \in Reason,
         reason[1] \in {"TARGET_MATCH", "RULE_MATCH", "FALLTHROUGH"},
         NEW result, Gives(result, f.flag, reason)
  PROVE  LET g == [f EXCEPT !.result = result]
         IN  /\ g \in Frame /\ FrameInv(g) /\ g.flag = f.flag /\ g.prereq = f.prereq
             /\ Justified(f, g)
<1> DEFINE g == [f EXCEPT !.result = result]
<1>1. result \in Result /\ result # Null
  BY GivesResult
<1>2. /\ g \in Frame /\ g.flag = f.flag /\ g.prereq = f.prereq /\ g.rule = f.rule
      /\ g.clause = f.clause /\ g.value = f.value /\ g.result = result
  BY <1>1 DEF Frame
<1> HIDE DEF g
<1>3. FrameOK(g)
  BY <1>2 DEF FrameInv, FrameOK, Gives
<1>4. FrameInv(g)
  BY <1>1, <1>2, <1>3 DEF FrameInv, Prereqs
<1>5. Decided(result)
  BY DEF Gives, Decided
<1>6. Justified(f, g)
  BY <1>2, <1>5 DEF Justified
<1> QED
  BY <1>2, <1>4, <1>6 DEF g

\* A frame that has moved on among its rules.
LEMMA MovedFrame ==
  ASSUME NEW f \in Frame, FrameInv(f), f.result = Null, f.prereq > Len(Prereqs(f)),
         NEW g \in Frame, g.flag = f.flag, g.prereq = f.prereq, g.result = Null,
         g.rule \in 0..Len(f.flag.rules) + 1
  PROVE  FrameInv(g) /\ Justified(f, g)
<1>1. FrameOK(g)
  BY FrameFacts DEF FrameInv, FrameOK
<1> QED
  BY <1>1 DEF FrameInv, Justified, Prereqs

LEMMA GetPrerequisiteMoves ==
  ASSUME Inv, NEW k \in DOMAIN evals, NEW late \in BOOLEAN, GetPrerequisite(k, late)
  PROVE  Moves(k)
<1> DEFINE e == evals[k]
           top == Top(k)
           key == Prereqs(top)[top.prereq].key
           flag == data[key]
           b == e.sync /\ ~late
<1>1. /\ Working(k) /\ top.rule = 0 /\ top.prereq <= Len(Prereqs(top))
      /\ evals' = [evals EXCEPT ![k].sync = b, ![k].stack = AfterAnswer(@, key, flag)]
      /\ UNCHANGED <<data, call, stage, sync, sent, outcome, changes>>
  BY DEF GetPrerequisite
<1>2. /\ e \in Eval /\ EvalInv(e) /\ e.stack # <<>> /\ top \in Frame /\ FrameInv(top)
      /\ top.result = Null /\ top = Last(e.stack)
  BY <1>1, WorkingFacts, ZenonT(30)
<1>3. /\ top.prereq \in 1..Len(top.flag.prerequisites) /\ key \in FlagKey
      /\ key = top.flag.prerequisites[top.prereq].key
  <2>1. top.flag \in Catalog /\ top.prereq \in 1..Len(top.flag.prerequisites) + 1
    BY <1>2 DEF FrameInv, FrameOK
  <2> QED
    BY <1>1, <2>1, FlagFacts DEF Prereqs
<1>4. flag \in ConfigOf(key)
  BY <1>3 DEF Inv, Types
<1>5. b \in BOOLEAN
  BY <1>2, EvalFacts
<1> HIDE DEF top, key, flag, b
<1>6. CASE flag = Null
  <2> DEFINE f == PrerequisiteFailed(top, key)
  <2>1. /\ f \in Frame /\ FrameInv(f) /\ f.flag = top.flag /\ f.prereq = top.prereq
        /\ f.result = GetOffResult(top.flag, <<"PREREQUISITE_FAILED", key>>)
    BY <1>1, <1>2, <1>3, FailedFacts, ZenonT(30)
  <2>2. Justified(top, f)
    BY <1>1, <1>3, <2>1 DEF Justified, Failed
  <2>3. AfterAnswer(e.stack, key, flag) = Append(Front(e.stack), f)
    BY <1>2, <1>6 DEF AfterAnswer
  <2>4. evals' = [evals EXCEPT ![k].sync = b, ![k].stack = Append(Front(@), f)]
    BY <1>1, <2>3
  <2> HIDE DEF f
  <2> QED
    BY <1>1, <1>2, <1>5, <2>1, <2>2, <2>4, Worked, Zenon DEF top
<1>7. CASE flag # Null
  <2> DEFINE f == Enter(flag)
             e2 == [e EXCEPT !.sync = b, !.stack = Append(@, f)]
  <2>1. flag \in Catalog /\ flag.key = key
    BY <1>4, <1>7 DEF ConfigOf
  <2>2. f \in Frame
    BY <2>1, EnterFacts
  <2>3. AfterAnswer(e.stack, key, flag) = Append(e.stack, f)
    BY <1>7 DEF AfterAnswer
  <2>4. evals' = [evals EXCEPT ![k] = e2]
    BY <1>1, <2>3
  <2>5. evals'[k] = e2
    BY <2>4
  <2>6. Append(e.stack, f) \in Seq(Frame)
    BY <1>2, <2>2, EvalFacts, AppendProperties
  <2>7. /\ e2 \in Eval /\ e2.flag = e.flag /\ e2.user = e.user /\ e2.events = e.events
        /\ e2.result = e.result /\ e2.stack = Append(e.stack, f)
    BY <1>2, <1>5, <2>6 DEF Eval
  <2> HIDE DEF e2
  <2>8. StackInv(e2)
    BY <1>1, <1>2, <2>1, <2>7, PushedStack DEF EvalInv, key
  <2>9. StoryInv(e) => StoryInv(e2)
    BY <1>2, <2>2, <2>7, PushedStory DEF EvalInv
  <2>10. EvalInv(e2)
    BY <1>2, <2>8, <2>9 DEF EvalInv
  <2> QED
    BY <1>1, <2>4, <2>5, <2>7, <2>10 DEF Moves
<1> QED
  BY <1>6, <1>7

LEMMA TestTargetsMoves ==
  ASSUME Inv, NEW k \in DOMAIN evals, TestTargets(k)
  PROVE  Moves(k)
<1> DEFINE e == evals[k]
           top == Top(k)
           target == TargetOf(top.flag, e.user)
           variation == top.flag.targets[target].variation
           result == GetVariation(top.flag, variation, <<"TARGET_MATCH">>)
           f == IF target = 0 THEN [top EXCEPT !.rule = 1] ELSE [top EXCEPT !.result = result]
<1>1. /\ Working(k) /\ top.rule = 0 /\ top.prereq > Len(Prereqs(top))
      /\ evals' = [evals EXCEPT ![k].stack = Append(Front(@), f)]
      /\ UNCHANGED <<data, call, stage, sync, sent, outcome, changes>>
  BY DEF TestTargets, Replace, Decide
<1>2. /\ e \in Eval /\ e.stack # <<>> /\ top \in Frame /\ FrameInv(top) /\ top.result = Null
      /\ e.sync \in BOOLEAN /\ top.flag \in Catalog
  BY <1>1, WorkingFacts, EvalFacts, FrameFacts
<1> HIDE DEF top, target, variation
<1>3. f \in Frame /\ FrameInv(f) /\ f.flag = top.flag /\ f.prereq = top.prereq /\ Justified(top, f)
  <2>1. CASE target = 0
    <3> DEFINE g == [top EXCEPT !.rule = 1]
    <3>1. g \in Frame /\ g.flag = top.flag /\ g.prereq = top.prereq /\ g.result = Null /\ g.rule = 1
      BY <1>2 DEF Frame
    <3> HIDE DEF g
    <3>2. 1 \in 0..Len(top.flag.rules) + 1
      BY <1>2, FlagFacts
    <3>3. FrameInv(g) /\ Justified(top, g)
      BY <1>1, <1>2, <3>1, <3>2, MovedFrame
    <3>4. f = g
      BY <2>1 DEF g
    <3> QED
      BY <3>1, <3>3, <3>4
  <2>2. CASE target # 0
    <3>1. Gives(result, top.flag, <<"TARGET_MATCH">>)
      BY <1>2, VariationFacts, FlagReasons
    <3>2. f = [top EXCEPT !.result = result]
      BY <2>2
    <3> HIDE DEF result, f
    <3> QED
      BY <1>1, <1>2, <3>1, <3>2, DecidedFrame, FlagReasons
  <2> QED
    BY <2>1, <2>2
<1> HIDE DEF f
<1>4. evals' = [evals EXCEPT ![k].sync = e.sync, ![k].stack = Append(Front(@), f)]
  BY <1>1, <1>2 DEF Eval
<1> QED
  BY <1>1, <1>2, <1>3, <1>4, Worked DEF top

\* An exception ends the call.
Throws ==
  /\ stage = "evaluating" /\ stage' = "settled" /\ outcome' \in {Rejected, Crashed}
  /\ UNCHANGED <<data, call, sync, evals, sent, changes>>

LEMMA ClauseFacts ==
  ASSUME Inv, NEW k \in DOMAIN evals, AtClause(k)
  PROVE  Top(k).rule \in 1..Len(Top(k).flag.rules) /\ Top(k).prereq > Len(Prereqs(Top(k)))
<1>1. Working(k) /\ Top(k).rule \in DOMAIN Top(k).flag.rules
  BY DEF AtClause
<1>2. Top(k) \in Frame /\ FrameInv(Top(k))
  BY <1>1, WorkingFacts
<1>3. Top(k).rule \in 1..Len(Top(k).flag.rules) /\ Len(Top(k).flag.rules) \in Nat
  BY <1>1, <1>2, FrameFacts, FlagFacts
<1> QED
  BY <1>2, <1>3 DEF FrameInv

LEMMA AfterVerdictFacts ==
  ASSUME NEW f \in Frame, FrameInv(f), f.result = Null, f.prereq > Len(Prereqs(f)),
         f.rule \in 1..Len(f.flag.rules), NEW verdict
  PROVE  LET g == AfterVerdict(f, verdict)
         IN  /\ g \in Frame /\ FrameInv(g) /\ g.flag = f.flag /\ g.prereq = f.prereq
             /\ Justified(f, g)
<1> DEFINE g == AfterVerdict(f, verdict)
<1>1. Len(f.flag.rules) \in Nat
  BY FrameFacts, FlagFacts
<1>2. /\ g \in Frame /\ g.flag = f.flag /\ g.prereq = f.prereq /\ g.result = Null
      /\ g.rule = f.rule \/ g.rule = f.rule + 1
  <2>1. CASE verdict = "yes"
    <3>1. g = [f EXCEPT !.clause = f.clause + 1, !.value = 1]
      BY <2>1 DEF AfterVerdict
    <3>2. f.clause + 1 \in Nat
      BY FrameFacts
    <3> HIDE DEF g
    <3> QED
      BY <3>1, <3>2 DEF Frame
  <2>2. CASE verdict # "yes"
    <3>1. g = [f EXCEPT !.rule = f.rule + 1, !.clause = 1, !.value = 1]
      BY <2>2 DEF AfterVerdict
    <3>2. f.rule + 1 \in Nat
      BY FrameFacts
    <3> HIDE DEF g
    <3> QED
      BY <3>1, <3>2 DEF Frame
  <2> QED
    BY <2>1, <2>2
<1> HIDE DEF g
<1>3. g.rule \in 0..Len(f.flag.rules) + 1
  BY <1>1, <1>2
<1>4. FrameInv(g) /\ Justified(f, g)
  BY <1>2, <1>3, MovedFrame
<1> QED
  BY <1>2, <1>4 DEF g

LEMMA TestClauseMoves ==
  ASSUME Inv, NEW k \in DOMAIN evals, TestClause(k)
  PROVE  Moves(k) \/ Throws
<1> DEFINE e == evals[k]
           top == Top(k)
           clause == Clause(top)
           verdict == IF clause.op = "segmentMatch" THEN MaybeNegate(clause, "no")
                      ELSE ClauseMatchUserNoSegments(clause, e.user)
           f == AfterVerdict(top, verdict)
<1>1. /\ AtClause(k) /\ Working(k)
      /\ IF verdict = "throws" THEN Throw(e.sync)
         ELSE Replace(k, f) /\ UNCHANGED <<stage, sent, outcome>>
      /\ UNCHANGED <<data, call, sync, changes>>
  BY DEF TestClause, AtClause
<1>2. /\ e \in Eval /\ e.stack # <<>> /\ top \in Frame /\ FrameInv(top) /\ top.result = Null
      /\ e.sync \in BOOLEAN
  BY <1>1, WorkingFacts, EvalFacts
<1>3. top.rule \in 1..Len(top.flag.rules) /\ top.prereq > Len(Prereqs(top))
  BY <1>1, ClauseFacts
<1> HIDE DEF top, clause, verdict
<1>4. CASE verdict = "throws"
  BY <1>1, <1>4 DEF Throw, Throws, Working
<1>5. CASE verdict # "throws"
  <2>1. f \in Frame /\ FrameInv(f) /\ f.flag = top.flag /\ f.prereq = top.prereq /\ Justified(top, f)
    BY <1>2, <1>3, AfterVerdictFacts
  <2>2. /\ evals' = [evals EXCEPT ![k].stack = Append(Front(@), f)]
        /\ UNCHANGED <<data, call, stage, sync, sent, outcome, changes>>
    BY <1>1, <1>5 DEF Replace
  <2> HIDE DEF f
  <2>3. evals' = [evals EXCEPT ![k].sync = e.sync, ![k].stack = Append(Front(@), f)]
    BY <1>2, <2>2 DEF Eval
  <2> QED
    BY <1>2, <2>1, <2>2, <2>3, Worked DEF top
<1> QED
  BY <1>4, <1>5

LEMMA GetSegmentMoves ==
  ASSUME Inv, NEW k \in DOMAIN evals, NEW late \in BOOLEAN, GetSegment(k, late)
  PROVE  Moves(k) \/ Throws
<1> DEFINE e == evals[k]
           top == Top(k)
           clause == Clause(top)
           segment == data[clause.values[top.value]]
           b == e.sync /\ ~late
           verdict == IF segment = Null THEN "no" ELSE SegmentMatchUser(segment, e.user)
           f == IF verdict = "no" THEN [top EXCEPT !.value = @ + 1]
                ELSE AfterVerdict(top, MaybeNegate(clause, "yes"))
<1>1. /\ AtClause(k) /\ Working(k)
      /\ IF verdict = "throws" THEN Throw(b)
         ELSE /\ evals' = [evals EXCEPT ![k].sync = b, ![k].stack = Append(Front(@), f)]
              /\ UNCHANGED <<stage, sent, outcome>>
      /\ UNCHANGED <<data, call, sync, changes>>
  BY DEF GetSegment, AtClause
<1>2. /\ e \in Eval /\ e.stack # <<>> /\ top \in Frame /\ FrameInv(top) /\ top.result = Null
      /\ b \in BOOLEAN
  BY <1>1, WorkingFacts, EvalFacts
<1>3. top.rule \in 1..Len(top.flag.rules) /\ top.prereq > Len(Prereqs(top))
  BY <1>1, ClauseFacts
<1> HIDE DEF top, clause, segment, verdict, b
<1>4. CASE verdict = "throws"
  BY <1>1, <1>4 DEF Throw, Throws, Working
<1>5. CASE verdict # "throws"
  <2>1. f \in Frame /\ FrameInv(f) /\ f.flag = top.flag /\ f.prereq = top.prereq /\ Justified(top, f)
    <3>1. CASE verdict = "no"
      <4> DEFINE g == [top EXCEPT !.value = @ + 1]
      <4>1. /\ g \in Frame /\ g.flag = top.flag /\ g.prereq = top.prereq /\ g.result = Null
            /\ g.rule = top.rule
        BY <1>2 DEF Frame
      <4> HIDE DEF g
      <4>2. g.rule \in 0..Len(top.flag.rules) + 1
        BY <1>2, <1>3, <4>1, FrameFacts, FlagFacts
      <4>3. FrameInv(g) /\ Justified(top, g)
        BY <1>2, <1>3, <4>1, <4>2, MovedFrame
      <4>4. f = g
        BY <3>1 DEF g
      <4> QED
        BY <4>1, <4>3, <4>4
    <3>2. CASE verdict # "no"
      <4>1. f = AfterVerdict(top, MaybeNegate(clause, "yes"))
        BY <3>2
      <4> QED
        BY <1>2, <1>3, <4>1, AfterVerdictFacts
    <3> QED
      BY <3>1, <3>2
  <2> HIDE DEF f
  <2>2. /\ evals' = [evals EXCEPT ![k].sync = b, ![k].stack = Append(Front(@), f)]
        /\ UNCHANGED <<data, call, stage, sync, sent, outcome, changes>>
    BY <1>1, <1>5
  <2> QED
    BY <1>2, <2>1, <2>2, Worked DEF top
<1> QED
  BY <1>4, <1>5

LEMMA EndRuleMoves ==
  ASSUME Inv, NEW k \in DOMAIN evals, EndRule(k)
  PROVE  Moves(k)
<1> DEFINE e == evals[k]
           top == Top(k)
           flag == top.flag
           rule == Rule(top)
           last == GetResultForVariationOrRollout(flag.fallthrough, e.user, flag, <<"FALLTHROUGH">>)
           hit == GetResultForVariationOrRollout(rule, e.user, flag, RuleReason(flag, rule))
           f == IF top.rule > Len(flag.rules) THEN [top EXCEPT !.result = last]
                ELSE IF rule.clauses = Null THEN AfterVerdict(top, "no")
                ELSE [top EXCEPT !.result = hit]
<1>1. /\ Working(k) /\ top.rule > 0
      /\ evals' = [evals EXCEPT ![k].stack = Append(Front(@), f)]
      /\ UNCHANGED <<data, call, stage, sync, sent, outcome, changes>>
  BY DEF EndRule, Replace, Decide
<1>2. /\ e \in Eval /\ e.stack # <<>> /\ top \in Frame /\ FrameInv(top) /\ top.result = Null
      /\ e.sync \in BOOLEAN /\ flag \in Catalog /\ top.rule \in Nat
  BY <1>1, WorkingFacts, EvalFacts, FrameFacts
<1>3. top.prereq > Len(Prereqs(top))
  BY <1>1, <1>2 DEF FrameInv
<1> HIDE DEF top, rule
<1>4. f \in Frame /\ FrameInv(f) /\ f.flag = top.flag /\ f.prereq = top.prereq /\ Justified(top, f)
  <2>1. CASE top.rule > Len(flag.rules)
    <3>1. Gives(last, flag, <<"FALLTHROUGH">>)
      BY <1>2, RolloutFacts, FlagReasons
    <3>2. f = [top EXCEPT !.result = last]
      BY <2>1
    <3>3. <<"FALLTHROUGH">> \in Reason /\ <<"FALLTHROUGH">>[1] = "FALLTHROUGH"
      BY FlagReasons
    <3> HIDE DEF last, f
    <3> QED
      BY <1>2, <1>3, <3>1, <3>2, <3>3, DecidedFrame
  <2>2. CASE top.rule <= Len(flag.rules) /\ rule.clauses = Null
    <3>1. f = AfterVerdict(top, "no")
      BY <1>2, <2>2, FlagFacts
    <3>2. top.rule \in 1..Len(top.flag.rules)
      BY <1>1, <1>2, <2>2, FlagFacts
    <3> QED
      BY <1>2, <1>3, <3>1, <3>2, AfterVerdictFacts
  <2>3. CASE top.rule <= Len(flag.rules) /\ rule.clauses # Null
    <3>1. RuleReason(flag, rule) \in Reason /\ RuleReason(flag, rule)[1] = "RULE_MATCH"
      BY <1>2, RuleReasonFacts
    <3>2. Gives(hit, flag, RuleReason(flag, rule))
      BY <1>2, <3>1, RolloutFacts
    <3>3. f = [top EXCEPT !.result = hit]
      BY <1>2, <2>3, FlagFacts
    <3> HIDE DEF hit, f
    <3> QED
      BY <1>2, <1>3, <3>1, <3>2, <3>3, DecidedFrame
  <2>4. Len(flag.rules) \in Nat
    BY <1>2, FlagFacts
  <2> QED
    BY <1>2, <2>1, <2>2, <2>3, <2>4
<1> HIDE DEF f
<1>5. evals' = [evals EXCEPT ![k].sync = e.sync, ![k].stack = Append(Front(@), f)]
  BY <1>1, <1>2 DEF Eval
<1> QED
  BY <1>1, <1>2, <1>4, <1>5, Worked DEF top

LEMMA ReturnMoves ==
  ASSUME Inv, NEW k \in DOMAIN evals, Return(k)
  PROVE  Moves(k)
<1> DEFINE e == evals[k]
           child == Last(e.stack)
<1>1. /\ e.stack # <<>> /\ child.result # Null
      /\ UNCHANGED <<data, call, stage, sync, sent, outcome, changes>>
  BY DEF Return
<1>2. /\ e \in Eval /\ StackInv(e) /\ (~NoKey(call.user) => StoryInv(e))
  BY DEF Inv, Types, EvalInv
<1>3. CASE Len(e.stack) = 1
  <2> DEFINE e2 == [e EXCEPT !.stack = <<>>, !.result = child.result]
  <2>1. child.result \in Result
    BY <1>1, <1>2, EvalFacts, TopFacts, FrameFacts
  <2>2. evals' = [evals EXCEPT ![k] = e2]
    BY <1>3 DEF Return
  <2>3. evals'[k] = e2
    BY <2>2
  <2>4. <<>> \in Seq(Frame)
    OBVIOUS
  <2>5. /\ e2 \in Eval /\ e2.flag = e.flag /\ e2.user = e.user /\ e2.events = e.events
        /\ e2.stack = <<>> /\ e2.result = child.result
    <3> HIDE DEF child
    <3> QED
      BY <1>2, <2>1, <2>4 DEF Eval
  <2> HIDE DEF e2
  <2>6. StackInv(e2) /\ (StoryInv(e) => StoryInv(e2))
    BY <1>1, <1>2, <1>3, <2>5, EndedEval
  <2> QED
    BY <1>1, <1>2, <2>2, <2>3, <2>5, <2>6 DEF Moves, EvalInv
<1>4. CASE Len(e.stack) > 1
  <2> DEFINE f == Resumed(e)
             event == ReturnEvent(e)
             e2 == [e EXCEPT !.stack = Append(Front(Front(@)), f), !.events = Append(@, event)]
  <2>1. f \in Frame /\ FrameInv(f) /\ f.flag = Below(e).flag
    BY <1>2, <1>4, ResumedFacts
  <2>2. event \in Event
    BY <1>1, <1>2, <1>4, SatisfiedIsMet, Zenon
  <2>3. evals' = [evals EXCEPT ![k] = e2]
    <3>1. Len(e.stack) # 1
      <4> DEFINE n == Len(e.stack)
      <4>1. n \in Nat /\ n > 1
        BY <1>2, <1>4, EvalFacts
      <4> HIDE DEF n
      <4>2. n # 1
        BY <4>1
      <4> QED
        BY <4>2 DEF n
    <3> QED
      BY <3>1, Zenon DEF Return, Resumed, ReturnEvent, Awaited, Below
  <2>4. evals'[k] = e2
    BY <2>3
  <2> HIDE DEF f, event
  <2>5. Append(Front(Front(e.stack)), f) \in Seq(Frame)
    BY <1>2, <1>4, <2>1, BelowTop, NewTop
  <2>6. Append(e.events, event) \in Seq(Event)
    BY <1>2, <2>2, EvalFacts, AppendProperties
  <2>7. /\ e2 \in Eval /\ e2.flag = e.flag /\ e2.user = e.user /\ e2.result = e.result
        /\ e2.stack = Append(Front(Front(e.stack)), f) /\ e2.events = Append(e.events, event)
    BY <1>2, <2>5, <2>6 DEF Eval
  <2> HIDE DEF e2
  <2>8. StackInv(e2)
    BY <1>2, <1>4, <2>1, <2>7, PoppedStack DEF Below
  <2>9. StoryInv(e) => StoryInv(e2)
    BY <1>1, <1>2, <1>4, <2>7, PoppedStory DEF f, event
  <2> QED
    BY <1>1, <1>2, <2>3, <2>4, <2>7, <2>8, <2>9 DEF Moves, EvalInv
<1>5. Len(e.stack) > 1 \/ Len(e.stack) = 1
  <2> DEFINE n == Len(e.stack)
  <2>1. n \in Nat /\ n >= 1
    BY <1>1, <1>2, EvalFacts, TopFacts
  <2> HIDE DEF n
  <2>2. n > 1 \/ n = 1
    BY <2>1
  <2> QED
    BY <2>2 DEF n
<1> QED
  BY <1>3, <1>4, <1>5

-----------------------------------------------------------------------------
(* The invariant *)

LEMMA CallFacts ==
  /\ \A d \in Datasets : /\ DOMAIN d = FlagKey \cup SegmentKey
                         /\ \A k \in FlagKey : d[k] \in ConfigOf(k)
  /\ \A c \in Changes : c.key \in FlagKey => c.item \in ConfigOf(c.key)
  /\ \A c \in Calls : c.key \in FlagKey \cup {Null}
  /\ MaxChanges \in Nat
  /\ Pending \notin Result /\ Pending \notin AllState /\ Pending # Rejected /\ Pending # Crashed
  BY CallAssumption

LEMMA NoFlagsFacts == DOMAIN NoFlags = {} /\ NoFlags \in [{} -> Eval]
  BY DEF NoFlags

\* The evaluations stay as they are.
LEMMA EvalsStay ==
  ASSUME Inv, UNCHANGED <<evals, call>>
  PROVE  /\ \A k \in DOMAIN evals' : EvalInv(evals[k])'
         /\ evals' \in [DOMAIN evals' -> Eval] /\ DOMAIN evals' \subseteq FlagKey
         /\ \A k \in DOMAIN evals' : evals'[k].flag.key = k /\ evals'[k].user = User'
<1>1. /\ \A k \in DOMAIN evals : EvalInv(evals[k])
      /\ evals \in [DOMAIN evals -> Eval] /\ DOMAIN evals \subseteq FlagKey
      /\ \A k \in DOMAIN evals : evals[k].flag.key = k /\ evals[k].user = User
  BY DEF Inv, Types
<1>2. User' = User
  BY DEF User
<1>3. \A k \in DOMAIN evals' : EvalInv(evals[k])'
  BY <1>1 DEF EvalInv
<1> QED
  BY <1>1, <1>2, <1>3

LEMMA MovesInv ==
  ASSUME Inv, NEW k \in DOMAIN evals, stage = "evaluating", Moves(k)
  PROVE  Inv'
<1>1. /\ evals \in [DOMAIN evals -> Eval] /\ DOMAIN evals \subseteq FlagKey
      /\ \A j \in DOMAIN evals : evals[j].flag.key = j /\ evals[j].user = User
      /\ \A j \in DOMAIN evals : EvalInv(evals[j])
  BY DEF Inv, Types
<1>2. /\ DOMAIN evals' = DOMAIN evals
      /\ \A j \in DOMAIN evals : j # k => evals'[j] = evals[j]
  BY DEF Moves
<1>3. /\ evals'[k] \in Eval /\ evals'[k].flag.key = k /\ evals'[k].user = User
      /\ StackInv(evals'[k]) /\ (~NoKey(call.user) => StoryInv(evals'[k]))
      /\ call' = call
  BY <1>1 DEF Moves, EvalInv
<1>4. User' = User
  BY <1>3 DEF User
<1>5. evals' \in [DOMAIN evals -> Eval]
  BY <1>1, <1>3 DEF Moves
<1>6. \A j \in DOMAIN evals' : evals'[j].flag.key = j /\ evals'[j].user = User'
  BY <1>1, <1>2, <1>3, <1>4
<1>7. \A j \in DOMAIN evals' : EvalInv(evals[j])'
  <2> SUFFICES ASSUME NEW j \in DOMAIN evals
               PROVE  StackInv(evals'[j]) /\ (~NoKey(call.user) => StoryInv(evals'[j]))
    BY <1>2, <1>3 DEF EvalInv
  <2> QED
    BY <1>1, <1>2, <1>3 DEF EvalInv
<1>8. Types'
  BY <1>1, <1>2, <1>5, <1>6 DEF Inv, Types, Moves
<1>9. StageInv' /\ SettledInv'
  BY <1>2 DEF Inv, Moves, StageInv, SettledInv, IsAll
<1> QED
  BY <1>7, <1>8, <1>9 DEF Inv

LEMMA ThrowsInv == ASSUME Inv, Throws PROVE Inv'
<1>1. sent' = <<>>
  BY DEF Inv, StageInv, Throws
<1>2. /\ \A k \in DOMAIN evals' : EvalInv(evals[k])'
      /\ evals' \in [DOMAIN evals' -> Eval] /\ DOMAIN evals' \subseteq FlagKey
      /\ \A k \in DOMAIN evals' : evals'[k].flag.key = k /\ evals'[k].user = User'
  BY EvalsStay DEF Throws
<1>3. outcome' # Pending /\ stage' = "settled"
  BY CallFacts DEF Throws
<1>4. Types'
  BY <1>2, <1>3 DEF Inv, Types, Throws
<1>5. StageInv' /\ SettledInv'
  BY <1>1, <1>3 DEF StageInv, SettledInv
<1> QED
  BY <1>2, <1>4, <1>5 DEF Inv

LEMMA WorkInv == ASSUME Inv, NEW k \in DOMAIN evals, Work(k) PROVE Inv'
<1>1. stage = "evaluating"
  BY Zenon DEF Work, GetPrerequisite, GetSegment, AtClause, Return, TestTargets, TestClause,
               EndRule, Working
<1>2. Moves(k) \/ Throws
  BY GetPrerequisiteMoves, GetSegmentMoves, ReturnMoves, TestTargetsMoves, TestClauseMoves,
     EndRuleMoves DEF Work
<1> QED
  BY <1>1, <1>2, MovesInv, ThrowsInv, Zenon

\* A call that settles without an evaluation.
LEMMA SettledAtOnce ==
  ASSUME Inv, stage \in {"called", "allowed"}, NEW result \in Result \cup AllState,
         NEW events \in Seq(Event), Settle(result, events), sync' \in BOOLEAN,
         UNCHANGED <<data, call, changes>>
  PROVE  Inv'
<1>1. evals' = NoFlags /\ stage' = "settled" /\ outcome' = result /\ evals' = evals
  BY DEF Inv, StageInv, Settle
<1>2. sent' \in Seq(Event)
  BY ConcatProperties DEF Inv, Types, Settle
<1>3. outcome' # Pending
  BY <1>1, CallFacts
<1>4. /\ \A k \in DOMAIN evals' : EvalInv(evals[k])'
      /\ evals' \in [DOMAIN evals' -> Eval] /\ DOMAIN evals' \subseteq FlagKey
      /\ \A k \in DOMAIN evals' : evals'[k].flag.key = k /\ evals'[k].user = User'
  BY <1>1, EvalsStay
<1>5. Types'
  BY <1>1, <1>2, <1>3, <1>4 DEF Inv, Types
<1>6. StageInv' /\ SettledInv'
  BY <1>1 DEF StageInv, SettledInv
<1> QED
  BY <1>4, <1>5, <1>6 DEF Inv

LEMMA UnknownEvent ==
  ASSUME call \in Calls, NEW result \in Result
  PROVE  <<NewUnknownFlagEvent(result)>> \in Seq(Event)
<1>1. call.key \in FlagKey \cup {Null} /\ result.reason \in Reason
  BY CallFacts DEF Result
<1>2. NewUnknownFlagEvent(result) \in Event
  BY <1>1 DEF NewUnknownFlagEvent, Event
<1> QED
  BY <1>2

LEMMA DefaultEvent ==
  ASSUME NEW f \in Catalog, NEW result \in Result
  PROVE  <<NewDefaultEvent(f, result)>> \in Seq(Event)
<1>1. result.reason \in Reason
  BY DEF Result
<1>2. NewDefaultEvent(f, result) \in Event
  BY <1>1, FlagFacts DEF NewDefaultEvent, Event
<1> QED
  BY <1>2

LEMMA EvaluateIfPossibleInv ==
  ASSUME Inv, NEW late \in BOOLEAN, EvaluateIfPossible(late)
  PROVE  Inv'
<1> DEFINE result == ErrorResult("CLIENT_NOT_READY")
<1>1. /\ stage = "called" /\ ~IsAll /\ sync' = ~late /\ UNCHANGED <<data, call, changes>>
  BY DEF EvaluateIfPossible
<1>2. CASE stage' = "allowed" /\ UNCHANGED <<evals, sent, outcome>>
  <2>1. /\ \A k \in DOMAIN evals' : EvalInv(evals[k])'
        /\ evals' \in [DOMAIN evals' -> Eval] /\ DOMAIN evals' \subseteq FlagKey
        /\ \A k \in DOMAIN evals' : evals'[k].flag.key = k /\ evals'[k].user = User'
    BY <1>1, <1>2, EvalsStay
  <2>2. Types'
    BY <1>1, <1>2, <2>1 DEF Inv, Types
  <2>3. StageInv' /\ SettledInv'
    BY <1>1, <1>2 DEF Inv, StageInv, SettledInv
  <2> QED
    BY <2>1, <2>2, <2>3 DEF Inv
<1>3. CASE Settle(result, <<NewUnknownFlagEvent(result)>>)
  <2>1. result \in Result /\ <<NewUnknownFlagEvent(result)>> \in Seq(Event)
    BY ErrorFacts, UnknownEvent DEF Inv, Types
  <2> HIDE DEF result
  <2> QED
    BY <1>1, <1>3, <2>1, SettledAtOnce
<1> QED
  BY <1>2, <1>3 DEF EvaluateIfPossible

LEMMA RefuseInv == ASSUME Inv, Refuse PROVE Inv'
<1> DEFINE result == ErrorResult(IF call.offline THEN "CLIENT_NOT_READY" ELSE "FLAG_NOT_FOUND")
<1>1. stage = "allowed" /\ Settle(result, <<>>) /\ UNCHANGED <<data, call, sync, changes>>
  BY DEF Refuse
<1>2. result \in Result
  BY ErrorFacts
<1>3. <<>> \in Seq(Event) /\ sync' \in BOOLEAN
  BY <1>1 DEF Inv, Types
<1> HIDE DEF result
<1> QED
  BY <1>1, <1>2, <1>3, SettledAtOnce

LEMMA GetFlagInv ==
  ASSUME Inv, NEW late \in BOOLEAN, GetFlag(late)
  PROVE  Inv'
<1> DEFINE flag == data[call.key]
           b == sync /\ ~late
           unknown == ErrorResult("FLAG_NOT_FOUND")
           noUser == ErrorResult("USER_NOT_SPECIFIED")
<1>1. /\ stage = "allowed" /\ call.key # Null /\ sync' = b /\ UNCHANGED <<data, call, changes>>
  BY DEF GetFlag
<1>2. call \in Calls /\ call.key \in FlagKey /\ flag \in ConfigOf(call.key) /\ b \in BOOLEAN
  BY <1>1, CallFacts DEF Inv, Types
<1>3. unknown \in Result /\ noUser \in Result
  BY ErrorFacts
<1>4. CASE flag = Null
  <2>1. Settle(unknown, <<NewUnknownFlagEvent(unknown)>>)
    BY <1>4 DEF GetFlag
  <2> HIDE DEF unknown
  <2> QED
    BY <1>1, <1>2, <1>3, <2>1, UnknownEvent, SettledAtOnce
<1>5. CASE flag # Null /\ call.user = Null
  <2>1. Settle(noUser, <<NewDefaultEvent(flag, noUser)>>)
    BY <1>5 DEF GetFlag
  <2>2. flag \in Catalog
    BY <1>2, <1>5 DEF ConfigOf
  <2> HIDE DEF noUser, flag
  <2> QED
    BY <1>1, <1>2, <1>3, <2>1, <2>2, DefaultEvent, SettledAtOnce
<1>6. CASE flag # Null /\ call.user # Null
  <2>1. /\ stage' = "evaluating" /\ evals' = [k \in {call.key} |-> Evaluate(flag, b)]
        /\ UNCHANGED <<sent, outcome>>
    BY <1>6 DEF GetFlag
  <2>2. flag \in Catalog /\ flag.key = call.key
    BY <1>2, <1>6 DEF ConfigOf
  <2> DEFINE e == Evaluate(flag, b)
  <2> HIDE DEF flag, b
  <2>3. e \in Eval /\ e.flag = flag /\ e.user = User /\ EvalInv(e)
    BY <1>2, <2>2, StartedEval
  <2> HIDE DEF e
  <2>4. DOMAIN evals' = {call.key} /\ evals'[call.key] = e
    BY <2>1 DEF e
  <2>5. evals' \in [{call.key} -> Eval]
    BY <2>1, <2>3 DEF e
  <2>6. User' = User /\ call' = call
    BY <1>1 DEF User
  <2>7. \A k \in DOMAIN evals' : EvalInv(evals[k])'
    <3> SUFFICES StackInv(e) /\ (~NoKey(call.user) => StoryInv(e))
      BY <2>4, <2>6 DEF EvalInv
    <3> QED
      BY <2>3 DEF EvalInv
  <2>8. /\ DOMAIN evals' \subseteq FlagKey
        /\ \A k \in DOMAIN evals' : evals'[k].flag.key = k /\ evals'[k].user = User'
    BY <1>2, <2>2, <2>3, <2>4, <2>6
  <2>9. Types'
    BY <1>1, <1>2, <2>1, <2>4, <2>5, <2>8 DEF Inv, Types
  <2>10. StageInv' /\ SettledInv'
    BY <1>1, <2>1, <2>4 DEF Inv, StageInv, SettledInv
  <2> QED
    BY <2>7, <2>9, <2>10 DEF Inv
<1> QED
  BY <1>4, <1>5, <1>6

LEMMA GetAllInv ==
  ASSUME Inv, NEW late \in BOOLEAN, GetAll(late)
  PROVE  Inv'
<1> DEFINE none == FlagsState(FALSE, NoFlags)
<1>1. stage = "called" /\ IsAll /\ sync' = ~late /\ UNCHANGED <<data, call, changes>>
  BY DEF GetAll
<1>2. CASE Settle(none, <<>>)
  <2>1. none \in AllState
    <3>1. NoFlags \in [{} -> FlagState] /\ {} \in SUBSET FlagKey
      BY DEF NoFlags
    <3>2. NoFlags \in UNION {[K -> FlagState] : K \in SUBSET FlagKey}
      BY <3>1
    <3> QED
      BY <3>2 DEF AllState, FlagsState
  <2>2. <<>> \in Seq(Event)
    OBVIOUS
  <2> HIDE DEF none
  <2> QED
    BY <1>1, <1>2, <2>1, <2>2, SettledAtOnce
<1>3. CASE /\ stage' = "evaluating" /\ evals' = [k \in Wanted |-> Evaluate(data[k], ~late)]
           /\ UNCHANGED <<sent, outcome>>
  <2>1. (~late) \in BOOLEAN
    <3>1. (~late) \in {TRUE, FALSE}
      BY Zenon
    <3> QED
      BY <3>1
  <2>2. call \in Calls /\ Wanted \subseteq FlagKey
    BY DEF Inv, Types, Wanted, Present
  <2>3. \A k \in Wanted : data[k] \in Catalog /\ data[k].key = k
    BY DEF Inv, Types, Wanted, Present, ConfigOf
  <2>4. User' = User /\ call' = call
    BY <1>1 DEF User
  <2>5. DOMAIN evals' = Wanted /\ \A k \in Wanted : evals'[k] = Evaluate(data[k], ~late)
    BY <1>3
  <2>6. \A k \in Wanted : /\ evals'[k] \in Eval /\ evals'[k].flag = data[k]
                          /\ evals'[k].user = User /\ EvalInv(evals'[k])
    <3> TAKE k \in Wanted
    <3>1. data[k] \in Catalog
      BY <2>3
    <3>2. /\ Evaluate(data[k], ~late) \in Eval /\ Evaluate(data[k], ~late).flag = data[k]
          /\ Evaluate(data[k], ~late).user = User /\ EvalInv(Evaluate(data[k], ~late))
      BY <2>1, <2>2, <3>1, StartedEval
    <3> QED
      BY <2>5, <3>2
  <2>7. evals' \in [Wanted -> Eval]
    BY <1>3, <2>5, <2>6
  <2>8. \A k \in DOMAIN evals' : EvalInv(evals[k])'
    <3> SUFFICES ASSUME NEW k \in Wanted
                 PROVE  StackInv(evals'[k]) /\ (~NoKey(call.user) => StoryInv(evals'[k]))
      BY <2>4, <2>5 DEF EvalInv
    <3> QED
      BY <2>6 DEF EvalInv
  <2>9. \A k \in DOMAIN evals' : evals'[k].flag.key = k /\ evals'[k].user = User'
    BY <2>3, <2>4, <2>5, <2>6
  <2>10. Types'
    BY <1>1, <1>3, <2>2, <2>5, <2>7, <2>9 DEF Inv, Types
  <2>11. StageInv' /\ SettledInv'
    BY <1>1, <1>3 DEF Inv, StageInv, SettledInv, IsAll
  <2> QED
    BY <2>8, <2>10, <2>11 DEF Inv
<1> QED
  BY <1>2, <1>3 DEF GetAll

LEMMA FinishVariationInv == ASSUME Inv, FinishVariation PROVE Inv'
<1> DEFINE e == evals[call.key]
           event == NewEvalEvent(e.flag, e.result, Null)
<1>1. /\ stage = "evaluating" /\ ~IsAll /\ e.result # Null
      /\ Settle(e.result, Append(e.events, event)) /\ UNCHANGED <<data, call, sync, changes>>
  BY DEF FinishVariation
<1>2. DOMAIN evals = {call.key} /\ sent = <<>>
  BY <1>1 DEF Inv, StageInv
<1>3. e \in Eval
  BY <1>2 DEF Inv, Types
<1>4. e.result \in Result /\ e.flag \in Catalog /\ e.events \in Seq(Event)
  BY <1>1, <1>3, EvalFacts
<1>5. event \in Event
  BY <1>4, EventFacts
<1> HIDE DEF event
<1>6. Append(e.events, event) \in Seq(Event)
  BY <1>4, <1>5, AppendProperties
<1>7. sent' = Append(e.events, event)
  BY <1>1, <1>2, <1>6 DEF Settle
<1>8. evals' = evals /\ stage' = "settled" /\ outcome' = e.result /\ outcome' # Pending
  BY <1>1, <1>4, CallFacts DEF Settle
<1>9. /\ \A k \in DOMAIN evals' : EvalInv(evals[k])'
      /\ evals' \in [DOMAIN evals' -> Eval] /\ DOMAIN evals' \subseteq FlagKey
      /\ \A k \in DOMAIN evals' : evals'[k].flag.key = k /\ evals'[k].user = User'
  BY <1>1, <1>8, EvalsStay
<1>10. Types'
  BY <1>1, <1>6, <1>7, <1>8, <1>9 DEF Inv, Types
<1>11. event' = event
  BY <1>1, <1>8 DEF event, NewEvalEvent
<1>12. StageInv' /\ SettledInv'
  BY <1>1, <1>2, <1>7, <1>8, <1>11 DEF StageInv, SettledInv, event
<1> QED
  BY <1>9, <1>10, <1>12 DEF Inv

LEMMA FinishAllFlagsInv == ASSUME Inv, FinishAllFlags PROVE Inv'
<1> DEFINE flags == [k \in DOMAIN evals |-> AddFlag(evals[k].flag, evals[k].result)]
           state == FlagsState(TRUE, flags)
<1>1. /\ stage = "evaluating" /\ IsAll /\ \A k \in DOMAIN evals : evals[k].result # Null
      /\ Settle(state, <<>>) /\ UNCHANGED <<data, call, sync, changes>>
  BY DEF FinishAllFlags
<1>2. state \in AllState
  <2>1. \A k \in DOMAIN evals : AddFlag(evals[k].flag, evals[k].result) \in FlagState
    <3> TAKE k \in DOMAIN evals
    <3>1. evals[k] \in Eval
      BY DEF Inv, Types
    <3>2. evals[k].flag \in Catalog /\ evals[k].result \in Result
      BY <1>1, <3>1, EvalFacts
    <3> QED
      BY <3>2, FlagFacts DEF AddFlag, FlagState, Result
  <2>2. flags \in [DOMAIN evals -> FlagState] /\ DOMAIN evals \in SUBSET FlagKey
    BY <2>1 DEF Inv, Types
  <2> HIDE DEF flags
  <2>3. flags \in UNION {[K -> FlagState] : K \in SUBSET FlagKey}
    BY <2>2
  <2> QED
    BY <2>3 DEF AllState, FlagsState
<1> HIDE DEF state
<1>3. /\ evals' = evals /\ stage' = "settled" /\ outcome' = state /\ outcome' # Pending
  BY <1>1, <1>2, CallFacts DEF Settle
<1>4. sent' = sent \o <<>> /\ sent' \in Seq(Event)
  BY <1>1 DEF Settle, Inv, Types
<1>5. /\ \A k \in DOMAIN evals' : EvalInv(evals[k])'
      /\ evals' \in [DOMAIN evals' -> Eval] /\ DOMAIN evals' \subseteq FlagKey
      /\ \A k \in DOMAIN evals' : evals'[k].flag.key = k /\ evals'[k].user = User'
  BY <1>1, <1>3, EvalsStay
<1>6. Types'
  BY <1>1, <1>3, <1>4, <1>5 DEF Inv, Types
<1>7. StageInv' /\ SettledInv'
  BY <1>1, <1>3 DEF StageInv, SettledInv, IsAll
<1> QED
  BY <1>5, <1>6, <1>7 DEF Inv

LEMMA ChangeInv == ASSUME Inv, NEW c \in Changes, Change(c) PROVE Inv'
<1>1. /\ stage # "settled" /\ changes < MaxChanges /\ changes' = changes + 1
      /\ data' = [data EXCEPT ![c.key] = c.item]
      /\ UNCHANGED <<call, stage, sync, evals, sent, outcome>>
  BY DEF Change
<1>2. DOMAIN data' = FlagKey \cup SegmentKey /\ \A k \in FlagKey : data'[k] \in ConfigOf(k)
  BY <1>1, CallFacts DEF Inv, Types
<1>3. changes' \in 0..MaxChanges
  BY <1>1, CallFacts DEF Inv, Types
<1>4. /\ \A k \in DOMAIN evals' : EvalInv(evals[k])'
      /\ evals' \in [DOMAIN evals' -> Eval] /\ DOMAIN evals' \subseteq FlagKey
      /\ \A k \in DOMAIN evals' : evals'[k].flag.key = k /\ evals'[k].user = User'
  BY <1>1, EvalsStay
<1>5. Types'
  BY <1>1, <1>2, <1>3, <1>4 DEF Inv, Types
<1>6. StageInv' /\ SettledInv'
  BY <1>1 DEF Inv, StageInv, SettledInv, IsAll
<1> QED
  BY <1>4, <1>5, <1>6 DEF Inv

LEMMA InitInv == Init => Inv
<1> SUFFICES ASSUME Init PROVE Inv
  OBVIOUS
<1>1. /\ data \in Datasets /\ call \in Calls /\ stage = "called" /\ sync = TRUE /\ evals = NoFlags
      /\ sent = <<>> /\ outcome = Pending /\ changes = 0
  BY DEF Init
<1>2. <<>> \in Seq(Event) /\ 0 \in 0..MaxChanges
  BY CallFacts
<1>3. Types
  BY <1>1, <1>2, CallFacts, NoFlagsFacts DEF Types
<1>4. StageInv /\ SettledInv
  BY <1>1 DEF StageInv, SettledInv
<1> QED
  BY <1>1, <1>3, <1>4, NoFlagsFacts DEF Inv

LEMMA NextInv == Inv /\ [Next]_vars => Inv'
<1> SUFFICES ASSUME Inv, [Next]_vars PROVE Inv'
  OBVIOUS
<1>1. ASSUME NEW late \in BOOLEAN, EvaluateIfPossible(late) \/ GetFlag(late) \/ GetAll(late)
      PROVE  Inv'
  BY <1>1, EvaluateIfPossibleInv, GetFlagInv, GetAllInv
<1>2. CASE UNCHANGED vars
  <2>1. /\ \A k \in DOMAIN evals' : EvalInv(evals[k])'
        /\ evals' \in [DOMAIN evals' -> Eval] /\ DOMAIN evals' \subseteq FlagKey
        /\ \A k \in DOMAIN evals' : evals'[k].flag.key = k /\ evals'[k].user = User'
    BY <1>2, EvalsStay DEF vars
  <2>2. Types'
    BY <1>2, <2>1, Zenon DEF Inv, Types, vars
  <2>3. StageInv' /\ SettledInv'
    BY <1>2, Zenon DEF Inv, StageInv, SettledInv, IsAll, NewEvalEvent, IsExperiment, vars
  <2> QED
    BY <2>1, <2>2, <2>3 DEF Inv
<1> QED
  BY <1>1, <1>2, RefuseInv, WorkInv, FinishVariationInv, FinishAllFlagsInv, ChangeInv
  DEF Next, Proceed

LEMMA SpecInv == Spec => []Inv
  BY InitInv, NextInv, PTL DEF Spec
-----------------------------------------------------------------------------
(* The theorems *)

LEMMA InvTypes == Inv => TypeOK
<1> SUFFICES ASSUME Inv PROVE TypeOK
  OBVIOUS
<1>1. \A k \in FlagKey : data[k] \in Catalog \cup {Null}
  BY DEF Inv, Types, ConfigOf
<1>2. \A k \in DOMAIN evals : evals[k] \in Eval /\ StackInv(evals[k])
  BY DEF Inv, Types, EvalInv
<1>3. {sync} \cup {evals[k].sync : k \in DOMAIN evals} \subseteq BOOLEAN
  BY <1>2, EvalFacts DEF Inv, Types
<1>4. ASSUME NEW k \in DOMAIN evals
      PROVE  /\ Len(evals[k].stack) \in 0..Cardinality(FlagKey)
             /\ \A frame \in Among(evals[k].stack) : FrameOK(frame)
             /\ (evals[k].stack = <<>>) = (evals[k].result # Null)
  <2> DEFINE stack == evals[k].stack
             n == Len(stack)
  <2>1. /\ stack \in Seq(Frame) /\ n \in Nat /\ DOMAIN stack = 1..n
        /\ \A i \in 1..n : stack[i] \in Frame
    BY <1>2, EvalFacts
  <2>2. \A i \in 1..n : FrameInv(stack[i]) /\ i <= Rank[stack[i].flag.key]
    BY <1>2 DEF StackInv
  <2>3. (stack = <<>>) = (evals[k].result # Null)
    BY <1>2 DEF StackInv
  <2> HIDE DEF stack, n
  <2>4. n \in 0..Cardinality(FlagKey)
    <3>1. CASE n = 0
      BY <3>1, RankFacts
    <3>2. CASE n > 0
      <4>1. n \in 1..n
        BY <2>1, <3>2
      <4>2. stack[n].flag.key \in FlagKey
        BY <2>1, <4>1, FrameFacts, FlagFacts
      <4>3. Rank[stack[n].flag.key] \in 1..Cardinality(FlagKey)
        BY <4>2, RankFacts
      <4> QED
        BY <2>1, <2>2, <4>1, <4>3, RankFacts
    <3> QED
      BY <2>1, <3>1, <3>2
  <2>5. \A frame \in Among(stack) : FrameOK(frame)
    BY <2>1, <2>2 DEF Among, FrameInv
  <2> QED
    BY <2>3, <2>4, <2>5 DEF stack, n
<1>5. /\ call \in Calls /\ stage \in {"called", "allowed", "evaluating", "settled"}
      /\ changes \in 0..MaxChanges
  BY DEF Inv, Types
<1>6. (outcome = Pending) = (stage # "settled")
  BY DEF Inv, Types
<1>7. sent # <<>> => stage = "settled"
  BY DEF Inv, StageInv
<1> QED
  BY <1>1, <1>3, <1>4, <1>5, <1>6, <1>7 DEF TypeOK

\* A call always has one of its shapes, a variation that is reported is one the
\* flag has, and the stack is never deeper than there are flags, however
\* configurations change between the reads: prerequisites only lead upwards
\* in Rank (evaluate() and checkPrerequisites() in evaluate_flag.js).
THEOREM EvaluationTypeCorrect == Spec => []TypeOK
  BY SpecInv, InvTypes, PTL

\* The first i positions of an enumeration, and the positions up to one of them.
FirstOf(at, i) == {at[j] : j \in 1..i}
UpTo(P, p) == {q \in P : q <= p}
LEMMA Counted ==
  ASSUME NEW P, P \subseteq Nat, NEW n \in Nat, NEW at, Enumerates(at, n, P), NEW i \in 0..n
  PROVE  /\ Cardinality(FirstOf(at, i)) = i
         /\ i > 0 => Cardinality(UpTo(P, at[i])) = i
<1> DEFINE S == {at[j] : j \in 1..i}
           f == [j \in 1..i |-> at[j]]
<1>1. /\ \A j \in 1..n : at[j] \in P /\ at[j] \in Nat
      /\ \A j, k \in 1..n : j < k => at[j] < at[k]
      /\ \A p \in P : \E j \in 1..n : p = at[j]
  BY DEF Enumerates
<1>2. \A j, k \in 1..n : at[j] <= at[k] => j <= k
  BY <1>1
<1>3. \A j \in 1..i : j \in 1..n
  OBVIOUS
<1>4. f \in Bijection(1..i, S)
  <2>1. f \in [1..i -> S]
    OBVIOUS
  <2>2. \A j, k \in 1..i : f[j] = f[k] => j = k
    BY <1>1, <1>2, <1>3
  <2>3. \A s \in S : \E j \in 1..i : f[j] = s
    OBVIOUS
  <2>4. DOMAIN f = 1..i
    OBVIOUS
  <2> HIDE DEF f, S
  <2> QED
    BY <2>1, <2>2, <2>3, <2>4 DEF Bijection, Injection, Surjection, IsInjective
<1>5. IsFiniteSet(1..i) /\ Cardinality(1..i) = i
  BY FS_Interval
<1>6. Cardinality(S) = i
  <2> HIDE DEF f, S
  <2>1. ExistsBijection(1..i, S)
    BY <1>4 DEF ExistsBijection
  <2> QED
    BY <1>5, <2>1, FS_Bijection
<1>7. ASSUME i > 0 PROVE {q \in P : q <= at[i]} = S
  <2>1. i \in 1..n
    BY <1>7
  <2>2. ASSUME NEW q \in P, q <= at[i] PROVE q \in S
    <3>1. PICK j \in 1..n : q = at[j]
      BY <1>1
    <3>2. j <= i
      BY <1>2, <2>1, <2>2, <3>1
    <3> QED
      BY <3>1, <3>2
  <2>3. ASSUME NEW j \in 1..i PROVE at[j] \in P /\ at[j] <= at[i]
    <3>1. j = i \/ j < i
      BY <2>1
    <3>2. at[j] \in Nat /\ at[i] \in Nat /\ at[j] \in P
      BY <1>1, <1>3, <2>1
    <3> QED
      BY <1>1, <1>3, <2>1, <3>1, <3>2
  <2> QED
    BY <2>2, <2>3
<1> QED
  BY <1>6, <1>7 DEF FirstOf, UpTo

LEMMA InvStory == Inv => EventsExplain
<1> SUFFICES ASSUME Inv, stage = "settled", evals # NoFlags, ~IsAll, sent # <<>>,
                    ~NoKey(call.user)
             PROVE  EventsExplain
  BY Zenon DEF EventsExplain
<1> DEFINE e      == evals[call.key]
           N      == Len(e.events)
           own    == Last(sent)
           flag   == The(own.key, own.version)
           wanted == flag.prerequisites
           looked == {p \in 1..(Len(sent) - 1) : sent[p].prereqOf = flag.key}
           nth(p) == Cardinality({q \in looked : q <= p})
           met(p) == /\ sent[p].variation = wanted[nth(p)].variation
                     /\ The(sent[p].key, sent[p].version).on
           good   == {p \in looked : met(p)}
           failed == Cardinality(good) + 1
<1>1. /\ DOMAIN evals = {call.key} /\ e.result # Null /\ outcome = e.result
      /\ sent = Append(e.events, NewEvalEvent(e.flag, e.result, Null))
  BY DEF Inv, SettledInv
<1>2. e \in Eval /\ StackInv(e) /\ StoryInv(e)
  BY <1>1 DEF Inv, Types, EvalInv
<1>3. /\ e.flag \in Catalog /\ e.events \in Seq(Event) /\ N \in Nat /\ e.result \in Result
      /\ e.flag.key \in FlagKey /\ e.flag.on \in BOOLEAN /\ Len(e.flag.prerequisites) \in Nat
  BY <1>1, <1>2, EvalFacts, FlagFacts, Zenon
<1>4. Explains(e, outcome)
  BY <1>1, <1>2, Zenon DEF StackInv, StoryInv
<1>5. /\ Len(sent) = N + 1 /\ own = NewEvalEvent(e.flag, e.result, Null)
      /\ \A p \in 1..N : sent[p] = e.events[p]
  <2> DEFINE event == NewEvalEvent(e.flag, e.result, Null)
  <2>1. event \in Event
    BY <1>3, EventFacts
  <2> HIDE DEF event
  <2>2. /\ sent \in Seq(Event) /\ Len(sent) = N + 1 /\ sent[N + 1] = event
        /\ \A p \in 1..N : sent[p] = e.events[p]
    BY <1>1, <1>3, <2>1, AppendProperties DEF event
  <2> HIDE DEF e, N
  <2> QED
    BY <2>2 DEF Last, event
<1>6. /\ own.key = e.flag.key /\ own.version = e.flag.version
      /\ own.variation = outcome.variation /\ own.prereqOf = Null
  BY <1>1, <1>3, <1>5, EventFacts
<1>7. flag = e.flag /\ wanted = e.flag.prerequisites
  <2> HIDE DEF own
  <2> QED
    BY <1>3, <1>6, TheFacts
<1> HIDE DEF own, flag, wanted
<1>8. looked = OwnEvents(e)
  BY <1>3, <1>5, <1>7 DEF OwnEvents
<1>9. looked \subseteq Nat /\ looked \subseteq 1..N /\ \A p \in looked : sent[p] = e.events[p]
  BY <1>3, <1>5, <1>8 DEF OwnEvents
<1> HIDE DEF looked
<1>10. CASE ~flag.on
  <2>1. N = 0 /\ outcome = ServedOff(flag, <<"OFF">>)
    BY <1>3, <1>4, <1>7, <1>10, OffIsServedOff DEF Explains
  <2>2. looked = {} /\ Len(sent) = 1
    BY <1>5, <1>9, <2>1
  <2>3. Cardinality(looked) = 0
    BY <2>2, FS_EmptySet, Zenon
  <2> QED
    BY <1>3, <1>6, <1>7, <1>10, <2>1, <2>2, <2>3
       DEF EventsExplain, own, flag, wanted, looked
<1>11. CASE flag.on
  <2>1. PICK n, m \in 0..Len(wanted) :
          /\ m = n \/ m = n - 1
          /\ Looked(e, n, m)
          /\ m < Len(wanted) => outcome = Failed(flag, m + 1)
          /\ m = Len(wanted) => Decided(outcome)
    BY <1>4, <1>7, <1>11 DEF Explains
  <2>2. PICK at \in [1..n -> looked] :
          /\ Enumerates(at, n, looked)
          /\ \A i \in 1..n : /\ e.events[at[i]].key = wanted[i].key
                             /\ Met(e.events[at[i]], wanted[i]) <=> i <= m
    BY <1>7, <1>8, <2>1 DEF Looked
  <2>3. /\ n \in Nat /\ m \in Nat /\ m <= n /\ n <= Len(wanted) /\ Len(wanted) \in Nat
    BY <1>3, <1>7, <2>1
  <2>4. \A i \in 0..n : /\ Cardinality(FirstOf(at, i)) = i
                        /\ i > 0 => Cardinality(UpTo(looked, at[i])) = i
    <3> TAKE i \in 0..n
    <3>1. looked \subseteq Nat /\ n \in Nat /\ Enumerates(at, n, looked)
      BY <1>9, <2>2, <2>3
    <3> QED
      BY <3>1, Counted, ZenonT(30)
  <2>5. /\ \A i \in 1..n : at[i] \in looked /\ nth(at[i]) = i
        /\ \A p \in looked : \E i \in 1..n : p = at[i]
        /\ \A i, j \in 1..n : i < j => at[i] < at[j]
    <3>0. \A i \in 1..n : i \in 0..n /\ i > 0
      BY <2>3
    <3>1. \A i \in 1..n : nth(at[i]) = i
      <4> TAKE i \in 1..n
      <4>1. nth(at[i]) = Cardinality(UpTo(looked, at[i]))
        BY DEF UpTo
      <4> HIDE DEF nth
      <4> QED
        BY <2>4, <3>0, <4>1
    <3> HIDE DEF nth
    <3> QED
      BY <2>2, <3>1 DEF Enumerates
  <2> HIDE DEF nth
  <2>6. \A i \in 1..n : met(at[i]) <=> i <= m
    BY <1>9, <2>2, <2>5 DEF Met
  <2>7. \A i \in 1..n : sent[at[i]].key = wanted[i].key
    BY <1>9, <2>2, <2>5
  <2> HIDE DEF met
  <2>8. good = FirstOf(at, m)
    BY <2>3, <2>5, <2>6 DEF FirstOf
  <2>9. Cardinality(good) = m
    <3>1. m \in 0..n
      BY <2>3
    <3> HIDE DEF good
    <3> QED
      BY <2>4, <2>8, <3>1
  <2>10. Cardinality(looked) = n
    <3>1. looked = FirstOf(at, n)
      BY <2>5 DEF FirstOf
    <3>2. n \in 0..n
      BY <2>3
    <3> QED
      BY <2>4, <3>1, <3>2
  <2>11. \A p \in looked : sent[p].key = wanted[nth(p)].key
    BY <2>5, <2>7
  <2>12. \A p \in looked \ good, q \in looked : q <= p
    <3> SUFFICES ASSUME NEW p \in looked \ good, NEW q \in looked PROVE q <= p
      OBVIOUS
    <3>1. PICK i, j \in 1..n : p = at[i] /\ q = at[j]
      BY <2>5
    <3>2. ~ (i <= m)
      BY <2>6, <3>1
    <3>3. j <= i
      BY <2>1, <2>3, <3>2
    <3>4. p \in Nat /\ q \in Nat
      BY <1>9
    <3> QED
      BY <2>5, <3>1, <3>3, <3>4
  <2> HIDE DEF good
  <2>13. failed <= Len(wanted) =>
           outcome = ServedOff(flag, <<"PREREQUISITE_FAILED", wanted[failed].key>>)
    <3>1. failed = m + 1
      BY <2>9
    <3> HIDE DEF failed
    <3>2. ASSUME failed <= Len(wanted)
          PROVE  outcome = GetOffResult(flag, <<"PREREQUISITE_FAILED", wanted[failed].key>>)
      BY <2>1, <2>3, <3>1, <3>2 DEF Failed, wanted
    <3> QED
      BY <1>3, <1>7, <3>2, OffIsServedOff
  <2>14. failed > Len(wanted) =>
           outcome.reason[1] \in {"TARGET_MATCH", "RULE_MATCH", "FALLTHROUGH"} \/ IsError(outcome)
    BY <2>1, <2>3, <2>9 DEF Decided
  <2>15. Cardinality(looked) <= Len(wanted)
    BY <2>3, <2>10
  <2> HIDE DEF failed
  <2> QED
    BY <1>6, <1>11, <2>11, <2>12, <2>13, <2>14, <2>15, Zenon
       DEF EventsExplain, own, flag, wanted, looked, nth, met, good, failed
<1> QED
  BY <1>3, <1>7, <1>10, <1>11, Zenon

\* When variation() settles, its result and the events it has sent tell one
\* story, whatever changed between the reads: the events name the versions of
\* the prerequisites that were looked at, in order, they say which of them held,
\* and the result is the one that follows (checkPrerequisites() and evalInternal()
\* in evaluate_flag.js, variationInternal() in index.js).
THEOREM EventsTellOneStory == Spec => []EventsExplain
  BY SpecInv, InvStory, PTL
===============================================================================
