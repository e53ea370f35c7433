------------------------------ MODULE FlagRules ------------------------------
(***************************************************************************)
(* The part of evaluate_flag.js that needs no data but its arguments: user *)
(* attributes, clauses, the rules of segments, percentage rollouts and     *)
(* results.  Missing and null fields are Null, but for a user's secondary  *)
(* attribute, which is Undefined where it is missing.  A flag is           *)
(*   [key, version, on, offVariation, prerequisites, targets, rules,       *)
(*    fallthrough, variations, trackEvents, trackFallthrough, clientSide]  *)
(* where variations is the number of variations (their values play no role *)
(* in which one is chosen).  Buckets and weights are integers, in hundred  *)
(* thousandths; the code divides both, so its sums may be off by a         *)
(* rounding error, which is not modelled.                                  *)
(* Operators named <name>_<variant> are mistakes the runs must detect.     *)
(***************************************************************************)
EXTENDS Operators, Integers, Sequences, SequencesExt

CONSTANTS Null, Undefined,
          Builtins,    \* the attributes read from the user itself
          Hash(_, _)   \* the bucket SHA-1 gives a salted key and a text

\* The first verdict other than v that a loop meets, or v: where the loop
\* stops, at a throw too.
FirstOther(v, verdicts) ==
    LET others == {i \in DOMAIN verdicts : verdicts[i] # v}
    IN  IF others = {} THEN v ELSE verdicts[Min(others)]

--------------------------------------------------------------------------------
(* Users: [own |-> attributes, custom |-> attributes, secondary |-> ...]. *)

\* The evaluator turns key and secondary to strings, if they are there, null too.
Stringify(v) ==
    CASE v = Undefined -> v
      [] v = Null -> Str("null")
      [] v # Null /\ v[1] = "boolean" -> Str(IF v[2] THEN "true" ELSE "false")
      [] v # Null /\ IsNumber(v) -> Str(ToString(v[2]))
      [] OTHER -> v

SanitizedUser(user) ==
    [user EXCEPT !.own["key"] = Stringify(@), !.secondary = Stringify(@)]

UserValue(user, attr) ==
    IF attr \in Builtins \cap DOMAIN user.own THEN user.own[attr]
    ELSE IF attr \in DOMAIN user.custom THEN user.custom[attr] ELSE Null

BucketableStringValue(v) ==
    CASE v = Null    -> Null
      [] IsString(v) -> v[2]
      [] IsNumber(v) -> ToString(v[2])
      [] OTHER       -> Null

BucketUser(user, key, attr) ==
    LET text   == BucketableStringValue(UserValue(user, IF attr = Null THEN "key" ELSE attr))
        suffix == IF user.secondary \in {Undefined, Str("")} THEN <<>> ELSE user.secondary
    IN  IF text = Null THEN 0 ELSE Hash(key, <<text, suffix>>)

--------------------------------------------------------------------------------
(* Clauses: [attribute, op, values, negate]; segments: [included,          *)
(* excluded, rules], whose rules are [clauses, weight, bucketBy].          *)

MaybeNegate(c, verdict) ==
    IF verdict = "throws" \/ ~c.negate THEN verdict ELSE Verdict(verdict = "no")

MatchAny(op, value, values) ==
    FirstOther("no", [i \in DOMAIN values |-> Fn(op, value, values[i])])

\* An attribute that is not there matches no clause, a negated one neither.
ClauseMatchUserNoSegments(c, user) ==
    LET value == UserValue(user, c.attribute)
    IN  CASE value = Null         -> "no"
          [] value # Null /\ value[1] = "array" ->
                MaybeNegate(c, FirstOther("no", [i \in DOMAIN value[2] |->
                                                 MatchAny(c.op, value[2][i], c.values)]))
          [] OTHER                -> MaybeNegate(c, MatchAny(c.op, value, c.values))

SegmentRuleMatchUser(rule, user, segmentKey) ==
    LET clauses == FirstOther("yes", [i \in DOMAIN rule.clauses |->
                                     ClauseMatchUserNoSegments(rule.clauses[i], user)])
    IN  IF clauses # "yes" \/ rule.weight = Null THEN clauses
        ELSE Verdict(BucketUser(user, segmentKey, rule.bucketBy) < rule.weight)

SegmentMatchUser_ExcludedFirst(segment, user) ==
    LET key == user.own["key"]
    IN  CASE key = Str("") \/ key \in segment.excluded -> "no"
          [] key \in segment.included \ (segment.excluded \cup {Str("")}) -> "yes"
          [] OTHER -> FirstOther("no", [i \in DOMAIN segment.rules |->
                      SegmentRuleMatchUser(segment.rules[i], user, segment.key)])
SegmentMatchUser(segment, user) ==
    LET key == user.own["key"]
    IN  CASE key = Str("") \/ key \in segment.excluded \ segment.included -> "no"
          [] key \in segment.included \ {Str("")} -> "yes"
          [] OTHER -> FirstOther("no", [i \in DOMAIN segment.rules |->
                      SegmentRuleMatchUser(segment.rules[i], user, segment.key)])

--------------------------------------------------------------------------------
(* Results: [variation |-> index or Null, reason |-> a tuple]. *)

ErrorResult(kind) == [variation |-> Null, reason |-> <<"ERROR", kind>>]

\* The callback gets an error as well as the result.
IsError(result) == result = ErrorResult("MALFORMED_FLAG")

GetVariation_NoUpperBound(flag, index, reason) ==
    IF index = Null THEN ErrorResult("MALFORMED_FLAG")
    ELSE [variation |-> index, reason |-> reason]
GetVariation(flag, index, reason) ==
    IF index \in 0..(flag.variations - 1)
    THEN [variation |-> index, reason |-> reason]
    ELSE ErrorResult("MALFORMED_FLAG")

GetOffResult(flag, reason) ==
    IF flag.offVariation = Null
    THEN [variation |-> Null, reason |-> reason]
    ELSE GetVariation(flag, flag.offVariation, reason)

\* The first bucket whose end lies beyond the user's; the last one takes what
\* the weights leave over.
RolloutVariation(rollout, user, key) ==
    LET parts  == rollout.variations
        bucket == BucketUser(user, key, rollout.bucketBy)
        sum[i \in 0..Len(parts)] == IF i = 0 THEN 0 ELSE sum[i - 1] + parts[i].weight
        hits   == {i \in DOMAIN parts : bucket < sum[i]}
    IN  parts[IF hits = {} THEN Len(parts) ELSE Min(hits)].variation

VariationForUser(r, user, flag) ==
    IF r.variation # Null THEN r.variation
    ELSE IF r.rollout # Null /\ r.rollout.variations # <<>>
         THEN RolloutVariation(r.rollout, user, flag.key)
         ELSE Null

GetResultForVariationOrRollout(r, user, flag, reason) ==
    IF r = Null THEN ErrorResult("MALFORMED_FLAG")
    ELSE GetVariation(flag, VariationForUser(r, user, flag), reason)

\* The first target that lists the user's key, or 0.
TargetOf(flag, user) ==
    SelectInSeq(flag.targets, LAMBDA t : user.own["key"] \in t.values)

\* The reason names the first rule with the matched rule's id.
RuleReason(flag, rule) ==
    <<"RULE_MATCH", SelectInSeq(flag.rules, LAMBDA r : r.id = rule.id)>>
==============================================================================
