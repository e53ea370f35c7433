------------------------- MODULE EvaluationReference -------------------------
(***************************************************************************)
(* What an evaluation should give, said without the order in which the     *)
(* code finds it out, and the properties that compare the code with it.    *)
(***************************************************************************)
EXTENDS Evaluation

\* Prerequisites never lead back to the flag they started from.
ASSUME AcyclicAssumption ==
    \E rank \in [FlagKey -> 1..Cardinality(FlagKey)] :
        \A f \in Catalog : \A i \in DOMAIN f.prerequisites :
            rank[f.key] < rank[f.prerequisites[i].key]

Among(s) == {s[i] : i \in DOMAIN s}
IsList(s) == s \in Seq(Among(s))

\* The users that are evaluated, and the shapes of what they are evaluated with.
Evaluated == {SanitizedUser(c.user) : c \in {x \in Calls : x.user # Null}}
IsClause(c) ==
    c.negate \in BOOLEAN /\ IF c.op = "segmentMatch" THEN c.values \in Seq(SegmentKey)
                            ELSE IsList(c.values)
IsRule(rule) == rule.clauses # Null /\ IsList(rule.clauses)
                /\ \A c \in Among(rule.clauses) : IsClause(c)
IsSegment(segment) == IsList(segment.rules) /\ \A r \in Among(segment.rules) : IsRule(r)
IsRollout(rollout, key) ==
    /\ IsList(rollout.variations) /\ \A p \in Among(rollout.variations) : p.weight \in Nat
    /\ \A user \in Evaluated : BucketUser(user, key, rollout.bucketBy) \in Nat

\* A rule's id names it, and lists are lists.
ASSUME ShapeAssumption ==
    /\ \A f \in Catalog :
          /\ IsList(f.targets)
          /\ \A i, j \in DOMAIN f.rules : f.rules[i].id = f.rules[j].id => i = j
          /\ \A r \in Among(f.rules) : r.clauses = Null \/ IsRule(r)
          /\ \A r \in Among(f.rules) \cup ({f.fallthrough} \ {Null}) :
                r.rollout # Null => IsRollout(r.rollout, f.key)
    /\ \A d \in Datasets : \A k \in SegmentKey : d[k] = Null \/ IsSegment(d[k])
    /\ \A user \in Evaluated : \A attr \in DOMAIN user.own \cup DOMAIN user.custom :
          LET value == UserValue(user, attr)
          IN  value = Null \/ value[1] # "array" \/ IsList(value[2])

Values(user, attr) ==
    LET value == UserValue(user, attr)
    IN  IF value = Null THEN {} ELSE IF value[1] = "array" THEN Among(value[2]) ELSE {value}

ClauseHolds(c, user) ==
    /\ UserValue(user, c.attribute) # Null
    /\ ~c.negate <=> \E a \in Values(user, c.attribute), b \in Among(c.values) : Fn(c.op, a, b) = "yes"

SegmentRuleHolds(rule, user, key) ==
    /\ \A c \in Among(rule.clauses) : ClauseHolds(c, user)
    /\ rule.weight # Null => BucketUser(user, key, rule.bucketBy) < rule.weight

InSegment(segment, user) ==
    LET key == user.own["key"]
    IN  /\ key # Str("")
        /\ \/ key \in segment.included
           \/ /\ key \notin segment.excluded
              /\ \E r \in Among(segment.rules) : SegmentRuleHolds(r, user, segment.key)

Belongs(key, user) == data[key] # Null /\ InSegment(data[key], user)

RuleClauseHolds(c, user) ==
    IF c.op = "segmentMatch" THEN ~c.negate <=> \E key \in Among(c.values) : Belongs(key, user)
    ELSE ClauseHolds(c, user)

RuleHolds(rule, user) ==
    rule.clauses # Null /\ \A i \in DOMAIN rule.clauses : RuleClauseHolds(rule.clauses[i], user)

\* Each part of a rollout owns an interval of buckets, the last one all the rest.
Share(parts, i) == MapThenSumSet(LAMBDA j : parts[j].weight, 1..i)
RolloutPart(parts, bucket) ==
    CHOOSE i \in DOMAIN parts :
        /\ Share(parts, i - 1) <= bucket
        /\ bucket < Share(parts, i) \/ i = Len(parts)

Served(flag, variation, reason) ==
    IF variation = Null \/ variation \notin 0..(flag.variations - 1)
    THEN ErrorResult("MALFORMED_FLAG")
    ELSE [variation |-> variation, reason |-> reason]

ServedBy(flag, r, user, reason) ==
    CASE r = Null -> ErrorResult("MALFORMED_FLAG")
      [] r # Null /\ r.variation # Null -> Served(flag, r.variation, reason)
      [] OTHER ->
            IF r.rollout = Null \/ r.rollout.variations = <<>>
            THEN ErrorResult("MALFORMED_FLAG")
            ELSE LET parts  == r.rollout.variations
                     bucket == BucketUser(user, flag.key, r.rollout.bucketBy)
                 IN  Served(flag, parts[RolloutPart(parts, bucket)].variation, reason)

ServedOff(flag, reason) == IF flag.offVariation = Null
                           THEN [variation |-> Null, reason |-> reason]
                           ELSE Served(flag, flag.offVariation, reason)

\* What the flag gives once all prerequisites hold.
Matched(flag, user) ==
    LET targets == {i \in DOMAIN flag.targets : user.own["key"] \in flag.targets[i].values}
        rules   == {i \in DOMAIN flag.rules : RuleHolds(flag.rules[i], user)}
    IN  CASE targets # {} ->
                Served(flag, flag.targets[Min(targets)].variation, <<"TARGET_MATCH">>)
          [] targets = {} /\ rules # {} ->
                ServedBy(flag, flag.rules[Min(rules)], user, <<"RULE_MATCH", Min(rules)>>)
          [] OTHER -> ServedBy(flag, flag.fallthrough, user, <<"FALLTHROUGH">>)

\* The prerequisites of flag that fail, given the results of all flags.
Unmet(flag, result) ==
    {i \in DOMAIN flag.prerequisites :
        LET p == flag.prerequisites[i]
        IN  ~(/\ data[p.key] # Null
              /\ data[p.key].on
              /\ result[p.key].variation = p.variation)}

ResultOf(flag, user, result) ==
    LET unmet == Unmet(flag, result)
    IN  CASE flag = Null -> Null
          [] flag # Null /\ ~flag.on -> ServedOff(flag, <<"OFF">>)
          [] OTHER -> IF unmet = {} THEN Matched(flag, user)
                      ELSE ServedOff(flag, <<"PREREQUISITE_FAILED",
                                             flag.prerequisites[Min(unmet)].key>>)
Expected(user) == LET result[k \in FlagKey] == ResultOf(data[k], user, result) IN result

\* The events of a flag's prerequisites, up to the first that fails: those of
\* their own prerequisites, then theirs.
Tested(flag, result) ==
    LET unmet == Unmet(flag, result)
    IN  IF flag = Null \/ ~flag.on THEN 0
        ELSE IF unmet = {} THEN Len(flag.prerequisites) ELSE Min(unmet)
After(key, parent, result, trail) ==
    IF data[key] = Null THEN <<>>
    ELSE Append(trail[key], NewEvalEvent(data[key], result[key], parent))
Events(flag, n, result, trail) ==
    FlattenSeq([i \in 1..n |-> After(flag.prerequisites[i].key, flag.key, result, trail)])
Trail(user) ==
    LET result == Expected(user)
        trail[k \in FlagKey] == Events(data[k], Tested(data[k], result), result, trail)
    IN  trail
--------------------------------------------------------------------------------
(* Properties. *)

FrameOK(frame) ==
    /\ frame.flag \in Catalog
    /\ frame.prereq \in 1..(Len(frame.flag.prerequisites) + 1)
    /\ frame.rule \in 0..(Len(frame.flag.rules) + 1)
    /\ frame.clause \in Nat /\ frame.value \in Nat
    /\ frame.result # Null => /\ frame.result.variation \in 0..(frame.flag.variations - 1) \cup {Null}
                              /\ Len(frame.result.reason) \in 1..2

\* Every variable has its shape; a variation that is reported is one the flag
\* has, the stack is never deeper than there are flags, and nothing is sent
\* before the call settles.
TypeOK ==
    /\ \A k \in FlagKey : data[k] \in Catalog \cup {Null}
    /\ call \in Calls
    /\ stage \in {"called", "allowed", "evaluating", "settled"}
    /\ {sync} \cup {evals[k].sync : k \in DOMAIN evals} \subseteq BOOLEAN
    /\ \A k \in DOMAIN evals :
          /\ Len(evals[k].stack) \in 0..Cardinality(FlagKey)
          /\ \A frame \in Among(evals[k].stack) : FrameOK(frame)
          /\ (evals[k].stack = <<>>) = (evals[k].result # Null)
    /\ (outcome = Pending) = (stage # "settled")
    /\ sent # <<>> => stage = "settled"
    /\ changes \in 0..MaxChanges

User == SanitizedUser(call.user)

\* A comparison can only throw if a semVer clause may meet something that is
\* not a string.
CanThrow(c, user) ==
    /\ c.op \in SemVerOps
    /\ \E v \in Values(user, c.attribute) \cup Among(c.values) : ~IsString(v)
RulesMayThrow(item, user) ==
    \E r \in Among(item.rules) :
        r.clauses # Null /\ \E i \in DOMAIN r.clauses : CanThrow(r.clauses[i], user)
MayThrow(user) == \E k \in DOMAIN data : data[k] # Null /\ RulesMayThrow(data[k], user)

ExpectedVariation ==
    CASE ~call.ready /\ ~call.inited -> ErrorResult("CLIENT_NOT_READY")
      [] (call.ready \/ call.inited) /\ call.offline -> ErrorResult("CLIENT_NOT_READY")
      [] OTHER ->
            IF call.key = Null THEN ErrorResult("FLAG_NOT_FOUND")
            ELSE IF data[call.key] = Null THEN ErrorResult("FLAG_NOT_FOUND")
            ELSE IF call.user = Null THEN ErrorResult("USER_NOT_SPECIFIED")
            ELSE IF NoKey(call.user) THEN ErrorResult("USER_NOT_SPECIFIED")
            ELSE Expected(User)[call.key]

\* A call that no update overlaps gives what the definition of a flag says:
\* the first prerequisite that fails in any way, else the first target, the
\* first rule, the fallthrough, and among a rollout's parts the one whose
\* interval holds the user's bucket, whatever order the code reads the store
\* in; the events of all prerequisites that were looked at are sent, innermost
\* first, before the flag's own; and allFlagsState() has an entry for each
\* flag asked for.  A call may fail only where a comparison can throw.
MatchesReference ==
    stage = "settled" /\ changes = 0 =>
        CASE outcome \in {Rejected, Crashed} -> MayThrow(User)
          [] outcome \notin {Rejected, Crashed} /\ ~IsAll ->
                /\ outcome = ExpectedVariation
                /\ evals # NoFlags =>
                      /\ ~NoKey(call.user) => Front(sent) = Trail(User)[call.key]
                      /\ Last(sent) = NewEvalEvent(data[call.key], outcome, Null)
          [] OTHER ->
                /\ sent = <<>>
                /\ outcome.valid = (~call.offline /\ call.user # Null)
                /\ outcome.valid /\ ~NoKey(call.user) =>
                      outcome.flags = [k \in Wanted |-> AddFlag(data[k], Expected(User)[k])]

The(key, version) == CHOOSE f \in Catalog : f.key = key /\ f.version = version

\* Whatever changes while prerequisites are read one by one, the result and
\* the events tell one story: the flag's own event carries the result and the
\* version that was evaluated, its prerequisites were looked at in order and
\* each but the last held by the variation and version its event reports, and
\* the flag went on to its rules exactly if all of them held.
EventsExplain ==
    stage = "settled" /\ evals # NoFlags /\ ~IsAll /\ sent # <<>> /\ ~NoKey(call.user) =>
        LET own    == Last(sent)
            flag   == The(own.key, own.version)
            wanted == flag.prerequisites
            looked == {p \in 1..(Len(sent) - 1) : sent[p].prereqOf = flag.key}
            nth(p) == Cardinality({q \in looked : q <= p})
            met(p) == /\ sent[p].variation = wanted[nth(p)].variation
                      /\ The(sent[p].key, sent[p].version).on
            good   == {p \in looked : met(p)}
            failed == Cardinality(good) + 1
        IN  /\ own.variation = outcome.variation /\ own.prereqOf = Null
            /\ Cardinality(looked) <= Len(wanted)
            /\ \A p \in looked : sent[p].key = wanted[nth(p)].key
            /\ \A p \in looked \ good, q \in looked : q <= p
            /\ ~flag.on => Len(sent) = 1 /\ outcome = ServedOff(flag, <<"OFF">>)
            /\ flag.on /\ failed <= Len(wanted) =>
                  outcome = ServedOff(flag, <<"PREREQUISITE_FAILED", wanted[failed].key>>)
            /\ flag.on /\ failed > Len(wanted) =>
                  \/ outcome.reason[1] \in {"TARGET_MATCH", "RULE_MATCH", "FALLTHROUGH"}
                  \/ IsError(outcome)

\* Every call settles: the promise is resolved or rejected, or the process is
\* brought down by the exception.
EveryCallSettles == <>(stage = "settled")
==============================================================================
