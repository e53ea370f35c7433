---------------------------- MODULE MCEvaluation ----------------------------
(***************************************************************************)
(* Flags "a", "b", "c", where "a" may need "b" and "c" and "b" may need    *)
(* "c", and a segment "s": every combination of a few configurations each. *)
(***************************************************************************)
EXTENDS EvaluationReference

MCStringTest(op, a, b) == op = "startsWith" /\ <<a, b>> \in {<<"u1", "u">>, <<"u", "u">>}
MCDateOf(s) == IF s = "2020" THEN 20 ELSE NoDate
MCVersionOf(s) == CASE s = "1.0" -> 10 [] s = "2.0" -> 20 [] OTHER -> NoVersion
MCLeadingV(s) == s = "v1"
\* A user with a secondary attribute, null too, falls into another bucket of "c".
MCHash(key, text) ==
    CASE text[1] = "u1" -> 50000
      [] text[1] # "u1" /\ key = "c" -> IF text[2] = <<>> THEN 0 ELSE 100000
      [] OTHER -> 49999

Var(n) == [variation |-> n, rollout |-> Null]
Split(attr, weights) ==
    [variation |-> Null, rollout |-> [bucketBy |-> attr,
        variations |-> [i \in DOMAIN weights |-> [variation |-> i - 1, weight |-> weights[i]]]]]
Needs(k, v) == [key |-> k, variation |-> v]
Is(attr, op, values, negate) ==
    [attribute |-> attr, op |-> op, values |-> values, negate |-> negate]
RuleOf(id, clauses, r, track) ==
    [id |-> id, clauses |-> clauses, variation |-> r.variation, rollout |-> r.rollout,
     trackEvents |-> track]
InS(negate) == Is(Null, "segmentMatch", <<"t", "s">>, negate)

Flag(key, version, prerequisites, targets, rules, fallthrough) ==
    [key |-> key, version |-> version, on |-> TRUE, offVariation |-> 1,
     prerequisites |-> prerequisites, targets |-> targets, rules |-> rules,
     fallthrough |-> fallthrough, variations |-> 2,
     trackEvents |-> version = 2, trackFallthrough |-> version = 3, clientSide |-> key # "b"]

Segment(rules, included, excluded) ==
    [key |-> "s", included |-> included, excluded |-> excluded, rules |-> rules]
SegmentRule(clauses, weight) == [clauses |-> clauses, weight |-> weight, bucketBy |-> Null]

A == {Flag("a", 1, <<Needs("b", 0), Needs("c", 1)>>, <<>>,
           <<RuleOf("r1", Null, Var(1), FALSE), RuleOf("r2", <<InS(FALSE)>>, Var(1), TRUE)>>, Var(0)),
      Flag("a", 2, <<Needs("c", 0)>>, <<[values |-> {Str("u1")}, variation |-> 0]>>,
           <<RuleOf("r1", <<InS(TRUE), Is("n", "greaterThan", <<Num(4)>>, FALSE)>>,
                    Split("key", <<50000, 50000>>), TRUE)>>, Var(5)),
      Flag("a", 3, <<>>, <<>>,
           <<RuleOf("r1", <<Is("x", "in", <<Str("v")>>, TRUE)>>, Var(0), FALSE),
             RuleOf("r2", <<Is("n", "semVerLessThan", <<Str("v1"), Str("2.0")>>, FALSE)>>, Var(1), FALSE)>>,
           Split("n", <<0, 50000>>)),
      [Flag("a", 4, <<>>, <<>>, <<>>, Null) EXCEPT !.on = FALSE, !.offVariation = 7]}

BRules == Flag("b", 3, <<>>, <<>>,
    <<RuleOf("r1", <<Is("list", "semVerEqual", <<Str("1.0")>>, TRUE)>>, Var(1), FALSE),
      RuleOf("r2", <<Is("list", "before", <<Str("2020")>>, FALSE)>>, Var(0), FALSE)>>, Null)
B == {Flag("b", 1, <<Needs("c", 1)>>, <<>>, <<>>, Var(0)),
      [Flag("b", 2, <<Needs("c", 1)>>, <<>>, <<>>, Var(0)) EXCEPT !.on = FALSE, !.offVariation = 0],
      BRules}

CSplit == Flag("c", 1, <<>>, <<>>,
    <<RuleOf("r1", <<Is("email", "startsWith", <<Str("u")>>, FALSE)>>, Var(1), FALSE)>>,
    Split("key", <<30000, 50000>>))
C == {CSplit,
      [Flag("c", 2, <<>>, <<>>, <<>>, Var(1)) EXCEPT !.offVariation = Null, !.on = FALSE],
      Flag("c", 3, <<>>, <<>>, <<>>, Var(1))}

S == {Segment(<<>>, {Str("u1")}, {Str("u1"), Str("7")}),
      Segment(<<SegmentRule(<<Is("x", "in", <<Str("v")>>, FALSE)>>, Null),
                SegmentRule(<<Is("key", "in", <<Str("7"), Str("u1")>>, FALSE)>>, 50000)>>, {}, {Str("")})}

MCFlagKey == {"a", "b", "c"}
MCCatalog == A \cup B \cup C
\* Versions 3 and 4 of "a" have no prerequisites, so one "b" and one "c" will do.
Suits(a, b, c) == a.version > 2 => b # Null /\ c # Null /\ b = BRules /\ c = CSplit
MCDatasets == {[k \in MCFlagKey \cup {"s", "t"} |->
                   CASE k = "a" -> x[1] [] k = "b" -> x[2] [] k = "c" -> x[3]
                     [] k = "s" -> x[4] [] k = "t" -> Null] :
               x \in {y \in A \X (B \cup {Null}) \X (C \cup {Null}) \X S : Suits(y[1], y[2], y[3])}}
MCChanges == {[key |-> "c", item |-> c] : c \in C} \cup {[key |-> "c", item |-> Null]}
             \cup {[key |-> "b", item |-> b] : b \in {x \in B : x.version < 3}}
             \cup {[key |-> "s", item |-> s] : s \in S}

Person(own, custom) == [own |-> own, custom |-> custom, secondary |-> Undefined]
Users == {Person([key |-> Str("u1"), email |-> Null],
                 [n |-> Num(5), email |-> Str("u1"), list |-> <<"array", <<Str("1.0"), Str("v1")>>>>]),
          [Person([key |-> Num(7), email |-> Str("u")],
                  [n |-> Str("1.0"), list |-> <<"array", <<Bool(TRUE), Num(19)>>>>])
             EXCEPT !.secondary = Null]}
BooleanUser == [Person([key |-> Bool(TRUE)], [n |-> Num(5)]) EXCEPT !.secondary = Bool(FALSE)]
NoKeyUser == Person([key |-> Null], [n |-> Num(5)])

Variation(key, user) ==
    [op |-> "variation", key |-> key, user |-> user, reasons |-> FALSE, clientOnly |-> FALSE,
     trackedOnly |-> FALSE, ready |-> TRUE, offline |-> FALSE, inited |-> TRUE]
Details(c) == [c EXCEPT !.op = "variationDetail", !.reasons = TRUE]
AllFlags(user) == [Variation(Null, user) EXCEPT !.op = "allFlagsState"]
MCCalls ==
    LET u == CHOOSE x \in Users : x.own["key"] = Str("u1")
    IN  {Variation("a", x) : x \in Users} \cup
        {Details(Variation("a", u)), Variation(Null, u), Variation("c", Null),
         Variation("c", NoKeyUser), Variation("c", BooleanUser), AllFlags(Null), AllFlags(NoKeyUser),
         [AllFlags(u) EXCEPT !.reasons = TRUE, !.trackedOnly = TRUE, !.clientOnly = TRUE],
         [Variation("c", u) EXCEPT !.ready = FALSE],
         [Details(Variation("b", u)) EXCEPT !.ready = FALSE, !.inited = FALSE],
         [Variation("c", u) EXCEPT !.offline = TRUE]}
=============================================================================
