------------------------------ MODULE Operators ------------------------------
(***************************************************************************)
(* operators.js: the comparisons a clause can ask for.  A value carries    *)
(* its JavaScript type, because every operator but `in` starts by looking  *)
(* at the types.  What a regular expression, the date parser and the       *)
(* semver package make of a string is left to the constants.               *)
(***************************************************************************)
EXTENDS Naturals

CONSTANTS StringTest(_, _, _), \* whether a string operator holds of two strings
          DateOf(_),           \* the time an RFC 3339 string denotes, or NoDate
          VersionOf(_),        \* the rank of a string as a semantic version, or NoVersion
          LeadingV(_),         \* whether a string starts with "v"
          NoDate, NoVersion

Str(s) == <<"string", s>>
Num(n) == <<"number", n>>
Bool(b) == <<"boolean", b>>
IsString(v) == v[1] = "string"
IsNumber(v) == v[1] = "number"

\* An operator answers, or throws a TypeError.
Verdicts == {"yes", "no", "throws"}
Verdict(b) == IF b THEN "yes" ELSE "no"

StringOps  == {"endsWith", "startsWith", "matches", "contains"}
NumericOps == {"lessThan", "lessThanOrEqual", "greaterThan", "greaterThanOrEqual"}
DateOps    == {"before", "after"}
SemVerOps  == {"semVerEqual", "semVerLessThan", "semVerGreaterThan"}

Compare(op, x, y) ==
    CASE op \in {"lessThan", "before", "semVerLessThan"}      -> x < y
      [] op = "lessThanOrEqual"                               -> x <= y
      [] op \in {"greaterThan", "after", "semVerGreaterThan"} -> x > y
      [] op = "greaterThanOrEqual"                            -> x >= y
      [] op = "semVerEqual"                                   -> x = y

StringOperator(op, a, b) ==
    Verdict(IsString(a) /\ IsString(b) /\ StringTest(op, a[2], b[2]))

NumericOperator(op, a, b) ==
    Verdict(IsNumber(a) /\ IsNumber(b) /\ Compare(op, a[2], b[2]))

\* A number is a time already, and nothing but strings and numbers is a date.
ParseDate(v) == IF IsNumber(v) THEN v[2]
                ELSE IF IsString(v) THEN DateOf(v[2]) ELSE NoDate

DateOperator(op, a, b) ==
    Verdict(/\ NoDate \notin {ParseDate(a), ParseDate(b)}
            /\ Compare(op, ParseDate(a), ParseDate(b)))

ParseSemVer(s) == IF LeadingV(s) THEN NoVersion ELSE VersionOf(s)

\* Both operands are parsed before they are compared, and parseSemVer calls a
\* string's method on whatever it is given.
SemVerOperator(op, a, b) ==
    IF ~IsString(a) \/ ~IsString(b) THEN "throws"
    ELSE Verdict(/\ NoVersion \notin {ParseSemVer(a[2]), ParseSemVer(b[2])}
                 /\ Compare(op, ParseSemVer(a[2]), ParseSemVer(b[2])))

\* operators.fn(op)(a, b); an operator the table does not know never holds.
Fn(op, a, b) ==
    CASE op = "in"            -> Verdict(a = b)
      [] op \in StringOps     -> StringOperator(op, a, b)
      [] op \in NumericOps    -> NumericOperator(op, a, b)
      [] op \in DateOps       -> DateOperator(op, a, b)
      [] op \in SemVerOps     -> SemVerOperator(op, a, b)
      [] OTHER                -> "no"
==============================================================================
