--------------------------- MODULE MCEventWrapper ---------------------------
EXTENDS EventWrapper

CONSTANTS f1, f2, s1

V(version, deps) == [version |-> version, deleted |-> FALSE, deps |-> deps]
U(n, item) == [node |-> n, item |-> item]
D(n, version) == [node |-> n, version |-> version]

MCItem ==
  {V(v, deps) : v \in 1..2, deps \in SUBSET {f1, f2, s1}} \cup {Tombstone(1), Tombstone(2)}

\* f1 has f2 as its prerequisite in version 1 and uses the segment in version 2; f2
\* uses the segment.
MCUpserts ==
  {U(f1, V(1, {f2})), U(f1, V(2, {s1})), U(s1, V(2, {}))}
MCDeletions == {D(f2, 2), D(s1, 2)}

Items(a, b, c) == [n \in {f1, f2, s1} |-> CASE n = f1 -> a [] n = f2 -> b [] n = s1 -> c]
MCDataSets ==
  {[kinds |-> Kinds, items |-> Items(V(1, {f2}), V(1, {s1}), V(1, {}))],
   [kinds |-> {"features"}, items |-> Items(V(2, {f2}), Absent, Absent)]}
=============================================================================
