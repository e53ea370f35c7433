--------------------------- MODULE MCCachingStore ---------------------------
EXTENDS CachingStore

CONSTANTS k1, k2

V(n) == [version |-> n, deleted |-> FALSE]
Tombstone(n) == [version |-> n, deleted |-> TRUE]

MCKey == {k1, k2}
MCItem == {V(1), V(2), Tombstone(2)}
\* An update of k1, a deletion of k1 that it may lose to, and an update of k2.
MCUpserts ==
  {[key |-> k1, item |-> V(1)], [key |-> k1, item |-> Tombstone(2)], [key |-> k2, item |-> V(2)]}
MCDatasets == {[k \in MCKey |-> IF k = k1 THEN V(2) ELSE NotFound]}
=============================================================================
