---------------------------- MODULE MCRedisStore ----------------------------
EXTENDS RedisStore

CONSTANTS s1, s2, s3, own, shared, k1, k2

V(n) == [version |-> n, deleted |-> FALSE]
Tombstone(n) == [version |-> n, deleted |-> TRUE]

\* Two stores with the application's client, and one with a client of its own.
MCConnOf == [s \in {s1, s2, s3} |-> IF s = s3 THEN own ELSE shared]
MCClientFrom == [s \in {s1, s2, s3} |-> IF s = s3 THEN "created" ELSE "option"]
MCItem == {V(1), V(2), Tombstone(2)}
MCUpserts ==
  {[key |-> k1, item |-> V(1)], [key |-> k1, item |-> Tombstone(2)], [key |-> k2, item |-> V(1)]}
MCDatasets == {[k \in {k1, k2} |-> IF k = k1 THEN V(2) ELSE Absent]}
MCBefore == [k \in {k1, k2} |-> IF k = k2 THEN V(1) ELSE Absent]

\* One store that is given a client that is already connected.
ArgumentClient == [s \in {s1} |-> "argument"]
ArgumentConn == [s \in {s1} |-> own]
=============================================================================
