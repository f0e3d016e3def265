-------------------------- MODULE MCSnapshotRead --------------------------
EXTENDS SnapshotRead

CONSTANTS r1, r2

Value(v, ts) == [val |-> v, ts |-> ts]
Lock(txn, v, ts, fate, ttl, memory) ==
    [txn |-> txn, val |-> v, ts |-> ts, fate |-> fate, ttl |-> ttl, memory |-> memory]

GetOf(key, need) == [op |-> "get", key |-> key, need |-> need]
BatchOf(keys, need) == [op |-> "batch", keys |-> keys, need |-> need]
ScanOf(start, end, reverse) == [op |-> "scan", start |-> start, end |-> end, reverse |-> reverse]

Data == <<Value("a", 1), Value("b", 2), Value("c", 3), Null>>

\* A transaction committed on key 2 and a lock in memory that is pushed.
InBatch == <<Null, Lock("s", "x", 7, "committed", 0, FALSE), Null, Lock("t", "y", 9, "later", 1, TRUE)>>
\* A transaction committed on 1 and 3, one that rolls back.
Waiting == <<Lock("s", Null, 7, "committed", 1, FALSE), Lock("t", "y", 8, "rolledBack", 0, FALSE),
             Lock("s", "z", 7, "committed", 1, FALSE), Null>>
Unlocked == <<Null, Null, Null, Null>>

Programs(x, y) == [p \in Readers |-> IF p = r1 THEN x ELSE y]

Scene(b, l, x, y, c, f, async) ==
    [borders |-> b, data |-> Data, locks |-> l, todo |-> Programs(x, y), changes |-> c,
     faults |-> f, async |-> async]

\* One batch over regions that change.
BatchScenes == {Scene({3}, InBatch, <<BatchOf(Keys, TRUE)>>, <<>>, 2, 0, TRUE),
                Scene({3}, InBatch, <<BatchOf(Keys, TRUE)>>, <<>>, 1, 1, FALSE),
                Scene({3}, Waiting, <<BatchOf(Keys \ {4}, TRUE)>>, <<>>, 2, 0, FALSE),
                Scene({3}, Waiting, <<BatchOf(Keys \ {4}, TRUE)>>, <<>>, 1, 1, TRUE)}
\* Two callers share the results: with and without commit timestamps.
Shared == {Scene({3}, InBatch, <<BatchOf({1, 2}, FALSE), GetOf(1, TRUE), BatchOf({1, 3}, FALSE)>>,
                 <<GetOf(2, TRUE), GetOf(3, TRUE)>>, 0, 1, FALSE)}
\* Scans to the end and of a part, in both directions.
Scans == {Scene({3}, l, <<s>>, <<>>, 2, 0, FALSE) :
             l \in {InBatch, Waiting}, s \in {ScanOf(0, 0, FALSE), ScanOf(2, 4, FALSE),
                                              ScanOf(0, 0, TRUE), ScanOf(2, 4, TRUE)}}

\* Scans whose requests fail.
Failing == {Scene({3}, Waiting, <<ScanOf(1, 4, r)>>, <<>>, 0, 1, FALSE) : r \in BOOLEAN}

MCScenes == BatchScenes \cup Shared \cup Scans \cup Failing
===========================================================================
