----------------------------- MODULE ByteString -----------------------------
(* Keys: sequences of bytes, ordered as by bytes.Compare.                  *)
EXTENDS Integers, Sequences, FiniteSets, SequencesExt

CONSTANT Null   \* the null address

Prefix(a, n) == SubSeq(a, 1, n)
Drop(a, n) == SubSeq(a, n + 1, Len(a))
MinOf(a, b) == IF a <= b THEN a ELSE b

(* The length of the longest common prefix beyond depth.                   *)
longestCommonPrefix(a, b, depth) ==
    LET limit == MinOf(Len(a), Len(b))
        differ == {i \in depth + 1 .. limit : a[i] # b[i]}
    IN  (IF differ = {} THEN limit ELSE (CHOOSE i \in differ : \A j \in differ : i <= j) - 1)
        - depth

Less(a, b) ==
    LET n == longestCommonPrefix(a, b, 0)
    IN  n < Len(b) /\ (n = Len(a) \/ a[n + 1] < b[n + 1])
=============================================================================
