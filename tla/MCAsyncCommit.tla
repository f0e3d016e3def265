--------------------------- MODULE MCAsyncCommit ----------------------------
(* Instances of AsyncCommit for TLC. *)
EXTENDS AsyncCommit, TLC

CONSTANTS k1, k2, r1, r2

Opt(a, o, w) == [async |-> a, onePC |-> o, waitUntil |-> w]

(* Two keys by async commit; one key by every combination of protocols,    *)
(* with and without a timestamp to wait for.                               *)
MCTxns ==
    {[keys |-> {k1, k2}, opt |-> Opt(TRUE, TRUE, 0)]} \cup
    {[keys |-> {k1}, opt |-> Opt(a, o, w)] : a \in BOOLEAN, o \in BOOLEAN, w \in {0, 2}}

ResolverSymmetry == Permutations(Resolver)
=============================================================================
