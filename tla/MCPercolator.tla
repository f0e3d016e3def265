---------------------------- MODULE MCPercolator -----------------------------
(* Instances of Percolator for TLC: two transactions that overlap on both  *)
(* keys, each with the other's primary among its secondaries.              *)
EXTENDS Percolator, TLC

CONSTANTS t1, t2, k1, k2, r1

MCKeys == [t \in Txn |-> {k1, k2}]
MCLockOnly == (t1 :> {}) @@ (t2 :> {k1})
MCPrimary == (t1 :> k1) @@ (t2 :> k2)

(* For the readers: the second transaction writes one key only. *)
MCReadKeys == (t1 :> {k1, k2}) @@ (t2 :> {k2})

MCNoLockOnly == [t \in Txn |-> {}]

(* The resolver GC runs never stops: it scans, asks for the status with    *)
(* the largest current timestamp, and resolves (tikv/gc.go).               *)
GCFairness ==
    /\ \A k \in Key : WF_vars(ScanLock(k))
    /\ \A t \in Txn : WF_vars(CheckTxnStatus(t))
    /\ \A t \in Txn, k \in Key : WF_vars(ResolveLock(t, k))
FairSpec == Spec /\ GCFairness

(* Whatever clients do or fail to do, crashing included, every lock is     *)
(* eventually removed by the resolver.                                     *)
LocksResolved ==
    \A t \in Txn, k \in Key : (lock[k] = t) ~> (lock[k] # t)
=============================================================================
