------------------------------ MODULE MVCCStore ------------------------------
(***************************************************************************)
(* The server side of the transaction protocol: the multi-version store    *)
(* the client talks to, translated from the repository's own server,       *)
(* internal/mockstore/mocktikv/mvcc_leveldb.go.  Every handler holds       *)
(* MVCCLevelDB.mu, so a handler is one atomic step here.                   *)
(*                                                                         *)
(* A transaction stands for its start timestamp (they are distinct).  A    *)
(* key holds at most one lock and a set of write records indexed by their  *)
(* commit version, as leveldb does: a record put at an existing version    *)
(* replaces the one that was there.                                        *)
(***************************************************************************)
EXTENDS Naturals, FiniteSets

CONSTANTS
    Txn,        \* the transactions
    Key,        \* the keys
    NoTxn,      \* "no lock" / "no value"
    Keys,       \* Keys[t]: the mutations of t
    LockOnly,   \* LockOnly[t]: the mutations of t that are Op_Lock (no value)
    Primary     \* Primary[t]: t's primary key

ASSUME NoTxnAssumption == NoTxn \notin Txn
ASSUME KeysAssumption == /\ Keys \in [Txn -> SUBSET Key]
                         /\ LockOnly \in [Txn -> SUBSET Key]
                         /\ \A t \in Txn : LockOnly[t] \subseteq Keys[t]
ASSUME PrimaryAssumption == /\ Primary \in [Txn -> Key]
                            /\ \A t \in Txn : Primary[t] \in Keys[t]

VARIABLES
    startTS,    \* startTS[t], 0 while t has not begun
    lock,       \* lock[k]: the transaction that holds k, or NoTxn
    minCommit,  \* minCommit[t]: minCommitTS stored in t's primary lock
    write       \* write[k]: the write records of k

storeVars == <<lock, minCommit, write>>

WriteType == {"Put", "Lock", "Rollback"}
Record == [txn : Txn, type : WriteType, commit : Nat \ {0}]

StoreTypeOK ==
    /\ lock \in [Key -> Txn \cup {NoTxn}]
    /\ minCommit \in [Txn -> Nat]
    /\ write \in [Key -> SUBSET Record]

StoreInit ==
    /\ lock = [k \in Key |-> NoTxn]
    /\ minCommit = [t \in Txn |-> 0]
    /\ write = [k \in Key |-> {}]

-----------------------------------------------------------------------------
(* getTxnCommitInfo: the record that t left on k. *)
InfoOf(t, k) == {w \in write[k] : w.txn = t}
CommitsOf(t, k) == {w \in InfoOf(t, k) : w.type # "Rollback"}
RollbacksOf(t, k) == {w \in InfoOf(t, k) : w.type = "Rollback"}

CommittedOn(t, k) == CommitsOf(t, k) # {}
RolledBackOn(t, k) == RollbacksOf(t, k) # {}

(* Faulty: the record is put one version too high. *)
RollbackRecord_OffByOne(t) ==
    [txn |-> t, type |-> "Rollback", commit |-> startTS[t] + 1]

RollbackRecord(t) == [txn |-> t, type |-> "Rollback", commit |-> startTS[t]]
CommitRecord(t, k, c) ==
    [txn |-> t, type |-> IF k \in LockOnly[t] THEN "Lock" ELSE "Put", commit |-> c]

(* batch.Put(mvccEncode(key, version), value). *)
PutRecord(k, r) ==
    write' = [write EXCEPT ![k] = {w \in @ : w.commit # r.commit} \cup {r}]

(* writeRollback, rollbackLock and commitLock. *)
writeRollback(t, k) == PutRecord(k, RollbackRecord(t))

(* Faulty: the lock is not deleted. *)
rollbackLock_KeepsLock(t, k) ==
    /\ writeRollback(t, k)
    /\ UNCHANGED lock

rollbackLock(t, k) ==
    /\ writeRollback(t, k)
    /\ lock' = [lock EXCEPT ![k] = NoTxn]
commitLock(t, k, c) ==
    /\ PutRecord(k, CommitRecord(t, k, c))
    /\ lock' = [lock EXCEPT ![k] = NoTxn]

-----------------------------------------------------------------------------
(* Faulty: commit records are not checked. *)
Conflict_RollbackOnly(t, k) ==
    \E w \in write[k] : w.type = "Rollback" /\ w.commit > startTS[t]

(* checkConflictValue: any record above the start version, a rollback      *)
(* record too, is a write conflict; t's own rollback record bars it.       *)
Conflict(t, k) == \E w \in write[k] : w.commit > startTS[t]
BarredByRollback(t, k) ==
    \E w \in write[k] : w.type = "Rollback" /\ w.commit = startTS[t]

(* Faulty: the transaction's own rollback record is overlooked. *)
prewriteMutation_IgnoresRollback(t, k) ==
    /\ lock[k] = NoTxn
    /\ ~Conflict(t, k)
    /\ lock' = [lock EXCEPT ![k] = t]
    /\ minCommit' = IF k = Primary[t]
                    THEN [minCommit EXCEPT ![t] = startTS[t] + 1]
                    ELSE minCommit
    /\ UNCHANGED write

(* prewriteMutation, the case that writes the lock.  minCommitTS is kept   *)
(* on the primary lock only.                                               *)
prewriteMutation(t, k) ==
    /\ lock[k] = NoTxn
    /\ ~Conflict(t, k)
    /\ ~BarredByRollback(t, k)
    /\ lock' = [lock EXCEPT ![k] = t]
    /\ minCommit' = IF k = Primary[t]
                    THEN [minCommit EXCEPT ![t] = startTS[t] + 1]
                    ELSE minCommit
    /\ UNCHANGED write

(* What commitKey answers. *)
CommitTSExpired(t, k, c) ==
    /\ lock[k] = t
    /\ k = Primary[t]
    /\ minCommit[t] > c
TxnNotFound(t, k) == lock[k] # t /\ ~CommittedOn(t, k)

(* commitKey, the case that commits; the other cases change nothing. *)
commitKey(t, k, c) ==
    /\ lock[k] = t
    /\ ~CommitTSExpired(t, k, c)
    /\ commitLock(t, k, c)
    /\ UNCHANGED minCommit

(* rollbackKey: the cases that write.  ErrAlreadyCommitted and "already    *)
(* rolled back" change nothing.                                            *)
rollbackKey(t, k) ==
    /\ UNCHANGED minCommit
    /\ \/ lock[k] = t /\ rollbackLock(t, k)
       \/ /\ lock[k] # t
          /\ InfoOf(t, k) = {}
          /\ writeRollback(t, k)
          /\ UNCHANGED lock

(* ResolveLock: settle the lock t holds on k without looking at            *)
(* minCommitTS; c = 0 means roll back.                                     *)
resolveLockOn(t, k, c) ==
    /\ lock[k] = t
    /\ IF c > 0 THEN commitLock(t, k, c) ELSE rollbackLock(t, k)
    /\ UNCHANGED minCommit

-----------------------------------------------------------------------------
(* CheckTxnStatus, one operator per outcome.  Clocks are not modelled:     *)
(* whether the TTL has run out is the caller's nondeterministic choice.    *)

(* Faulty: the expired lock is deleted without leaving a rollback record. *)
StatusExpired_NoRecord(t) ==
    /\ lock[Primary[t]] = t
    /\ lock' = [lock EXCEPT ![Primary[t]] = NoTxn]
    /\ UNCHANGED <<minCommit, write>>

StatusExpired(t) ==
    /\ lock[Primary[t]] = t
    /\ rollbackLock(t, Primary[t])
    /\ UNCHANGED minCommit

(* Faulty: pushed up to the caller's version, not past it. *)
StatusPushed_OffByOne(t, callerTS, currentTS) ==
    /\ lock[Primary[t]] = t
    /\ minCommit[t] > 0
    /\ minCommit' = [minCommit EXCEPT ![t] =
            IF @ >= callerTS THEN @
            ELSE IF callerTS < currentTS THEN currentTS ELSE callerTS]
    /\ UNCHANGED <<lock, write>>

StatusPushed(t, callerTS, currentTS) ==
    /\ lock[Primary[t]] = t
    /\ minCommit[t] > 0
    /\ minCommit' = [minCommit EXCEPT ![t] =
            IF @ >= callerTS + 1 THEN @
            ELSE IF callerTS + 1 < currentTS THEN currentTS ELSE callerTS + 1]
    /\ UNCHANGED <<lock, write>>

StatusCommitted(t, c) ==
    /\ lock[Primary[t]] # t
    /\ \E w \in CommitsOf(t, Primary[t]) : w.commit = c
    /\ UNCHANGED storeVars

StatusRolledBack(t) ==
    /\ lock[Primary[t]] # t
    /\ RolledBackOn(t, Primary[t])
    /\ UNCHANGED storeVars

(* Faulty: an absent primary lock only counts when nobody locks that key. *)
StatusNotExistRollback_Blocked(t) ==
    /\ lock[Primary[t]] = NoTxn
    /\ InfoOf(t, Primary[t]) = {}
    /\ UNCHANGED storeVars

StatusNotExistRollback(t) ==
    /\ lock[Primary[t]] # t
    /\ InfoOf(t, Primary[t]) = {}
    /\ writeRollback(t, Primary[t])
    /\ UNCHANGED <<lock, minCommit>>

-----------------------------------------------------------------------------
(* getValue: what a snapshot read at ts sees of k once no lock blocks it.  *)
Puts(k, ts) == {w \in write[k] : w.type = "Put" /\ w.commit <= ts}
ValueAt(k, ts) ==
    IF Puts(k, ts) = {} THEN NoTxn
    ELSE (CHOOSE w \in Puts(k, ts) : \A x \in Puts(k, ts) : x.commit <= w.commit).txn

(* mvccLock.check: the lock on k blocks a read at ts that does not carry   *)
(* its owner among the resolved transactions.                              *)
LockBlocks(k, ts, resolved) ==
    /\ lock[k] # NoTxn
    /\ startTS[lock[k]] <= ts
    /\ k \notin LockOnly[lock[k]]
    /\ lock[k] \notin resolved
=============================================================================
