------------------------- MODULE AsyncCommitProofs --------------------------
(***************************************************************************)
(* Proofs about AsyncCommit, for any keys, resolvers, transactions and     *)
(* timestamps: client and resolvers agree, what Commit() returns is true,  *)
(* and the version is right.                                               *)
(*                                                                         *)
(* IndInv says what resp, the answer of the one prewrite that ran on each  *)
(* key, stands for.  A step is reduced to its effects (StepEffects), to    *)
(* what it cannot undo (Frame) and to the records it may put (Records);    *)
(* one lemma per part of IndInv follows from these and from the actions    *)
(* that touch the part.                                                    *)
(***************************************************************************)
EXTENDS AsyncCommit, FiniteSetTheorems, TLAPS

-----------------------------------------------------------------------------
(* The transaction is one of Txns.                                         *)
LEMMA TxnFacts ==
    ASSUME TypeOK
    PROVE  /\ keys \subseteq Key /\ Primary \in keys /\ IsFiniteSet(keys)
           /\ opt.async \in BOOLEAN /\ opt.onePC \in BOOLEAN /\ opt.waitUntil \in Nat
<1>1. [keys |-> keys, opt |-> opt] \in Txns
  BY DEF TypeOK
<1>2. keys \subseteq Key /\ Primary \in keys
  BY <1>1, KeyAssumption, TxnsAssumption
<1>3. IsFiniteSet(keys)
  BY <1>2, KeyAssumption, FS_Subset
<1>4. opt \in [async : BOOLEAN, onePC : BOOLEAN, waitUntil : Nat]
  BY <1>1, TxnsAssumption
<1> QED BY <1>2, <1>3, <1>4

(* 1PC is tried only when there is one batch (checkOnePC), which is the    *)
(* primary.                                                                *)
LEMMA OnePCKeys ==
    ASSUME TypeOK, checkOnePC
    PROVE  keys = {Primary}
<1>1. Cardinality(keys) = 1
  BY DEF checkOnePC
<1>2. \E x : keys = {x}
  BY <1>1, TxnFacts, FS_Singleton
<1> QED BY <1>2, TxnFacts

(* A transaction that has not been committed yet satisfies the invariant.  *)
LEMMA InitInv == Init => IndInv
<1> SUFFICES ASSUME Init PROVE IndInv
  OBVIOUS
<1>1. TypeOK
  <2>1. PICK t \in Txns : keys = t.keys /\ opt = t.opt
    BY DEF Init
  <2>2. t.keys \subseteq Key
    BY TxnsAssumption
  <2>3. [keys |-> keys, opt |-> opt] = t
    BY <2>1, TxnsAssumption
  <2>4. 0 \in TS /\ StartTS \in TS
    BY TSAssumption DEF TS
  <2>5. res \in [Resolver -> Task]
    BY <2>4 DEF Init, Idle, Task
  <2>6. lock \in [Key -> [held : BOOLEAN, async : BOOLEAN, min : TS]]
    BY <2>4 DEF Init, NoLock
  <2> QED
    BY <2>3, <2>4, <2>5, <2>6 DEF Init, TypeOK
<1>2. keys \subseteq Key
  BY <1>1, TxnFacts
<1> QED
  BY <1>1, <1>2, TSAssumption
  DEF Init, IndInv, RecordsTell, Clocks, RequestsAbove, PrewritesTell, ReadsBelow, FreshBefore,
      ProtocolKnown, MgrIsLargest, FallbackIsLarge, FailuresKnown, DecisionKnown, ResolversKnow, Knows,
      Before, Fallback, NoLock, Idle, NextTS

-----------------------------------------------------------------------------
(* What no step undoes: an answered prewrite, a record, a failed batch and *)
(* the end of prewriting.                                                  *)
Frame ==
    /\ keys' = keys /\ opt' = opt
    /\ \A k \in keys :
          /\ resp'[k] = resp[k] \/ (resp[k] = -1 /\ write[k] = -1 /\ req[k] # {})
          /\ write'[k] = write[k] \/ write[k] = -1
          /\ req[k] = {} => req'[k] = {} \/ (phase = "prewrite" /\ batch[k] # "err")
          /\ batch[k] = "err" => batch'[k] = "err"
    /\ phase \notin Before => phase' \notin Before /\ UNCHANGED <<commitTS, async, onePC>>

(* Settling a lock (ResolveLock, Commit) never rewrites a record.          *)
LEMMA SettleFrame ==
    ASSUME IndInv, NEW k \in keys, NEW ts, Settle(k, ts)
    PROVE  \A j \in keys : write'[j] = write[j] \/ write[j] = -1
  BY TxnFacts DEF IndInv, TypeOK, PrewritesTell, Settle

(* No step of the committer, a store or a resolver undoes any of it.       *)
LEMMA FrameStep ==
    ASSUME IndInv, Next
    PROVE  Frame
<1> USE DEF IndInv, Frame, Before, vars, serverVars, clientVars, flagVars, txnVars
<1>0. keys \subseteq Key /\ Primary \in keys
  BY TxnFacts
<1>1. TypeOK
  OBVIOUS
<1>2. CASE Tick
  BY <1>2 DEF Tick
<1>3. ASSUME NEW k \in keys, NEW ts \in 1 .. tso, Read(k, ts) PROVE Frame
  BY <1>3 DEF Read
<1>4. CASE Execute \/ ExecuteFails
  BY <1>4 DEF Execute, ExecuteFails
<1>5. ASSUME NEW k \in keys, SendPrewrite(k) PROVE Frame
  BY <1>5, <1>0, <1>1 DEF SendPrewrite, TypeOK
<1>6. ASSUME NEW k \in keys, Prewrite(k) PROVE Frame
  <2>1. PICK q \in req[k], plain \in BOOLEAN : RunPrewrite(k, q, plain)
    BY <1>6 DEF Prewrite
  <2>2. resp[k] = -1 /\ write[k] = -1 /\ req[k] # {}
    BY <2>1 DEF RunPrewrite, PrewritesTell
  <2> QED
    BY <2>1, <2>2, <1>0, <1>1 DEF RunPrewrite, TypeOK
<1>7. ASSUME NEW k \in keys, PrewriteSucceed(k) PROVE Frame
  BY <1>7, <1>0, <1>1 DEF PrewriteSucceed, TypeOK
<1>8. ASSUME NEW k \in keys, PrewriteRefused(k) \/ PrewriteRPCError(k) \/ PrewriteCancelled(k)
      PROVE Frame
  BY <1>8, <1>0, <1>1 DEF PrewriteRefused, PrewriteRPCError, PrewriteCancelled, BatchFails, TypeOK
<1>9. ASSUME NEW k \in keys, PrewriteConflict(k) PROVE Frame
  BY <1>9, <1>0, <1>1 DEF PrewriteConflict, TypeOK
<1>10. ASSUME NEW k \in keys, PrewriteUndeterminedResult(k) PROVE Frame
  BY <1>10, <1>0, <1>1 DEF PrewriteUndeterminedResult, TypeOK
<1>11. ASSUME NEW k \in keys, CommitKey(k) PROVE Frame
  BY <1>11, SettleFrame DEF CommitKey
<1>12. ASSUME NEW k \in keys, CleanupKey(k) PROVE Frame
  BY <1>12, <1>0, <1>1 DEF CleanupKey, TypeOK, TS, PrewritesTell
<1>13. CASE PrewriteFail \/ TakesTooLong \/ FallbackSchemaFail
  BY <1>13 DEF PrewriteFail, TakesTooLong, FallbackSchemaFail, Leave, Prewritten
<1>14. CASE OnePCCommit \/ AsyncCommitted \/ FallbackCommit
  BY <1>14 DEF OnePCCommit, AsyncCommitted, FallbackCommit, Prewritten
<1>15. CASE CommitPrimaryNotFound \/ Crash
  BY <1>15 DEF CommitPrimaryNotFound, Crash, Leave
<1>16. ASSUME NEW r \in Resolver, CheckAsyncPrimary(r) \/ DetermineStatus(r) \/ ResolverReset(r)
       PROVE Frame
  BY <1>16 DEF CheckAsyncPrimary, DetermineStatus, ResolverReset
<1>17. ASSUME NEW r \in Resolver, CheckSyncPrimary(r) PROVE Frame
  BY <1>17, <1>0, <1>1 DEF CheckSyncPrimary, TypeOK, PrewritesTell
<1>18. ASSUME NEW r \in Resolver, NEW k \in Secondaries, CheckSecondary(r, k) PROVE Frame
  BY <1>18, <1>0, <1>1 DEF CheckSecondary, ProtectKey, Secondaries, TypeOK
<1>19. ASSUME NEW r \in Resolver, NEW k \in keys, ResolveKey(r, k) PROVE Frame
  BY <1>19, SettleFrame DEF ResolveKey
<1> QED
  BY <1>2, <1>3, <1>4, <1>5, <1>6, <1>7, <1>8, <1>9, <1>10, <1>11, <1>12, <1>13, <1>14, <1>15,
     <1>16, <1>17, <1>18, <1>19
  DEF Next

(* What is decided stays decided.                                          *)
LEMMA Stable ==
    ASSUME IndInv, Frame
    PROVE  /\ Sync => Sync'
           /\ Dead => Dead'
           /\ Barred => Barred'
           /\ RolledBack => RolledBack'
           /\ \A v : Committed(v) /\ v > 0 => Committed(v)'
<1>1. Sync => Sync'
  BY DEF Frame, Sync
<1>2. Dead => Dead'
  BY DEF Frame, Dead
<1>3. Barred => Barred'
  BY DEF Frame, Barred, Before
<1>4. Primary \in keys
  BY TxnFacts DEF IndInv
<1>5. write[Primary] # -1 => write'[Primary] = write[Primary]
  BY <1>4 DEF Frame
<1>6. ASSUME NEW v, CommittedByLocks(v) PROVE CommittedByLocks(v)'
  BY <1>6 DEF Frame, CommittedByLocks
<1>7. ASSUME NEW v, v > 0, CommittedByPrimary(v) PROVE CommittedByPrimary(v)'
  <2>1. phase \notin Before /\ v # -1
    BY <1>7 DEF IndInv, ProtocolKnown, CommittedByPrimary, Fallback, TypeOK, TS
  <2> QED
    BY <2>1, <1>5, <1>7 DEF Frame, CommittedByPrimary, Fallback
<1> QED BY <1>1, <1>2, <1>3, <1>5, <1>6, <1>7 DEF RolledBack, Committed

(* The two outcomes exclude each other, and there is one commit version.   *)
LEMMA OneOutcome ==
    ASSUME IndInv
    PROVE  /\ \A v : v > 0 /\ Committed(v) => ~RolledBack /\ ~Dead /\ ~Barred
           /\ \A v, w : v > 0 /\ w > 0 /\ Committed(v) /\ Committed(w) => v = w
           /\ \A v : CommittedByLocks(v) => ~NotByLocks
           /\ \A v : v > 0 /\ Committed(v) => v \in Nat /\ \A k \in keys : resp[k] # -1 /\ resp[k] <= v
           /\ NotByLocks /\ write[Primary] <= 0 => \A v : v > 0 => ~Committed(v)
<1>0. keys \subseteq Key /\ Primary \in keys /\ resp \in [Key -> TS \cup {-1}]
  BY TxnFacts DEF IndInv, TypeOK
<1>1. ASSUME NEW v, CommittedByLocks(v) PROVE v \in Nat /\ ~NotByLocks /\ ~RolledBack
  BY <1>0, <1>1 DEF CommittedByLocks, NotByLocks, RolledBack, Dead, Barred, Sync, Plain, TS
<1>2. ASSUME NEW v, v > 0, CommittedByPrimary(v)
      PROVE  ~Dead /\ ~Barred /\ Sync /\ write[Primary] # 0 /\ write[Primary] = v /\ v \in Nat
  BY <1>2, <1>0
  DEF IndInv, FallbackIsLarge, CommittedByPrimary, Fallback, Dead, Barred, TypeOK, TS
<1>3. ASSUME NEW v, NEW w, CommittedByLocks(v), CommittedByLocks(w) PROVE v = w
  BY <1>0, <1>3 DEF CommittedByLocks, TS
<1>4. ASSUME NEW v, v > 0, Committed(v)
      PROVE  v \in Nat /\ \A k \in keys : resp[k] # -1 /\ resp[k] <= v
  BY <1>0, <1>1, <1>2, <1>4
  DEF Committed, CommittedByLocks, CommittedByPrimary, IndInv, FallbackIsLarge, TS
<1> QED
  BY <1>0, <1>1, <1>2, <1>3, <1>4
  DEF Committed, CommittedByPrimary, NotByLocks, RolledBack, IndInv, TypeOK, TS

(* Every step keeps the types.                                             *)
LEMMA TypeStep ==
    ASSUME IndInv, Next
    PROVE  TypeOK'
<1> USE DEF vars, serverVars, clientVars, flagVars, txnVars
<1>0. keys \subseteq Key /\ Primary \in keys /\ opt.waitUntil \in Nat
  BY TxnFacts DEF IndInv
<1>1. TypeOK /\ Clocks
  BY DEF IndInv
<1>2. CASE Tick
  BY <1>1, <1>2, TSAssumption DEF Tick, TypeOK, TS, Clocks, Request, Task, Secondaries
<1>3. ASSUME NEW k \in keys, NEW ts \in 1 .. tso, Read(k, ts) PROVE TypeOK'
  BY <1>0, <1>1, <1>3, TSAssumption
  DEF Read, TypeOK, TS, Clocks, LargestOf, Request, Task, Secondaries
<1>4. CASE Execute \/ ExecuteFails
  <2>1. async' \in BOOLEAN /\ onePC' \in BOOLEAN
    BY <1>1, <1>4, TxnFacts DEF Execute, ExecuteFails, checkAsyncCommit, checkOnePC
  <2>2. tso' \in TS /\ mgr' \in TS /\ begun' \in TS
    BY <1>0, <1>1, <1>4, TSAssumption
    DEF Execute, ExecuteFails, TypeOK, TS, Clocks, LargestOf, GetTimestampForCommit
  <2>3. /\ phase' \in {"prewrite", "done", "cleanup"}
        /\ result' \in {result, "error"}
        /\ UNCHANGED <<txnVars, serverVars, req, batch, undet, cancelled, onePCTS, commitTS, res>>
    BY <1>4 DEF Execute, ExecuteFails
  <2> QED
    BY <2>1, <2>2, <2>3, <1>1 DEF TypeOK, Task, Secondaries
<1>5. ASSUME NEW k \in keys, SendPrewrite(k) PROVE TypeOK'
  BY <1>0, <1>1, <1>5, TSAssumption
  DEF SendPrewrite, TypeOK, TS, Clocks, LargestOf, Request, Task, Secondaries
<1>6. ASSUME NEW k \in keys, NEW q \in req[k], NEW plain \in BOOLEAN, RunPrewrite(k, q, plain)
      PROVE  TypeOK'
  <2>1. q.min \in TS /\ ServerMin(k, q) \in TS /\ 0 \in TS
    BY <1>0, <1>1, <1>6, TSAssumption DEF ServerMin, TypeOK, TS, Clocks, LargestOf, Request
  <2>2. lock' \in [Key -> [held : BOOLEAN, async : BOOLEAN, min : TS]]
    <3>1. LockOf(~plain, IF plain THEN q.min ELSE ServerMin(k, q)) \in [held : BOOLEAN, async : BOOLEAN, min : TS]
      BY <2>1 DEF LockOf
    <3> QED BY <3>1, <1>1, <1>6 DEF RunPrewrite, TypeOK
  <2>3. write' \in [Key -> TS \cup {-1}] /\ resp' \in [Key -> TS \cup {-1}]
    BY <2>1, <1>1, <1>6 DEF RunPrewrite, TypeOK
  <2> QED
    BY <2>2, <2>3, <1>1, <1>6 DEF RunPrewrite, TypeOK, Task, Secondaries
<1>7. ASSUME NEW k \in keys, PrewriteSucceed(k) PROVE TypeOK'
  <2>1. PICK min \in {resp[k]} \cup ({write[k]} \ {-1, 0}) :
          IF onePC
            THEN onePC' = (min # 0) /\ async' = (async /\ min # 0) /\ onePCTS' = min /\ UNCHANGED mgr
            ELSE /\ async' = (async /\ min # 0) /\ mgr' = IF async THEN LargestOf(mgr, min) ELSE mgr
                 /\ UNCHANGED <<onePC, onePCTS>>
    BY <1>7 DEF PrewriteSucceed
  <2>2. min \in TS
    BY <2>1, <1>0, <1>1, <1>7 DEF PrewriteSucceed, TypeOK
  <2>3. async' \in BOOLEAN /\ onePC' \in BOOLEAN /\ mgr' \in TS /\ onePCTS' \in TS
    BY <2>1, <2>2, <1>1 DEF TypeOK, LargestOf
  <2> QED
    BY <2>3, <1>1, <1>7 DEF PrewriteSucceed, TypeOK, Task, Secondaries
<1>8. ASSUME NEW k \in keys, PrewriteRefused(k) \/ PrewriteRPCError(k) \/ PrewriteCancelled(k)
      PROVE TypeOK'
  BY <1>8, <1>0, <1>1
  DEF PrewriteRefused, PrewriteRPCError, PrewriteCancelled, BatchFails, TypeOK, Request, Task, Secondaries
<1>9. ASSUME NEW k \in keys, PrewriteConflict(k) PROVE TypeOK'
  BY <1>9, <1>0, <1>1 DEF PrewriteConflict, TypeOK, Request, Task, Secondaries
<1>10. ASSUME NEW k \in keys, PrewriteUndeterminedResult(k) PROVE TypeOK'
  BY <1>10, <1>0, <1>1 DEF PrewriteUndeterminedResult, TypeOK, Request, Task, Secondaries
<1>11. ASSUME NEW k \in keys, CommitKey(k) PROVE TypeOK'
  <2>1. /\ lock' \in [Key -> [held : BOOLEAN, async : BOOLEAN, min : TS]]
        /\ write' \in [Key -> TS \cup {-1}]
    BY <1>0, <1>1, <1>11, TSAssumption DEF CommitKey, Settle, NoLock, TypeOK, TS
  <2> QED
    BY <2>1, <1>1, <1>11 DEF CommitKey, TypeOK, Task, Secondaries
<1>12. ASSUME NEW k \in keys, CleanupKey(k) PROVE TypeOK'
  BY <1>12, <1>0, <1>1, TSAssumption DEF CleanupKey, NoLock, TypeOK, TS, Request, Task, Secondaries
<1>13. CASE PrewriteFail \/ TakesTooLong \/ FallbackSchemaFail
  BY <1>1, <1>13
  DEF PrewriteFail, TakesTooLong, FallbackSchemaFail, Leave, Prewritten, TypeOK, Request, Task, Secondaries
<1>14. CASE OnePCCommit \/ AsyncCommitted \/ FallbackCommit
  BY <1>0, <1>1, <1>14, TSAssumption
  DEF OnePCCommit, AsyncCommitted, FallbackCommit, Prewritten, GetTimestampForCommit, LargestOf,
      TypeOK, TS, Request, Task, Secondaries
<1>15. CASE CommitPrimaryNotFound \/ Crash
  BY <1>1, <1>15 DEF CommitPrimaryNotFound, Crash, Leave, TypeOK, Request, Task, Secondaries
<1>16. ASSUME NEW r \in Resolver, CheckAsyncPrimary(r) \/ DetermineStatus(r) \/ ResolverReset(r)
       PROVE TypeOK'
  <2>0. res[r] \in Task /\ lock[Primary].min \in TS /\ 0 \in TS
    BY <1>0, <1>1, TSAssumption DEF TypeOK, TS
  <2>1. ASSUME NEW new \in Task, Set(r, new) PROVE res' \in [Resolver -> Task]
    BY <2>1, <1>1 DEF Set, TypeOK
  <2>2. [Idle EXCEPT !.pc = "check", !.commitTs = lock[Primary].min, !.todo = Secondaries] \in Task
    BY <2>0 DEF Idle, Task
  <2>3. Resolving(res[r].commitTs, res[r].keys \cup {Primary}) \in Task
    BY <2>0, <1>0 DEF Resolving, Task
  <2>4. Idle \in Task
    BY <2>0 DEF Idle, Task
  <2>5. res' \in [Resolver -> Task]
    BY <1>16, <2>1, <2>2, <2>3, <2>4 DEF CheckAsyncPrimary, DetermineStatus, ResolverReset
  <2> QED
    BY <2>5, <1>1, <1>16
    DEF CheckAsyncPrimary, DetermineStatus, ResolverReset, TypeOK, Request, Task, Secondaries
<1>17. ASSUME NEW r \in Resolver, CheckSyncPrimary(r) PROVE TypeOK'
  <2>1. /\ lock' \in [Key -> [held : BOOLEAN, async : BOOLEAN, min : TS]]
        /\ write' \in [Key -> TS \cup {-1}] /\ write'[Primary] \in TS
    BY <1>0, <1>1, <1>17, TSAssumption DEF CheckSyncPrimary, NoLock, TypeOK, TS
  <2>2. res' \in [Resolver -> Task]
    BY <2>1, <1>1, <1>17, TSAssumption DEF CheckSyncPrimary, Set, Resolving, Task, Secondaries, TypeOK, TS
  <2> QED
    BY <2>1, <2>2, <1>1, <1>17 DEF CheckSyncPrimary, TypeOK, Request, Task, Secondaries
<1>18. ASSUME NEW r \in Resolver, NEW k \in Secondaries, CheckSecondary(r, k) PROVE TypeOK'
  <2>1. write' \in [Key -> TS \cup {-1}] /\ (~lock[k].held => write'[k] \in TS)
    BY <1>0, <1>1, <1>18, TSAssumption DEF CheckSecondary, ProtectKey, Secondaries, TypeOK, TS
  <2>2. res[r] \in Task /\ lock[k].min \in TS /\ 0 \in TS /\ k \in keys
    BY <1>0, <1>1, <1>18, TSAssumption DEF TypeOK, TS, Secondaries
  <2>3. ~lock[k].held => addKeysMissing(res[r], k, write'[k]) \in Task
    BY <2>1, <2>2 DEF addKeysMissing, Task
  <2>4. addKeysPresent(res[r], k, lock[k].min) \in Task
    BY <2>2 DEF addKeysPresent, Task, LargestOf
  <2>5. [Idle EXCEPT !.pc = "force"] \in Task
    BY <2>2 DEF Idle, Task
  <2>6. res' \in [Resolver -> Task]
    BY <2>3, <2>4, <2>5, <1>1, <1>18 DEF CheckSecondary, Set, TypeOK
  <2> QED
    BY <2>1, <2>6, <1>1, <1>18 DEF CheckSecondary, TypeOK, Request, Task, Secondaries
<1>19. ASSUME NEW r \in Resolver, NEW k \in keys, ResolveKey(r, k) PROVE TypeOK'
  <2>1. res[r] \in Task /\ res' \in [Resolver -> Task]
    BY <1>0, <1>1, <1>19 DEF ResolveKey, Set, Task, Secondaries, TypeOK
  <2>2. /\ lock' \in [Key -> [held : BOOLEAN, async : BOOLEAN, min : TS]]
        /\ write' \in [Key -> TS \cup {-1}]
    BY <2>1, <1>0, <1>1, <1>19, TSAssumption DEF ResolveKey, Settle, NoLock, Task, TypeOK, TS
  <2> QED
    BY <2>1, <2>2, <1>1, <1>19 DEF ResolveKey, TypeOK, Request, Task, Secondaries
<1> QED
  BY <1>2, <1>3, <1>4, <1>5, <1>6, <1>7, <1>8, <1>9, <1>10, <1>11, <1>12, <1>13, <1>14, <1>15,
     <1>16, <1>17, <1>18, <1>19
  DEF Next, Prewrite

-----------------------------------------------------------------------------
(* The steps that put records: a commit, a rollback, or a resolver.        *)
Recording ==
    \/ \E k \in keys : CommitKey(k) \/ CleanupKey(k)
    \/ \E r \in Resolver :
          \/ CheckSyncPrimary(r)
          \/ \E k \in Secondaries : CheckSecondary(r, k)
          \/ \E k \in keys : ResolveKey(r, k)

(* The steps in which the committer learns that a batch failed.            *)
Failing(k) ==
    PrewriteRefused(k) \/ PrewriteRPCError(k) \/ PrewriteCancelled(k) \/ PrewriteConflict(k)
      \/ PrewriteUndeterminedResult(k)

(* The steps that end with an error.                                       *)
Erring == PrewriteFail \/ TakesTooLong \/ FallbackSchemaFail \/ CommitPrimaryNotFound

(* Which steps change what.                                                *)
StepEffects ==
    /\ tso' = tso \/ Tick \/ Execute \/ FallbackCommit
    /\ UNCHANGED <<maxTS, missed>> \/ \E k \in keys, ts \in 1 .. tso : Read(k, ts)
    /\ resp' = resp \/ \E k \in keys : Prewrite(k)
    /\ UNCHANGED <<lock, write>> \/ Recording \/ \E k \in keys : Prewrite(k)
    /\ UNCHANGED <<async, onePC, mgr>> \/ Execute \/ ExecuteFails
         \/ \E k \in keys : PrewriteSucceed(k)
    /\ onePCTS' = onePCTS \/ \E k \in keys : PrewriteSucceed(k)
    /\ req' = req \/ \E k \in keys : SendPrewrite(k) \/ PrewriteConflict(k)
    /\ batch' = batch \/ \E k \in keys : SendPrewrite(k) \/ PrewriteSucceed(k) \/ Failing(k)
    /\ UNCHANGED <<undet, cancelled>> \/ \E k \in keys : Failing(k)
    /\ commitTS' = commitTS \/ OnePCCommit \/ AsyncCommitted \/ TakesTooLong \/ FallbackCommit
    /\ begun' = begun \/ Execute \/ ExecuteFails
    /\ result' = result \/ ExecuteFails \/ Erring \/ OnePCCommit \/ AsyncCommitted
         \/ \E k \in keys : PrewriteUndeterminedResult(k) \/ CommitKey(k)
    /\ phase' = phase \/ Execute \/ ExecuteFails \/ Erring \/ OnePCCommit \/ AsyncCommitted
         \/ FallbackCommit \/ Crash
    /\ res' = res
         \/ \E r \in Resolver :
              \/ CheckAsyncPrimary(r) \/ CheckSyncPrimary(r) \/ DetermineStatus(r)
              \/ ResolverReset(r)
              \/ \E k \in Secondaries : CheckSecondary(r, k)
              \/ \E k \in keys : ResolveKey(r, k)

(* Each variable is changed by the handlers that own it and by no other.   *)
LEMMA Effects == Next => StepEffects
<1> SUFFICES ASSUME Next PROVE StepEffects
  OBVIOUS
<1> USE DEF vars, serverVars, clientVars, flagVars, txnVars, Recording, Failing, Erring, StepEffects
<1>1. CASE Tick \/ Execute \/ ExecuteFails \/ \E k \in keys, ts \in 1 .. tso : Read(k, ts)
  BY <1>1 DEF Tick, Execute, ExecuteFails, Read
<1>2. ASSUME NEW k \in keys, SendPrewrite(k) \/ Prewrite(k) \/ PrewriteSucceed(k) PROVE StepEffects
  BY <1>2 DEF SendPrewrite, Prewrite, RunPrewrite, PrewriteSucceed
<1>3. ASSUME NEW k \in keys, Failing(k) PROVE StepEffects
  BY <1>3 DEF PrewriteRefused, PrewriteRPCError, PrewriteCancelled, BatchFails, PrewriteConflict,
              PrewriteUndeterminedResult
<1>4. CASE Erring
  BY <1>4 DEF PrewriteFail, TakesTooLong, FallbackSchemaFail, CommitPrimaryNotFound, Leave
<1>5. CASE OnePCCommit \/ AsyncCommitted \/ FallbackCommit \/ Crash
  BY <1>5 DEF OnePCCommit, AsyncCommitted, FallbackCommit, Crash
<1>6. CASE Recording
  BY <1>6 DEF CommitKey, CleanupKey, CheckSyncPrimary, CheckSecondary, ResolveKey
<1>7. ASSUME NEW r \in Resolver, CheckAsyncPrimary(r) \/ DetermineStatus(r) \/ ResolverReset(r)
      PROVE  StepEffects
  BY <1>7 DEF CheckAsyncPrimary, DetermineStatus, ResolverReset
<1> QED
  BY <1>1, <1>2, <1>3, <1>4, <1>5, <1>6, <1>7 DEF Next

(* What such a step does to a key: nothing, or it puts the record of an    *)
(* outcome where there was none.                                           *)
Recorded(k) ==
    /\ write[k] = -1 /\ ~lock'[k].held
    /\ \/ write'[k] = 0 /\ RolledBack'
       \/ /\ write'[k] > 0 /\ lock[k].held
          /\ Committed(write'[k]) \/ (phase = "commit" /\ k = Primary /\ Fallback /\ write'[k] = commitTS /\ result' = "ok")
Untouched(k) == write'[k] = write[k] /\ (lock'[k] = lock[k] \/ (~lock[k].held /\ ~lock'[k].held))

Records ==
    /\ \A k \in keys : Untouched(k) \/ Recorded(k)
    /\ UNCHANGED <<tso, maxTS, missed, resp, keys, opt, phase, async, onePC, mgr, req, batch, undet,
                   cancelled, onePCTS, commitTS, begun>>

(* A key is resolved to the outcome.                                       *)
LEMMA SettleRecords ==
    ASSUME IndInv, NEW k \in keys, NEW v \in TS, Settle(k, v),
           v = 0 => RolledBack',
           v > 0 => Committed(v) \/ (phase = "commit" /\ k = Primary /\ Fallback /\ v = commitTS /\ result' = "ok")
    PROVE  \A j \in keys : Untouched(j) \/ Recorded(j)
<1>1. keys \subseteq Key /\ lock \in [Key -> [held : BOOLEAN, async : BOOLEAN, min : TS]]
      /\ write \in [Key -> TS \cup {-1}]
  BY TxnFacts DEF IndInv, TypeOK
<1>2. ASSUME NEW j \in keys, j # k PROVE Untouched(j)
  BY <1>1, <1>2 DEF Settle, Untouched
<1>3. ~lock'[k].held /\ (lock[k].held => write[k] = -1)
  BY <1>1 DEF Settle, NoLock, IndInv, PrewritesTell
<1>4. CASE lock[k].held
  BY <1>1, <1>2, <1>3, <1>4 DEF Settle, Recorded, TS
<1>5. CASE ~lock[k].held
  BY <1>1, <1>2, <1>3, <1>5 DEF Settle, Untouched
<1> QED BY <1>4, <1>5

(* No commit, cleanup or resolver step puts a record that contradicts the  *)
(* outcome.                                                                *)
LEMMA RecordStep ==
    ASSUME IndInv, Frame, Recording
    PROVE  Records
<1> USE DEF serverVars, clientVars, flagVars, txnVars
<1>0. keys \subseteq Key /\ Primary \in keys
  BY TxnFacts DEF IndInv
<1>1. TypeOK
  BY DEF IndInv
<1>2. RolledBack => RolledBack'
  BY Stable
<1>3. ASSUME NEW k \in keys, CommitKey(k) PROVE Records
  <2>1. Committed(commitTS) \/ (k = Primary /\ Fallback)
    BY <1>3 DEF CommitKey, IndInv, DecisionKnown, Fallback
  <2>2. commitTS \in TS /\ commitTS > 0
    BY <2>1, <1>0, <1>1 DEF Committed, CommittedByLocks, CommittedByPrimary, Fallback, TypeOK, TS
  <2>3. Settle(k, commitTS) /\ phase = "commit" /\ result' = "ok"
    BY <1>3 DEF CommitKey
  <2>4. \A j \in keys : Untouched(j) \/ Recorded(j)
    BY <2>1, <2>2, <2>3, SettleRecords DEF TS
  <2> QED
    BY <1>3, <2>4 DEF CommitKey, Records
<1>4. ASSUME NEW k \in keys, CleanupKey(k) PROVE Records
  <2>1. write[k] = -1 => RolledBack'
    <3>1. CASE k # Primary
      BY <1>0, <1>2, <1>4, <3>1 DEF CleanupKey, IndInv, RecordsTell
    <3>2. CASE k = Primary /\ Sync
      <4>1. Sync' /\ write'[Primary] = 0
        BY <1>0, <1>1, <1>4, <3>2, Stable DEF CleanupKey, TypeOK
      <4> QED BY <4>1 DEF RolledBack
    <3>3. CASE k = Primary /\ (Dead \/ Barred)
      BY <1>2, <3>3 DEF RolledBack
    <3>4. CASE k = Primary /\ Plain /\ ~Sync
      <4>1. resp[Primary] = -1
        BY <1>0, <1>1, <3>4 DEF Plain, Sync, TypeOK, TS
      <4>2. resp'[Primary] = -1 /\ write'[Primary] = 0 /\ keys' = keys
        BY <4>1, <1>0, <1>1, <1>4, <3>4 DEF CleanupKey, TypeOK
      <4> QED BY <4>2, <1>0 DEF RolledBack, Dead
    <3>5. NotByLocks
      BY <1>4 DEF CleanupKey, IndInv, DecisionKnown
    <3> QED BY <3>1, <3>2, <3>3, <3>4, <3>5 DEF NotByLocks
  <2>2. ~lock'[k].held /\ write'[k] = 0 /\ (write[k] = -1 \/ (write[k] = 0 /\ ~lock[k].held))
    BY <1>0, <1>1, <1>4 DEF CleanupKey, NoLock, TypeOK, TS, IndInv, PrewritesTell
  <2>3. Untouched(k) \/ Recorded(k)
    BY <2>1, <2>2 DEF Untouched, Recorded
  <2>4. \A j \in keys : j # k => Untouched(j)
    BY <1>0, <1>1, <1>4 DEF CleanupKey, TypeOK, Untouched
  <2> QED
    BY <2>3, <2>4, <1>4 DEF CleanupKey, Records
<1>5. ASSUME NEW r \in Resolver, CheckSyncPrimary(r) PROVE Records
  <2>1. write[Primary] = -1 => write'[Primary] = 0 /\ RolledBack'
    <3>1. ASSUME write[Primary] = -1 PROVE write'[Primary] = 0
      BY <1>0, <1>1, <1>5, <3>1 DEF CheckSyncPrimary, TypeOK
    <3>2. CASE Sync
      BY <3>1, <3>2, Stable DEF RolledBack
    <3>3. CASE ~Sync
      <4>1. ~lock[Primary].held
        BY <1>0, <1>1, <1>5, <3>3
        DEF CheckSyncPrimary, IndInv, ResolversKnow, Knows, PrewritesTell, Sync, TypeOK, TS
      <4>2. write[Primary] = -1 => resp[Primary] = -1
        BY <4>1, <1>0 DEF IndInv, PrewritesTell
      <4>3. resp' = resp /\ keys' = keys
        BY <1>5 DEF CheckSyncPrimary
      <4> QED BY <3>1, <4>2, <4>3, <1>0 DEF RolledBack, Dead
    <3> QED BY <3>1, <3>2, <3>3
  <2>2. /\ ~lock'[Primary].held /\ (lock[Primary].held => write[Primary] = -1)
        /\ write[Primary] # -1 => write'[Primary] = write[Primary]
    BY <1>0, <1>1, <1>5 DEF CheckSyncPrimary, NoLock, TypeOK, IndInv, PrewritesTell
  <2>3. Untouched(Primary) \/ Recorded(Primary)
    BY <2>1, <2>2 DEF Untouched, Recorded
  <2>4. \A j \in keys : j # Primary => Untouched(j)
    BY <1>0, <1>1, <1>5 DEF CheckSyncPrimary, TypeOK, Untouched
  <2> QED
    BY <2>3, <2>4, <1>5 DEF CheckSyncPrimary, Records
<1>6. ASSUME NEW r \in Resolver, NEW k \in Secondaries, CheckSecondary(r, k) PROVE Records
  <2>0. k \in keys
    BY DEF Secondaries
  <2>1. ASSUME ~lock[k].held, write[k] = -1 PROVE Recorded(k)
    <3>1. resp[k] = -1 /\ resp' = resp /\ keys' = keys /\ lock' = lock
      BY <2>0, <2>1, <1>6 DEF IndInv, PrewritesTell, CheckSecondary
    <3>2. write'[k] = 0
      BY <2>0, <2>1, <1>0, <1>1, <1>6 DEF CheckSecondary, ProtectKey, TypeOK
    <3> QED BY <3>1, <3>2, <2>0, <2>1 DEF Recorded, RolledBack, Dead
  <2>2. lock' = lock /\ \A j \in keys : j # k \/ lock[k].held \/ write[k] # -1 => write'[j] = write[j]
    BY <2>0, <1>0, <1>1, <1>6 DEF CheckSecondary, ProtectKey, TypeOK
  <2>3. \A j \in keys : Untouched(j) \/ Recorded(j)
    BY <2>1, <2>2 DEF Untouched
  <2> QED
    BY <2>3, <1>6 DEF CheckSecondary, Records
<1>7. ASSUME NEW r \in Resolver, NEW k \in keys, ResolveKey(r, k) PROVE Records
  <2>1. res[r].commitTs \in TS /\ Settle(k, res[r].commitTs) /\ res[r].pc = "resolve"
    BY <1>1, <1>7 DEF ResolveKey, TypeOK, Task
  <2>2. IF res[r].commitTs = 0 THEN RolledBack ELSE Committed(res[r].commitTs)
    BY <2>1 DEF IndInv, ResolversKnow, Knows, Outcome
  <2>3. \A j \in keys : Untouched(j) \/ Recorded(j)
    BY <2>1, <2>2, <1>2, SettleRecords DEF TS
  <2> QED
    BY <2>3, <1>7 DEF ResolveKey, Records
<1> QED
  BY <1>3, <1>4, <1>5, <1>6, <1>7 DEF Recording

(* The outcome a record was put for holds after the step.                  *)
LEMMA RecordedOutcome ==
    ASSUME IndInv, Frame, Records, NEW k \in keys, Recorded(k), write'[k] > 0
    PROVE  Committed(write[k])'
<1>1. ASSUME NEW v, v > 0, Committed(v) PROVE Committed(v)'
  BY <1>1, Stable
<1>2. CASE Committed(write'[k])
  BY <1>1, <1>2
<1>3. CASE phase = "commit" /\ k = Primary /\ Fallback /\ write'[k] = commitTS
  BY <1>3 DEF Records, Committed, CommittedByPrimary, Fallback
<1> QED BY <1>2, <1>3 DEF Recorded

-----------------------------------------------------------------------------
(* Each part of IndInv is kept by every step.                              *)
Step == IndInv /\ Next /\ Frame /\ StepEffects /\ TypeOK' /\ (Recording => Records)

(* What is known of every step, for the lemmas that follow.                *)
LEMMA StepFacts == IndInv /\ Next => Step
  BY FrameStep, Effects, TypeStep, RecordStep DEF Step

(* A prewrite runs once; what it answers is above every read of the key.   *)
LEMMA PrewriteEffect ==
    ASSUME IndInv, NEW k \in keys, Prewrite(k)
    PROVE  \E q \in req[k], plain \in BOOLEAN, m \in Nat :
             /\ resp[k] = -1 /\ write[k] = -1 /\ ~lock[k].held /\ batch[k] # "ok" /\ phase # "idle"
             /\ \A j \in keys : j # k => resp'[j] = resp[j] /\ lock'[j] = lock[j] /\ write'[j] = write[j]
             /\ m > 0 /\ q.min <= m /\ m <= NextTS
             /\ plain => /\ resp'[k] = 0 /\ write'[k] = -1
                         /\ lock'[k].held /\ ~lock'[k].async /\ lock'[k].min = m
             /\ ~plain => /\ resp'[k] = m /\ (q.async \/ q.onePC) /\ maxTS[k] < m /\ m <= MaxCommitTS
                          /\ ~q.onePC => /\ write'[k] = -1 /\ lock'[k].held /\ lock'[k].async
                                         /\ lock'[k].min = m
                          /\ q.onePC => write'[k] = m /\ ~lock'[k].held
<1>1. PICK q \in req[k], plain \in BOOLEAN : RunPrewrite(k, q, plain)
  BY DEF Prewrite
<1>2. keys \subseteq Key /\ TypeOK
  BY TxnFacts DEF IndInv
<1>3. q \in Request /\ q.min > 0 /\ q.min <= NextTS
  BY <1>1, <1>2 DEF IndInv, RequestsAbove, TypeOK
<1>4. maxTS[k] \in Nat /\ q.min \in Nat /\ maxTS[k] <= tso /\ tso \in Nat
  BY <1>2, <1>3 DEF IndInv, Clocks, TypeOK, TS, Request
<1>5. PICK m \in Nat : m = IF plain THEN q.min ELSE ServerMin(k, q)
  BY <1>4 DEF ServerMin, LargestOf
<1>6. m > 0 /\ q.min <= m /\ m <= NextTS /\ (~plain => maxTS[k] < m)
  BY <1>3, <1>4, <1>5 DEF ServerMin, LargestOf, NextTS
<1>7. resp[k] = -1 /\ write[k] = -1 /\ ~lock[k].held /\ batch[k] # "ok" /\ phase # "idle"
  BY <1>1 DEF RunPrewrite, IndInv, PrewritesTell, FreshBefore
<1>8. \A j \in keys : j # k => resp'[j] = resp[j] /\ lock'[j] = lock[j] /\ write'[j] = write[j]
  BY <1>1, <1>2 DEF RunPrewrite, TypeOK
<1>9. plain => /\ resp'[k] = 0 /\ write'[k] = -1
               /\ lock'[k].held /\ ~lock'[k].async /\ lock'[k].min = m
  BY <1>1, <1>2, <1>5, <1>7 DEF RunPrewrite, LockOf, TypeOK
<1>10. ~plain => /\ resp'[k] = m /\ (q.async \/ q.onePC) /\ m <= MaxCommitTS
                 /\ ~q.onePC => /\ write'[k] = -1 /\ lock'[k].held /\ lock'[k].async
                                /\ lock'[k].min = m
                 /\ q.onePC => write'[k] = m /\ ~lock'[k].held
  <2> SUFFICES ASSUME ~plain
               PROVE  /\ resp'[k] = m /\ (q.async \/ q.onePC) /\ m <= MaxCommitTS
                      /\ ~q.onePC => /\ write'[k] = -1 /\ lock'[k].held /\ lock'[k].async
                                     /\ lock'[k].min = m
                      /\ q.onePC => write'[k] = m /\ ~lock'[k].held
    OBVIOUS
  <2>1. resp'[k] = m /\ (q.async \/ q.onePC) /\ m <= MaxCommitTS
    BY <1>1, <1>2, <1>5 DEF RunPrewrite, TypeOK
  <2>2. CASE q.onePC
    BY <2>2, <1>1, <1>2, <1>5, <1>7 DEF RunPrewrite, TypeOK
  <2>3. CASE ~q.onePC
    <3>1. lock'[k] = LockOf(TRUE, m) /\ write' = write
      BY <2>3, <1>1, <1>2, <1>5 DEF RunPrewrite, TypeOK
    <3> QED BY <2>1, <2>3, <3>1, <1>7 DEF LockOf
  <2> QED BY <2>1, <2>2, <2>3
<1> QED
  BY <1>6, <1>7, <1>8, <1>9, <1>10

(* The answer the committer gets is that of the prewrite, or the version   *)
(* the transaction is already committed at.                                *)
LEMMA AnswerKnown ==
    ASSUME IndInv, NEW k \in keys, PrewriteSucceed(k)
    PROVE  /\ phase = "prewrite" /\ batch[k] = "sent" /\ batch' = [batch EXCEPT ![k] = "ok"]
           /\ resp[k] # -1
           /\ \E min \in TS :
                /\ min = resp[k] \/ CommittedByLocks(min)
                /\ min > 0 <=> resp[k] > 0
                /\ resp[k] <= min /\ min <= NextTS
                /\ onePC => min = resp[k]
                /\ onePC /\ min > 0 => write[k] = min
                /\ async' <=> async /\ min # 0
                /\ onePC' <=> onePC /\ min # 0
                /\ onePC => onePCTS' = min /\ mgr' = mgr
                /\ ~onePC => /\ onePCTS' = onePCTS
                             /\ mgr' = IF async THEN LargestOf(mgr, min) ELSE mgr
<1>0. keys \subseteq Key /\ Primary \in keys /\ TypeOK
  BY TxnFacts DEF IndInv
<1>1. PICK min \in {resp[k]} \cup ({write[k]} \ {-1, 0}) :
        IF onePC
          THEN onePC' = (min # 0) /\ async' = (async /\ min # 0) /\ onePCTS' = min /\ UNCHANGED mgr
          ELSE /\ async' = (async /\ min # 0) /\ mgr' = IF async THEN LargestOf(mgr, min) ELSE mgr
               /\ UNCHANGED <<onePC, onePCTS>>
  BY DEF PrewriteSucceed
<1>2. phase = "prewrite" /\ batch[k] = "sent" /\ batch' = [batch EXCEPT ![k] = "ok"] /\ resp[k] # -1
  BY DEF PrewriteSucceed
<1>3. write[k] > 0 => CommittedByLocks(write[k])
  BY <1>2 DEF IndInv, RecordsTell, ProtocolKnown, Committed, CommittedByPrimary, Fallback, Before,
              TypeOK, TS
<1>4. min = resp[k] \/ (min = write[k] /\ write[k] > 0 /\ CommittedByLocks(min))
  BY <1>0, <1>1, <1>3 DEF TypeOK, TS
<1>5. min \in TS
  BY <1>0, <1>2, <1>4 DEF TypeOK, TS
<1>6. /\ min > 0 <=> resp[k] > 0
      /\ resp[k] <= min /\ min <= NextTS
  BY <1>0, <1>2, <1>4, <1>5 DEF CommittedByLocks, IndInv, Clocks, TypeOK, TS
<1>7. onePC => min = resp[k] /\ (min > 0 => write[k] = min)
  BY <1>4, <1>6 DEF IndInv, PrewritesTell
<1>8. /\ async' <=> async /\ min # 0
      /\ onePC' <=> onePC /\ min # 0
      /\ onePC => onePCTS' = min /\ mgr' = mgr
      /\ ~onePC => onePCTS' = onePCTS /\ mgr' = IF async THEN LargestOf(mgr, min) ELSE mgr
  BY <1>1, Zenon
<1> QED
  BY <1>2, <1>4, <1>5, <1>6, <1>7, <1>8

(* A record keeps telling what the whole transaction came to.              *)
LEMMA RecordsTellStep == Step => RecordsTell'
<1> SUFFICES ASSUME Step, NEW k \in keys
             PROVE  (write[k] > 0 => Committed(write[k]))' /\ (write[k] = 0 => RolledBack)'
  BY DEF RecordsTell, Step, Frame
<1>0. IndInv /\ Frame
  BY DEF Step
<1>1. ASSUME NEW v, v > 0, Committed(v) PROVE Committed(v)'
  BY <1>0, <1>1, Stable
<1>2. CASE write'[k] = write[k]
  BY <1>0, <1>1, <1>2, Stable DEF IndInv, RecordsTell
<1>3. CASE Recording /\ write'[k] # write[k]
  BY <1>0, <1>3, RecordedOutcome DEF Step, Records, Untouched, Recorded, TypeOK, TS
<1>4. ASSUME NEW j \in keys, Prewrite(j), write'[k] # write[k]
      PROVE  (write[k] > 0 => Committed(write[k]))' /\ (write[k] = 0 => RolledBack)'
  <2>1. PICK q \in req[j], m \in Nat : q.onePC /\ m > 0 /\ resp'[j] = m /\ write'[j] = m /\ j = k
    BY <1>0, <1>4, PrewriteEffect
  <2>2. keys' = {j}
    BY <2>1, <1>0 DEF IndInv, RequestsAbove, Frame
  <2> QED BY <2>1, <2>2 DEF Committed, CommittedByLocks
<1> QED
  BY <1>2, <1>3, <1>4 DEF Step, StepEffects

(* Timestamps only grow.                                                   *)
LEMMA TimeGrows ==
    ASSUME Step
    PROVE  /\ tso \in Nat /\ tso' \in Nat /\ StartTS <= tso' /\ tso <= tso' /\ tso' <= MaxTS
           /\ NextTS \in Nat /\ NextTS' \in Nat /\ NextTS <= NextTS' /\ tso < NextTS
           /\ tso < tso' => NextTS <= tso'
           /\ tso' < NextTS'
<1>0. IndInv /\ TypeOK /\ Clocks /\ opt.waitUntil \in Nat
  BY TxnFacts DEF Step, IndInv
<1>1. tso' = tso \/ Tick \/ Execute \/ FallbackCommit
  BY DEF Step, StepEffects
<1>2. tso' = tso \/ (tso < tso' /\ tso' <= MaxTS /\ tso' \in Nat)
  BY <1>0, <1>1, TSAssumption
  DEF Tick, Execute, FallbackCommit, GetTimestampForCommit, LargestOf, Clocks, TypeOK, TS, flagVars
<1>3. PICK t \in Nat : t = tso'
  BY <1>0, <1>2, TSAssumption DEF TypeOK, TS
<1>4. tso \in Nat /\ tso <= t
  BY <1>0, <1>2, <1>3, TSAssumption DEF Clocks, TypeOK, TS
<1>9. StartTS <= t /\ t <= MaxTS
  BY <1>0, <1>2, <1>3, TSAssumption DEF Clocks, TypeOK, TS
<1>5. NextTS' = t + 1
  BY <1>3, Zenon DEF NextTS
<1>6. NextTS = tso + 1
  BY DEF NextTS
<1>7. /\ NextTS \in Nat /\ t + 1 \in Nat /\ NextTS <= t + 1 /\ tso < NextTS /\ t < t + 1
      /\ tso < t => NextTS <= t
  BY <1>4, <1>6
<1>8. /\ NextTS \in Nat /\ NextTS' \in Nat /\ NextTS <= NextTS' /\ tso < NextTS
      /\ tso < tso' => NextTS <= tso'
      /\ tso' < NextTS'
  BY <1>3, <1>5, <1>7, Zenon
<1> QED
  BY <1>3, <1>4, <1>8, <1>9, Zenon

(* Commit versions calculated by the stores never run ahead of PD by more  *)
(* than one.                                                               *)
LEMMA ClocksStep == Step => Clocks'
<1> SUFFICES ASSUME Step PROVE Clocks'
  OBVIOUS
<1> USE DEF vars, serverVars, clientVars, flagVars, txnVars
<1>0. IndInv /\ TypeOK /\ Clocks /\ keys' = keys /\ keys \subseteq Key /\ opt.waitUntil \in Nat
  BY TxnFacts DEF Step, IndInv, Frame
<1>1. /\ StartTS <= tso' /\ tso' <= MaxTS /\ tso <= tso' /\ tso' \in Nat /\ tso \in Nat
      /\ NextTS \in Nat /\ NextTS' \in Nat /\ NextTS <= NextTS'
  BY TimeGrows
<1>5. begun' <= tso'
  <2>1. begun' = begun \/ begun' = tso
    BY DEF Step, StepEffects, Execute, ExecuteFails
  <2> QED BY <2>1, <1>0, <1>1, TSAssumption DEF Clocks, TypeOK, TS
<1>2. ASSUME NEW k \in keys PROVE resp'[k] <= NextTS'
  <2>1. CASE resp' = resp
    BY <2>1, <1>0, <1>1 DEF Clocks, TypeOK, TS
  <2>2. ASSUME NEW j \in keys, Prewrite(j) PROVE resp'[k] <= NextTS'
    BY <2>2, <1>0, <1>1, PrewriteEffect DEF Clocks, TypeOK, TS
  <2> QED BY <2>1, <2>2 DEF Step, StepEffects
<1>3. ASSUME NEW k \in keys PROVE missed'[k] <= maxTS'[k] /\ maxTS'[k] <= tso'
  <2>1. CASE UNCHANGED <<maxTS, missed>>
    BY <2>1, <1>0, <1>1 DEF Clocks, TypeOK, TS
  <2>2. ASSUME NEW j \in keys, NEW ts \in 1 .. tso, Read(j, ts)
        PROVE  missed'[k] <= maxTS'[k] /\ maxTS'[k] <= tso'
    BY <2>2, <1>0, <1>1 DEF Read, LargestOf, Clocks, TypeOK, TS
  <2> QED BY <2>1, <2>2 DEF Step, StepEffects
<1>4. mgr' <= NextTS'
  <2>1. CASE mgr' = mgr
    BY <2>1, <1>0, <1>1, TSAssumption DEF Clocks, TypeOK, TS
  <2>2. CASE Execute \/ ExecuteFails
    BY <2>2, <1>0, <1>1, TSAssumption
    DEF Execute, ExecuteFails, NextTS, Clocks, TypeOK, TS
  <2>3. ASSUME NEW k \in keys, PrewriteSucceed(k) PROVE mgr' <= NextTS'
    BY <2>3, <1>0, <1>1, AnswerKnown DEF Clocks, TypeOK, TS, LargestOf
  <2> QED BY <2>1, <2>2, <2>3 DEF Step, StepEffects
<1> QED
  BY <1>0, <1>1, <1>2, <1>3, <1>4, <1>5 DEF Clocks

(* Prewrite requests carry a minCommitTS above what was issued before      *)
(* Commit().                                                               *)
LEMMA RequestsAboveStep == Step => RequestsAbove'
<1> SUFFICES ASSUME Step, NEW k \in keys, NEW q \in req'[k]
             PROVE  /\ q.min > 0 /\ q.min <= NextTS'
                    /\ q.async \/ q.onePC => begun' < q.min /\ opt'.waitUntil < q.min
                    /\ q.onePC => keys' = {Primary}
                    /\ onePC' => q.onePC
  BY DEF RequestsAbove, Step, Frame
<1> USE DEF vars, serverVars, clientVars, flagVars, txnVars
<1>0. IndInv /\ TypeOK /\ keys' = keys /\ opt' = opt /\ keys \subseteq Key /\ opt.waitUntil \in Nat
  BY TxnFacts DEF Step, IndInv, Frame
<1>1. NextTS \in Nat /\ NextTS' \in Nat /\ NextTS <= NextTS'
  BY TimeGrows
<1>2. CASE q \in req[k]
  <2>1. phase # "idle"
    BY <1>0, <1>2 DEF IndInv, FreshBefore
  <2>2. begun' = begun /\ (onePC' => onePC)
    BY <2>1, <1>0, AnswerKnown DEF Step, StepEffects, Execute, ExecuteFails
  <2>3. q.min \in Nat
    BY <1>0, <1>2, TSAssumption DEF TypeOK, Request, TS
  <2> QED
    BY <1>0, <1>1, <1>2, <2>2, <2>3 DEF IndInv, RequestsAbove
<1>3. CASE q \notin req[k]
  <2>1. PICK j \in keys : SendPrewrite(j)
    BY <1>0, <1>3 DEF Step, StepEffects, PrewriteConflict, TypeOK
  <2>2. q = [async |-> async, onePC |-> onePC, min |-> LargestOf(mgr, StartTS + 1)]
    BY <2>1, <1>0, <1>3 DEF SendPrewrite, TypeOK
  <2>3. phase = "prewrite" /\ begun' = begun /\ onePC' = onePC
    BY <2>1 DEF SendPrewrite
  <2>4. mgr <= NextTS /\ StartTS + 1 <= NextTS /\ mgr \in Nat /\ begun \in Nat
    BY <1>0, TSAssumption DEF IndInv, Clocks, NextTS, TypeOK, TS
  <2>5. async \/ onePC => begun < mgr /\ opt.waitUntil < mgr
    BY <1>0, <2>3 DEF IndInv, ProtocolKnown
  <2>6. PICK m \in Nat : m = LargestOf(mgr, StartTS + 1)
    BY <2>4, TSAssumption DEF LargestOf
  <2>7. m > 0 /\ m <= NextTS' /\ mgr <= m
    BY <2>4, <2>6, <1>1, TSAssumption DEF LargestOf
  <2>8. q.min = m /\ q.async = async /\ q.onePC = onePC
    BY <2>2, <2>6
  <2> QED
    BY <1>0, <2>3, <2>4, <2>5, <2>7, <2>8 DEF IndInv, ProtocolKnown
<1> QED BY <1>2, <1>3

(* The answer of a prewrite keeps describing the lock or the record it     *)
(* left.                                                                   *)
LEMMA PrewritesTellStep == Step => PrewritesTell'
<1> SUFFICES ASSUME Step, NEW k \in keys
             PROVE  /\ lock'[k].held => /\ write'[k] = -1 /\ resp'[k] # -1 /\ lock'[k].min <= NextTS'
                                        /\ (lock'[k].async <=> resp'[k] > 0)
                                        /\ (lock'[k].async => lock'[k].min = resp'[k])
                    /\ ~lock'[k].held /\ resp'[k] # -1 => write'[k] >= 0
                    /\ ~lock'[k].held /\ resp'[k] = -1 => write'[k] <= 0
                    /\ resp'[k] > 0 =>
                         begun' < resp'[k] /\ opt'.waitUntil < resp'[k] /\ resp'[k] <= MaxCommitTS
                    /\ resp'[k] > 0 /\ onePC' => write'[k] = resp'[k]
                    /\ batch'[k] = "ok" => resp'[k] # -1
  BY DEF PrewritesTell, Step, Frame
<1> USE DEF vars, serverVars, clientVars, flagVars, txnVars
<1>0. IndInv /\ TypeOK /\ keys' = keys /\ opt' = opt /\ keys \subseteq Key /\ opt.waitUntil \in Nat
  BY TxnFacts DEF Step, IndInv, Frame
<1>1. NextTS \in Nat /\ NextTS' \in Nat /\ NextTS <= NextTS'
  BY TimeGrows
<1>2. resp[k] > 0 => begun' = begun /\ (onePC' => onePC)
  <2>1. resp[k] > 0 => phase # "idle"
    BY <1>0 DEF IndInv, FreshBefore
  <2> QED
    BY <2>1, <1>0, AnswerKnown DEF Step, StepEffects, Execute, ExecuteFails
<1>3. batch'[k] = "ok" => batch[k] = "ok" \/ resp[k] # -1
  BY <1>0
  DEF Step, StepEffects, SendPrewrite, PrewriteSucceed, Failing, PrewriteRefused, PrewriteRPCError,
      PrewriteCancelled, PrewriteConflict, PrewriteUndeterminedResult, BatchFails, TypeOK
<1>4. lock[k].min \in Nat /\ resp[k] \in Int /\ write[k] \in Int /\ begun \in Nat
  BY <1>0, TSAssumption DEF TypeOK, TS
<1>5. CASE UNCHANGED <<lock, write, resp>>
  BY <1>0, <1>1, <1>2, <1>3, <1>4, <1>5 DEF IndInv, PrewritesTell
<1>6. CASE Recording
  <2>1. resp' = resp /\ onePC' = onePC /\ begun' = begun /\ batch' = batch
    BY <1>6 DEF Step, Records
  <2>2. CASE Untouched(k)
    BY <2>1, <2>2, <1>0, <1>1, <1>4 DEF Untouched, IndInv, PrewritesTell
  <2>3. CASE Recorded(k)
    <3>1. write[k] = -1 /\ ~lock'[k].held /\ (write'[k] = 0 \/ (write'[k] > 0 /\ lock[k].held))
      BY <2>3 DEF Recorded
    <3>2. write'[k] \in Int
      BY <1>0, TSAssumption DEF Step, TypeOK, TS
    <3> QED BY <2>1, <3>1, <3>2, <1>0, <1>4 DEF IndInv, PrewritesTell
  <2> QED BY <1>6, <2>2, <2>3 DEF Step, Records
<1>7. ASSUME NEW j \in keys, Prewrite(j), j # k
      PROVE  UNCHANGED <<lock[k], write[k], resp[k]>>
  BY <1>0, <1>7, PrewriteEffect
<1>8. CASE Prewrite(k)
  <2>1. PICK q \in req[k], m \in Nat :
          /\ m > 0 /\ m <= NextTS /\ q.min <= m
          /\ \/ /\ resp'[k] = 0 /\ write'[k] = -1
                /\ lock'[k].held /\ ~lock'[k].async /\ lock'[k].min = m
             \/ /\ resp'[k] = m /\ (q.async \/ q.onePC) /\ m <= MaxCommitTS
                /\ ~q.onePC => write'[k] = -1 /\ lock'[k].held /\ lock'[k].async /\ lock'[k].min = m
                /\ q.onePC => write'[k] = m /\ ~lock'[k].held
    BY <1>0, <1>8, PrewriteEffect
  <2>2. UNCHANGED <<begun, onePC, batch>>
    BY <1>8 DEF Prewrite, RunPrewrite
  <2>3. /\ q.async \/ q.onePC => begun < q.min /\ opt.waitUntil < q.min
        /\ onePC => q.onePC
        /\ q.min \in Nat
    BY <1>0, TSAssumption DEF IndInv, RequestsAbove, TypeOK, Request, TS
  <2> QED
    BY <1>0, <1>1, <1>4, <2>1, <2>2, <2>3
<1> QED
  BY <1>0, <1>1, <1>2, <1>3, <1>4, <1>5, <1>6, <1>7, <1>8 DEF Step, StepEffects, IndInv, PrewritesTell

(* Readers that missed the write stay below its version.                   *)
LEMMA ReadsBelowStep == Step => ReadsBelow'
<1> SUFFICES ASSUME Step, NEW k \in keys
             PROVE  /\ write'[k] > 0 => missed'[k] < write'[k]
                    /\ lock'[k].held /\ lock'[k].async => missed'[k] < resp'[k]
  BY DEF ReadsBelow, Step, Frame
<1> USE DEF vars, serverVars, clientVars, flagVars, txnVars
<1>0. IndInv /\ TypeOK /\ keys \subseteq Key
  BY TxnFacts DEF Step, IndInv
<1>1. lock[k].min \in Nat /\ resp[k] \in Int /\ write[k] \in Int /\ missed[k] \in Nat
  BY <1>0, TSAssumption DEF TypeOK, TS
<1>2. CASE UNCHANGED <<lock, write, resp, missed>>
  BY <1>0, <1>2 DEF IndInv, ReadsBelow
<1>3. ASSUME NEW j \in keys, NEW ts \in 1 .. tso, Read(j, ts)
      PROVE  /\ write'[k] > 0 => missed'[k] < write'[k]
             /\ lock'[k].held /\ lock'[k].async => missed'[k] < resp'[k]
  <2>1. lock' = lock /\ write' = write /\ resp' = resp
    BY <1>3 DEF Read
  <2>2. CASE j # k
    BY <2>1, <2>2, <1>0, <1>3 DEF Read, TypeOK, IndInv, ReadsBelow
  <2>3. CASE j = k
    <3>1. ~(lock[k].held /\ lock[k].min <= ts) /\ ts \in Nat
      BY <1>3, <2>3 DEF Read
    <3>2. missed'[k] = missed[k] \/ (missed'[k] = ts /\ write[k] \notin 1 .. ts)
      BY <1>0, <1>3, <2>3 DEF Read, LargestOf, TypeOK
    <3>3. lock[k].held /\ lock[k].async => lock[k].min = resp[k]
      BY <1>0 DEF IndInv, PrewritesTell
    <3> QED BY <2>1, <3>1, <3>2, <3>3, <1>0, <1>1 DEF IndInv, ReadsBelow
  <2> QED BY <2>2, <2>3
<1>4. CASE Recording
  <2>1. resp' = resp /\ missed' = missed
    BY <1>4 DEF Step, Records
  <2>2. CASE Untouched(k)
    BY <2>1, <2>2, <1>0 DEF Untouched, IndInv, ReadsBelow
  <2>3. CASE Recorded(k) /\ write'[k] > 0
    <3>1. lock[k].held /\ ~lock'[k].held
      BY <2>3 DEF Recorded
    <3>2. CommittedByLocks(write'[k]) \/ (Fallback /\ write'[k] = commitTS)
      BY <2>3 DEF Recorded, Committed, CommittedByPrimary
    <3>3. CASE CommittedByLocks(write'[k])
      <4>1. resp[k] > 0 /\ resp[k] <= write'[k] /\ write'[k] \in Int
        BY <3>3, <1>1, TSAssumption, <1>0 DEF CommittedByLocks, TypeOK, TS
      <4>2. missed[k] < resp[k]
        BY <4>1, <3>1, <1>0 DEF IndInv, PrewritesTell, ReadsBelow
      <4> QED BY <4>1, <4>2, <2>1, <3>1, <1>1
    <3>4. CASE Fallback /\ write'[k] = commitTS
      BY <3>1, <3>4, <2>1, <1>0 DEF IndInv, FallbackIsLarge
    <3> QED BY <3>2, <3>3, <3>4
  <2>4. CASE Recorded(k) /\ ~(write'[k] > 0)
    BY <2>4 DEF Recorded
  <2> QED BY <1>4, <2>2, <2>3, <2>4 DEF Step, Records
<1>5. ASSUME NEW j \in keys, Prewrite(j)
      PROVE  /\ write'[k] > 0 => missed'[k] < write'[k]
             /\ lock'[k].held /\ lock'[k].async => missed'[k] < resp'[k]
  <2>1. missed' = missed /\ missed[k] <= maxTS[k] /\ maxTS[k] \in Nat
    BY <1>5, <1>0, TSAssumption DEF Prewrite, RunPrewrite, IndInv, Clocks, TypeOK, TS
  <2>2. CASE j # k
    BY <1>0, <1>5, <2>1, <2>2, PrewriteEffect DEF IndInv, ReadsBelow
  <2>3. CASE j = k
    BY <1>0, <1>1, <1>5, <2>1, <2>3, PrewriteEffect
  <2> QED BY <2>2, <2>3
<1> QED
  BY <1>2, <1>3, <1>4, <1>5, <1>0 DEF Step, StepEffects, Read, Prewrite, RunPrewrite

(* Nothing is sent before execute().                                       *)
LEMMA FreshBeforeStep == Step => FreshBefore'
<1> SUFFICES ASSUME Step, phase' = "idle"
             PROVE  /\ ~async' /\ ~onePC' /\ ~undet' /\ ~cancelled'
                    /\ \A k \in keys : resp'[k] = -1 /\ req'[k] = {} /\ batch'[k] = "unsent"
  BY DEF FreshBefore, Step, Frame
<1>0. IndInv /\ StepEffects
  BY DEF Step
<1>1. phase = "idle"
  BY <1>0
  DEF StepEffects, Execute, ExecuteFails, Erring, OnePCCommit, AsyncCommitted, FallbackCommit, Crash,
      PrewriteFail, TakesTooLong, FallbackSchemaFail, CommitPrimaryNotFound, Leave
<1>2. ~Execute /\ ~ExecuteFails /\ \A k \in keys : ~PrewriteSucceed(k) /\ ~SendPrewrite(k) /\ ~Failing(k)
  BY <1>1
  DEF Execute, ExecuteFails, PrewriteSucceed, SendPrewrite, Failing, PrewriteRefused, PrewriteRPCError,
      PrewriteCancelled, BatchFails, PrewriteConflict, PrewriteUndeterminedResult
<1>3. \A k \in keys : ~Prewrite(k)
  BY <1>0, <1>1, PrewriteEffect
<1>4. UNCHANGED <<async, onePC, undet, cancelled, resp, req, batch>>
  BY <1>0, <1>2, <1>3 DEF StepEffects, Failing
<1> QED
  BY <1>0, <1>1, <1>4 DEF IndInv, FreshBefore

(* Plain requests stay plain when the flags are off or sending is over.    *)
LEMMA PlainStable ==
    ASSUME Step, Plain, (~async /\ ~onePC) \/ cancelled \/ phase # "prewrite"
    PROVE  Plain' \/ Sync'
<1>0. IndInv /\ TypeOK /\ keys' = keys /\ keys \subseteq Key
  BY TxnFacts DEF Step, IndInv, Frame
<1>1. ASSUME NEW k \in keys, NEW q \in req'[k] PROVE ~q.async /\ ~q.onePC
  <2>1. CASE q \in req[k]
    BY <2>1 DEF Plain
  <2>2. CASE q \notin req[k]
    <3>1. PICK j \in keys : SendPrewrite(j)
      BY <1>0, <1>1, <2>2 DEF Step, StepEffects, PrewriteConflict, TypeOK
    <3>2. q = [async |-> async, onePC |-> onePC, min |-> LargestOf(mgr, StartTS + 1)]
      BY <3>1, <1>0, <1>1, <2>2 DEF SendPrewrite, TypeOK
    <3> QED BY <3>1, <3>2 DEF SendPrewrite
  <2> QED BY <2>1, <2>2
<1>2. CASE resp' = resp
  BY <1>0, <1>1, <1>2 DEF Plain
<1>3. ASSUME NEW k \in keys, Prewrite(k) PROVE Sync'
  <2>1. resp'[k] = 0
    BY <1>0, <1>3, PrewriteEffect DEF Plain
  <2> QED BY <2>1, <1>0 DEF Sync
<1> QED BY <1>2, <1>3 DEF Step, StepEffects

(* Once the locks cannot decide any more, they never will.                 *)
LEMMA NotByLocksStable ==
    ASSUME Step, NotByLocks, cancelled \/ phase # "prewrite" \/ (~async /\ ~onePC)
    PROVE  NotByLocks'
  BY PlainStable, Stable DEF NotByLocks, Step

(* The flags useAsyncCommit and useOnePC describe what the requests asked  *)
(* for.                                                                    *)
LEMMA ProtocolKnownStep == Step => ProtocolKnown'
<1> SUFFICES ASSUME Step PROVE ProtocolKnown'
  OBVIOUS
<1> USE DEF vars, serverVars, clientVars, flagVars, txnVars
<1>0. IndInv /\ TypeOK /\ Frame /\ keys' = keys /\ opt' = opt /\ keys \subseteq Key /\ Primary \in keys
      /\ opt.waitUntil \in Nat
  BY TxnFacts DEF Step, IndInv, Frame
<1>1. phase' \in Before => commitTS' = 0
  <2>1. phase' \in Before => phase \in Before
    BY <1>0 DEF Frame
  <2>2. phase' \in Before => commitTS' = commitTS
    BY DEF Step, StepEffects, OnePCCommit, AsyncCommitted, TakesTooLong, FallbackCommit, Leave, Before
  <2> QED BY <2>1, <2>2, <1>0 DEF IndInv, ProtocolKnown
<1>2. onePC' => keys' = {Primary}
  BY <1>0, AnswerKnown, OnePCKeys
  DEF Step, StepEffects, Execute, ExecuteFails, IndInv, ProtocolKnown
<1>3. phase' = "prewrite" => Execute \/ (phase = "prewrite" /\ ~Execute /\ ~ExecuteFails)
  BY DEF Step, StepEffects, Execute, ExecuteFails, Erring, OnePCCommit, AsyncCommitted, FallbackCommit,
         Crash, PrewriteFail, TakesTooLong, FallbackSchemaFail, CommitPrimaryNotFound, Leave
<1>4. ASSUME phase' = "prewrite", async' \/ onePC' PROVE begun' < mgr' /\ opt'.waitUntil < mgr'
  <2>1. CASE Execute
    <3>1. mgr' = NextTS' /\ begun' = tso /\ tso' = GetTimestampForCommit
      BY <1>4, <2>1, Zenon DEF Execute, NextTS
    <3>2. opt.waitUntil < GetTimestampForCommit /\ tso < GetTimestampForCommit
      BY <1>0, TSAssumption DEF GetTimestampForCommit, LargestOf, TypeOK, TS
    <3>3. tso \in Nat /\ tso' \in Nat /\ NextTS' \in Nat /\ tso' < NextTS'
      BY TimeGrows
    <3> QED BY <3>1, <3>2, <3>3, <1>0
  <2>2. CASE phase = "prewrite" /\ ~Execute /\ ~ExecuteFails
    <3>1. begun' = begun
      BY <2>2 DEF Step, StepEffects
    <3>2. CASE UNCHANGED <<async, onePC, mgr>>
      BY <2>2, <3>1, <3>2, <1>0, <1>4 DEF IndInv, ProtocolKnown
    <3>3. ASSUME NEW k \in keys, PrewriteSucceed(k) PROVE mgr <= mgr' /\ (async \/ onePC)
      BY <1>0, <1>4, <3>3, AnswerKnown, TSAssumption DEF LargestOf, TypeOK, TS
    <3>4. mgr \in Int /\ mgr' \in Int /\ begun \in Int
      BY <1>0, TSAssumption DEF Step, TypeOK, TS
    <3> QED
      BY <2>2, <3>1, <3>2, <3>3, <3>4, <1>0 DEF Step, StepEffects, IndInv, ProtocolKnown
  <2> QED BY <1>3, <1>4, <2>1, <2>2
<1>5. ASSUME phase' # "idle", ~async', ~onePC' PROVE Sync' \/ Plain'
  <2>1. CASE phase = "idle"
    <3>1. \A k \in keys : resp[k] = -1 /\ req[k] = {}
      BY <2>1, <1>0 DEF IndInv, FreshBefore
    <3>2. Plain
      BY <3>1 DEF Plain
    <3> QED BY <2>1, <3>2, PlainStable
  <2>2. CASE phase # "idle" /\ ~async /\ ~onePC
    BY <2>2, <1>0, PlainStable, Stable DEF IndInv, ProtocolKnown
  <2>3. CASE phase # "idle" /\ (async \/ onePC)
    <3>1. PICK k \in keys : PrewriteSucceed(k)
      BY <1>5, <2>3 DEF Step, StepEffects, Execute, ExecuteFails
    <3>2. resp[k] = 0
      BY <1>0, <1>5, <2>3, <3>1, AnswerKnown, TSAssumption DEF TypeOK, TS
    <3> QED BY <3>2, <1>0, Stable DEF Sync
  <2> QED BY <2>1, <2>2, <2>3
<1>6. ASSUME phase' = "prewrite", onePC', batch'[Primary] = "ok"
      PROVE  onePCTS' > 0 /\ write'[Primary] = onePCTS'
  <2>1. phase = "prewrite" /\ batch[Primary] # "unsent"
    BY <1>0, <1>3, <1>6
    DEF IndInv, FreshBefore, Execute, Step, StepEffects, SendPrewrite, PrewriteSucceed, Failing,
        PrewriteRefused, PrewriteRPCError, PrewriteCancelled, BatchFails, PrewriteConflict,
        PrewriteUndeterminedResult, TypeOK
  <2>2. ASSUME NEW k \in keys, PrewriteSucceed(k) PROVE onePCTS' > 0 /\ write'[Primary] = onePCTS'
    <3>1. keys = {Primary}
      BY <1>0, <1>2, <1>6
    <3>2. onePC
      BY <1>0, <1>6, <2>2, AnswerKnown
    <3>3. onePCTS' > 0 /\ write[Primary] = onePCTS'
      BY <1>0, <1>6, <2>2, <3>1, <3>2, AnswerKnown, TSAssumption DEF TS
    <3>4. write' = write
      BY <2>2 DEF PrewriteSucceed
    <3> QED BY <3>3, <3>4
  <2>3. CASE \A k \in keys : ~PrewriteSucceed(k)
    <3>1. UNCHANGED <<onePC, onePCTS>> /\ batch[Primary] = "ok"
      BY <1>0, <1>6, <2>1, <2>3
      DEF Step, StepEffects, Execute, ExecuteFails, SendPrewrite, Failing, PrewriteRefused,
          PrewriteRPCError, PrewriteCancelled, BatchFails, PrewriteConflict,
          PrewriteUndeterminedResult, TypeOK
    <3>2. onePCTS > 0 /\ write[Primary] = onePCTS /\ onePCTS \in Int
      BY <2>1, <3>1, <1>0, <1>6, TSAssumption DEF IndInv, ProtocolKnown, TypeOK, TS
    <3> QED BY <3>1, <3>2, <1>0 DEF Frame
  <2> QED BY <2>2, <2>3
<1> QED
  BY <1>1, <1>2, <1>4, <1>5, <1>6 DEF ProtocolKnown

(* minCommitTSMgr keeps the largest minCommitTS of the answers.            *)
LEMMA MgrIsLargestStep == Step => MgrIsLargest'
<1> SUFFICES ASSUME Step, phase' = "prewrite", async', ~onePC'
             PROVE  /\ \A k \in keys : batch'[k] = "ok" => 0 < resp'[k] /\ resp'[k] <= mgr'
                    /\ \/ \E k \in keys : resp'[k] = mgr'
                       \/ \A k \in keys : /\ resp'[k] > 0 => mgr' <= resp'[k]
                                          /\ \A q \in req'[k] : mgr' <= q.min
  BY DEF MgrIsLargest, Step, Frame
<1> USE DEF vars, serverVars, clientVars, flagVars, txnVars
<1>0. IndInv /\ TypeOK /\ keys \subseteq Key
  BY TxnFacts DEF Step, IndInv
<1>1. \A k \in keys : resp[k] \in Int
  BY <1>0, TSAssumption DEF TypeOK, TS
<1>2. mgr \in Nat
  BY <1>0, TSAssumption DEF TypeOK, TS
<1>3. CASE Execute
  BY <1>0, <1>3 DEF Execute, IndInv, FreshBefore
<1>4. CASE ~Execute
  <2>1. phase = "prewrite"
    BY <1>4
    DEF Step, StepEffects, ExecuteFails, Erring, OnePCCommit, AsyncCommitted, FallbackCommit,
        Crash, PrewriteFail, TakesTooLong, FallbackSchemaFail, CommitPrimaryNotFound, Leave
  <2>2. async /\ ~onePC
    <3>1. ASSUME NEW k \in keys, PrewriteSucceed(k) PROVE async /\ ~onePC
      BY <1>0, <3>1, AnswerKnown
    <3>2. UNCHANGED <<async, onePC, mgr>> \/ \E k \in keys : PrewriteSucceed(k)
      BY <1>4, <2>1 DEF Step, StepEffects, ExecuteFails
    <3>3. (async' = async /\ onePC' = onePC) \/ \E k \in keys : PrewriteSucceed(k)
      BY <3>2
    <3>4. async \in BOOLEAN /\ onePC \in BOOLEAN
      BY <1>0 DEF TypeOK
    <3>5. CASE async' = async /\ onePC' = onePC
      BY <3>4, <3>5
    <3> QED BY <3>1, <3>3, <3>5
  <2>3. /\ \A k \in keys : batch[k] = "ok" => 0 < resp[k] /\ resp[k] <= mgr
        /\ \/ \E k \in keys : resp[k] = mgr
           \/ \A k \in keys : /\ resp[k] > 0 => mgr <= resp[k]
                              /\ \A q \in req[k] : mgr <= q.min
    BY <2>1, <2>2, <1>0 DEF IndInv, MgrIsLargest
  <2>4. ASSUME NEW j \in keys, PrewriteSucceed(j)
        PROVE  /\ \A k \in keys : batch'[k] = "ok" => 0 < resp'[k] /\ resp'[k] <= mgr'
               /\ \/ \E k \in keys : resp'[k] = mgr'
                  \/ \A k \in keys : /\ resp'[k] > 0 => mgr' <= resp'[k]
                                     /\ \A q \in req'[k] : mgr' <= q.min
    <3>1. PICK min \in Nat :
            /\ min > 0 /\ resp[j] > 0 /\ resp[j] <= min /\ mgr' = LargestOf(mgr, min)
            /\ min = resp[j] \/ CommittedByLocks(min)
      BY <1>0, <2>2, <2>4, AnswerKnown, TSAssumption DEF TS
    <3>2. UNCHANGED <<resp, req>> /\ batch' = [batch EXCEPT ![j] = "ok"]
      BY <2>4 DEF PrewriteSucceed
    <3>3. mgr' \in Nat /\ mgr <= mgr' /\ min <= mgr' /\ (mgr' = mgr \/ mgr' = min)
      BY <3>1, <1>2 DEF LargestOf
    <3>4. \E k \in keys : resp[k] = min
      BY <3>1 DEF CommittedByLocks
    <3>5. \A k \in keys : batch'[k] = "ok" => k = j \/ batch[k] = "ok"
      BY <3>2, <1>0 DEF TypeOK
    <3> QED BY <3>1, <3>2, <3>3, <3>4, <3>5, <2>3, <1>1, <1>2
  <2>5. ASSUME NEW j \in keys, SendPrewrite(j)
        PROVE  /\ \A k \in keys : batch'[k] = "ok" => 0 < resp'[k] /\ resp'[k] <= mgr'
               /\ \/ \E k \in keys : resp'[k] = mgr'
                  \/ \A k \in keys : /\ resp'[k] > 0 => mgr' <= resp'[k]
                                     /\ \A q \in req'[k] : mgr' <= q.min
    <3>1. UNCHANGED <<resp, mgr>> /\ \A k \in keys : batch'[k] = "ok" => batch[k] = "ok"
      BY <2>5, <1>0 DEF SendPrewrite, TypeOK
    <3>2. PICK m \in Nat : m = LargestOf(mgr, StartTS + 1)
      BY <1>2, TSAssumption DEF LargestOf
    <3>3. mgr <= m
      BY <3>2, <1>2, TSAssumption DEF LargestOf
    <3>4. \A k \in keys : \A q \in req'[k] : q \in req[k] \/ q.min = m
      BY <2>5, <3>2, <1>0 DEF SendPrewrite, TypeOK
    <3> QED BY <3>1, <3>3, <3>4, <2>3, <1>1, <1>2
  <2>6. ASSUME NEW j \in keys, Prewrite(j)
        PROVE  /\ \A k \in keys : batch'[k] = "ok" => 0 < resp'[k] /\ resp'[k] <= mgr'
               /\ \/ \E k \in keys : resp'[k] = mgr'
                  \/ \A k \in keys : /\ resp'[k] > 0 => mgr' <= resp'[k]
                                     /\ \A q \in req'[k] : mgr' <= q.min
    <3>1. UNCHANGED <<batch, mgr, req>>
      BY <2>6 DEF Prewrite, RunPrewrite
    <3>2. PICK q \in req[j], m \in Nat :
            /\ resp[j] = -1 /\ batch[j] # "ok" /\ \A k \in keys : k # j => resp'[k] = resp[k]
            /\ q.min <= m /\ (resp'[j] = 0 \/ resp'[j] = m)
      BY <1>0, <2>6, PrewriteEffect
    <3>3. q.min \in Nat
      BY <1>0, TSAssumption DEF TypeOK, TS, Request
    <3> QED BY <3>1, <3>2, <3>3, <2>3, <1>1, <1>2
  <2>7. ASSUME NEW j \in keys, Failing(j)
        PROVE  /\ UNCHANGED <<resp, mgr>>
               /\ \A k \in keys : (batch'[k] = "ok" => batch[k] = "ok") /\ req'[k] \subseteq req[k]
    BY <2>7, <1>0
    DEF Failing, PrewriteRefused, PrewriteRPCError, PrewriteCancelled, BatchFails, PrewriteConflict,
        PrewriteUndeterminedResult, TypeOK
  <2>8. CASE UNCHANGED <<resp, mgr, batch, req>>
    BY <2>3, <2>8
  <2> QED
    BY <2>1, <2>3, <2>4, <2>5, <2>6, <2>7, <2>8 DEF Step, StepEffects, Execute, ExecuteFails, Failing
<1> QED BY <1>3, <1>4

(* All keys are prewritten and the flags are off: a key has a plain lock.  *)
LEMMA PrewrittenSync ==
    ASSUME IndInv, Prewritten, ~async, ~onePC
    PROVE  Sync
<1>1. keys \subseteq Key /\ Primary \in keys /\ TypeOK
  BY TxnFacts DEF IndInv
<1>2. Sync \/ Plain
  BY DEF IndInv, ProtocolKnown, Prewritten
<1>3. resp[Primary] # -1
  BY <1>1 DEF Prewritten, IndInv, PrewritesTell
<1> QED BY <1>1, <1>2, <1>3, TSAssumption DEF Plain, Sync, TypeOK, TS

(* A version from PD stays above what the keys promised, after a fallback. *)
LEMMA FallbackIsLargeStep == Step => FallbackIsLarge'
<1> SUFFICES ASSUME Step, Fallback'
             PROVE  /\ Sync' /\ begun' < commitTS' /\ opt'.waitUntil < commitTS' /\ commitTS' <= tso'
                    /\ \A k \in keys :
                          /\ resp'[k] # -1 /\ resp'[k] <= commitTS'
                          /\ lock'[k].held => lock'[k].min <= commitTS' /\ missed'[k] < commitTS'
  BY DEF FallbackIsLarge, Step, Frame
<1> USE DEF vars, serverVars, clientVars, flagVars, txnVars
<1>0. IndInv /\ TypeOK /\ Frame /\ keys \subseteq Key /\ opt' = opt /\ opt.waitUntil \in Nat
  BY TxnFacts DEF Step, IndInv, Frame
<1>1. /\ tso \in Nat /\ tso' \in Nat /\ tso <= tso' /\ NextTS \in Nat
      /\ tso < tso' => NextTS <= tso'
  BY TimeGrows
<1>2. CASE phase \notin Before
  <2>1. UNCHANGED <<commitTS, async, onePC, begun>>
    BY <1>0, <1>2 DEF Frame, Step, StepEffects, Execute, ExecuteFails, Before
  <2>2. Fallback
    BY <2>1 DEF Fallback
  <2>3. /\ Sync /\ begun < commitTS /\ opt.waitUntil < commitTS /\ commitTS <= tso
        /\ \A k \in keys :
              /\ resp[k] # -1 /\ resp[k] <= commitTS
              /\ lock[k].held => lock[k].min <= commitTS /\ missed[k] < commitTS
    BY <1>0, <2>2 DEF IndInv, FallbackIsLarge
  <2>4. commitTS \in Nat
    BY <1>0, TSAssumption DEF TypeOK, TS
  <2>5. ASSUME NEW k \in keys
        PROVE  /\ resp'[k] # -1 /\ resp'[k] <= commitTS
               /\ lock'[k].held => lock'[k].min <= commitTS /\ missed'[k] < commitTS
    <3>1. resp'[k] = resp[k]
      BY <1>0, <2>3 DEF Frame
    <3>2. lock'[k].held => lock'[k] = lock[k]
      <4>1. ~Prewrite(k)
        BY <1>0, <2>3, PrewriteEffect
      <4>2. ASSUME NEW j \in keys, Prewrite(j) PROVE lock'[k] = lock[k]
        BY <4>1, <4>2, <1>0, PrewriteEffect
      <4>3. CASE Recording
        BY <4>3 DEF Step, Records, Untouched, Recorded
      <4> QED BY <4>2, <4>3 DEF Step, StepEffects
    <3>3. lock[k].held => missed'[k] < commitTS
      <4>1. CASE missed' = missed
        BY <4>1, <2>3
      <4>2. ASSUME NEW j \in keys, NEW ts \in 1 .. tso, Read(j, ts), lock[k].held
            PROVE  missed'[k] < commitTS
        <5>1. missed'[k] = missed[k] \/ (missed'[k] = ts /\ ~(lock[k].min <= ts))
          BY <1>0, <4>2 DEF Read, LargestOf, TypeOK
        <5>2. lock[k].min \in Nat /\ ts \in Nat /\ missed[k] \in Nat
          BY <1>0, TSAssumption DEF TypeOK, TS
        <5> QED BY <4>2, <5>1, <5>2, <2>3, <2>4
      <4> QED BY <4>1, <4>2 DEF Step, StepEffects
    <3> QED BY <3>1, <3>2, <3>3, <2>3
  <2>6. commitTS <= tso'
    BY <2>3, <2>4, <1>1
  <2> QED BY <2>1, <2>3, <2>5, <2>6, <1>0, Stable
<1>3. CASE phase \in Before
  <2>1. commitTS = 0
    BY <1>0, <1>3 DEF IndInv, ProtocolKnown
  <2>2. FallbackCommit
    BY <2>1, <1>3
    DEF Fallback, Step, StepEffects, OnePCCommit, AsyncCommitted, TakesTooLong, Prewritten
  <2>3. Prewritten /\ ~async /\ ~onePC /\ tso' = GetTimestampForCommit /\ commitTS' = tso'
        /\ UNCHANGED <<lock, resp, missed, begun, keys>>
    BY <2>2 DEF FallbackCommit
  <2>4. tso < tso' /\ opt.waitUntil < tso'
    BY <2>3, <1>0, <1>1 DEF GetTimestampForCommit, LargestOf
  <2>5. Sync'
    BY <2>3, <1>0, PrewrittenSync, Stable
  <2>6. begun < tso'
    BY <2>4, <1>0, <1>1, TSAssumption DEF IndInv, Clocks, TypeOK, TS
  <2>7. ASSUME NEW k \in keys
        PROVE  /\ resp[k] # -1 /\ resp[k] <= tso'
               /\ lock[k].held => lock[k].min <= tso' /\ missed[k] < tso'
    <3>1. /\ resp[k] \in Int /\ lock[k].min \in Nat /\ missed[k] \in Nat /\ maxTS[k] \in Nat
      BY <1>0, TSAssumption DEF TypeOK, TS
    <3>2. resp[k] # -1 /\ (lock[k].held => lock[k].min <= NextTS)
      BY <1>0, <2>3 DEF IndInv, PrewritesTell, Prewritten
    <3>3. missed[k] <= maxTS[k] /\ maxTS[k] <= tso /\ resp[k] <= NextTS
      BY <1>0 DEF IndInv, Clocks
    <3> QED BY <3>1, <3>2, <3>3, <2>4, <1>1
  <2> QED BY <2>3, <2>4, <2>5, <2>6, <2>7, <1>0, <1>1
<1> QED BY <1>2, <1>3

-----------------------------------------------------------------------------
(* Clients may crash, but no store answers UndeterminedResult to async     *)
(* commit (prewrite.go would report a plain error) and no async-commit     *)
(* transaction is given up for taking too long (2pc.go): with either of    *)
(* them the committer's error is not true.                                 *)
CrashOnly == Env \subseteq {"Crash"}

(* A failed batch leaves the outcome to the primary, or is reported        *)
(* undetermined.                                                           *)
LEMMA FailuresKnownStep == CrashOnly /\ Step => FailuresKnown'
<1> SUFFICES ASSUME CrashOnly, Step PROVE FailuresKnown'
  OBVIOUS
<1> USE DEF vars, serverVars, clientVars, flagVars, txnVars
<1>0. IndInv /\ TypeOK /\ Frame /\ keys \subseteq Key /\ Primary \in keys /\ keys' = keys
  BY TxnFacts DEF Step, IndInv, Frame
<1>1. result = "undetermined" => result' = "undetermined"
  <2>1. ASSUME result = "undetermined" PROVE ~(phase = "idle") /\ ~Prewritten /\ phase # "commit"
    BY <1>0, <2>1 DEF IndInv, FailuresKnown, DecisionKnown, Prewritten, Before
  <2> QED
    BY <2>1
    DEF Step, StepEffects, ExecuteFails, Erring, PrewriteFail, TakesTooLong, FallbackSchemaFail,
        CommitPrimaryNotFound, Leave, OnePCCommit, AsyncCommitted, PrewriteUndeterminedResult, CommitKey
<1>2. (undet => undet') /\ (cancelled => cancelled')
  <2>1. ASSUME NEW k \in keys, Failing(k) PROVE (undet => undet') /\ cancelled'
    <3>1. CASE PrewriteRefused(k) \/ PrewriteRPCError(k) \/ PrewriteCancelled(k)
      BY <3>1 DEF PrewriteRefused, PrewriteRPCError, PrewriteCancelled, BatchFails
    <3>2. CASE PrewriteConflict(k) \/ PrewriteUndeterminedResult(k)
      BY <3>2 DEF PrewriteConflict, PrewriteUndeterminedResult
    <3> QED BY <2>1, <3>1, <3>2 DEF Failing
  <2>2. (undet' = undet /\ cancelled' = cancelled) \/ \E k \in keys : Failing(k)
    BY DEF Step, StepEffects
  <2> QED BY <2>1, <2>2
<1>3. ASSUME NEW k \in keys, Failing(k) PROVE cancelled' /\ (undet' \/ result' = "undetermined" \/ NotByLocks')
  <2>0. cancelled'
    BY <1>3 DEF Failing, PrewriteRefused, PrewriteRPCError, PrewriteCancelled, BatchFails,
                PrewriteConflict, PrewriteUndeterminedResult
  <2>1. CASE cancelled
    BY <2>0, <2>1, <1>0, <1>1, <1>2, NotByLocksStable DEF IndInv, FailuresKnown
  <2>2. CASE ~cancelled /\ PrewriteRefused(k)
    <3>1. RolledBack
      BY <2>2, <1>0 DEF PrewriteRefused, IndInv, RecordsTell
    <3> QED BY <2>0, <3>1, <1>0, Stable DEF RolledBack, NotByLocks
  <2>3. CASE ~cancelled /\ PrewriteRPCError(k)
    <3>1. CASE async \/ onePC
      BY <2>0, <2>3, <3>1 DEF PrewriteRPCError, BatchFails
    <3>2. CASE ~async /\ ~onePC
      <4>1. Sync \/ Plain
        BY <2>3, <3>2, <1>0 DEF PrewriteRPCError, BatchFails, IndInv, ProtocolKnown
      <4> QED BY <2>0, <3>2, <4>1, NotByLocksStable DEF NotByLocks
    <3> QED BY <3>1, <3>2
  <2>4. CASE ~cancelled /\ PrewriteCancelled(k)
    BY <2>4 DEF PrewriteCancelled
  <2>5. CASE PrewriteConflict(k)
    <3>1. resp[k] = -1 /\ resp' = resp
      BY <2>5, <1>0 DEF PrewriteConflict, IndInv, PrewritesTell, TypeOK, TS
    <3>2. req'[k] = {} /\ batch'[k] = "err"
      BY <2>5, <1>0 DEF PrewriteConflict, TypeOK
    <3> QED BY <2>0, <3>1, <3>2, <1>0 DEF NotByLocks, Barred
  <2>6. CASE PrewriteUndeterminedResult(k)
    BY <2>0, <2>6 DEF PrewriteUndeterminedResult
  <2> QED BY <1>3, <2>1, <2>2, <2>3, <2>4, <2>5, <2>6 DEF Failing
<1>4. cancelled' => undet' \/ result' = "undetermined" \/ NotByLocks'
  <2>1. CASE UNCHANGED <<undet, cancelled>> /\ cancelled
    BY <2>1, <1>0, <1>1, <1>2, NotByLocksStable DEF IndInv, FailuresKnown
  <2> QED BY <2>1, <1>3 DEF Step, StepEffects
<1>5. ASSUME NEW k \in keys, batch'[k] = "err" PROVE cancelled'
  <2>1. CASE batch[k] = "err"
    BY <2>1, <1>0, <1>2 DEF IndInv, FailuresKnown
  <2>2. CASE batch[k] # "err"
    <3>1. \E j \in keys : Failing(j)
      BY <1>0, <1>5, <2>2 DEF Step, StepEffects, SendPrewrite, PrewriteSucceed, TypeOK
    <3> QED BY <3>1, <1>3
  <2> QED BY <2>1, <2>2
<1>6. ASSUME phase' \in Before, result' # "none"
      PROVE  phase' = "prewrite" /\ result' = "undetermined" /\ onePC' /\ batch'[Primary] = "err"
  <2>0. phase \in Before
    BY <1>0, <1>6 DEF Frame
  <2>1. CASE result = "none"
    <3>1. PICK k \in keys : PrewriteUndeterminedResult(k)
      BY <1>6, <2>0, <2>1
      DEF Step, StepEffects, ExecuteFails, Erring, PrewriteFail, TakesTooLong, FallbackSchemaFail,
          CommitPrimaryNotFound, Leave, OnePCCommit, AsyncCommitted, CommitKey, Before
    <3>2. onePC /\ phase' = "prewrite" /\ result' = "undetermined" /\ onePC' = onePC
      BY <3>1 DEF PrewriteUndeterminedResult, CrashOnly
    <3>3. keys = {Primary}
      BY <3>2, <1>0 DEF IndInv, ProtocolKnown
    <3>4. batch'[Primary] = "err"
      BY <3>1, <3>3, <1>0 DEF PrewriteUndeterminedResult, TypeOK
    <3> QED BY <3>2, <3>4
  <2>2. CASE result # "none"
    <3>1. phase = "prewrite" /\ result = "undetermined" /\ onePC /\ batch[Primary] = "err" /\ keys = {Primary}
      BY <2>0, <2>2, <1>0 DEF IndInv, FailuresKnown, ProtocolKnown
    <3>2. ~Execute /\ ~ExecuteFails /\ \A k \in keys : ~PrewriteSucceed(k)
      BY <3>1 DEF Execute, ExecuteFails, PrewriteSucceed
    <3>3. onePC' = onePC
      BY <3>2 DEF Step, StepEffects
    <3>4. phase' # "idle"
      BY <3>1, <3>2
      DEF Step, StepEffects, Erring, OnePCCommit, AsyncCommitted, FallbackCommit, Crash, PrewriteFail,
          TakesTooLong, FallbackSchemaFail, CommitPrimaryNotFound, Leave
    <3> QED BY <3>1, <3>3, <3>4, <1>0, <1>1, <1>6 DEF Frame, Before
  <2> QED BY <2>1, <2>2
<1> QED
  BY <1>0, <1>4, <1>5, <1>6 DEF FailuresKnown

(* A transaction that the locks cannot decide and whose primary is not     *)
(* committed has no committed key.                                         *)
LEMMA NothingCommitted ==
    ASSUME IndInv, NotByLocks, ~(write[Primary] > 0), NEW k \in keys
    PROVE  write[k] <= 0
<1>1. keys \subseteq Key /\ Primary \in keys /\ write \in [Key -> TS \cup {-1}]
  BY TxnFacts DEF IndInv, TypeOK
<1>2. write[k] \in Int /\ write[Primary] \in Int
  BY <1>1, TSAssumption DEF TS
<1>3. ASSUME write[k] > 0 PROVE FALSE
  <2>1. Committed(write[k])
    BY <1>3 DEF IndInv, RecordsTell
  <2> QED BY <1>2, <1>3, <2>1, OneOutcome
<1> QED BY <1>2, <1>3

(* Nor will it have one.                                                   *)
LEMMA NothingWillBe ==
    ASSUME Step, NotByLocks, phase # "commit", \A j \in keys : write[j] <= 0, NEW k \in keys
    PROVE  write'[k] <= 0
<1>0. IndInv /\ TypeOK /\ keys \subseteq Key /\ Primary \in keys
  BY TxnFacts DEF Step, IndInv
<1>1. write'[k] \in Int
  BY <1>0, TSAssumption DEF Step, TypeOK, TS
<1>2. CASE write'[k] = write[k]
  BY <1>2
<1>3. CASE Recording /\ write'[k] # write[k]
  <2>1. Recorded(k)
    BY <1>3 DEF Step, Records, Untouched
  <2>2. ASSUME write'[k] > 0 PROVE FALSE
    <3>1. Committed(write'[k])
      BY <2>1, <2>2 DEF Recorded
    <3> QED BY <1>0, <2>2, <3>1, OneOutcome
  <2> QED BY <1>1, <2>2
<1>4. ASSUME NEW j \in keys, Prewrite(j), write'[k] # write[k] PROVE FALSE
  <2>1. PICK q \in req[j] : q.onePC /\ resp[j] = -1 /\ write[j] = -1 /\ j = k
    BY <1>0, <1>4, PrewriteEffect
  <2>2. keys = {j}
    BY <1>0, <2>1 DEF IndInv, RequestsAbove
  <2> QED BY <2>1, <2>2 DEF NotByLocks, Dead, Barred, Sync, Plain
<1> QED
  BY <1>2, <1>3, <1>4 DEF Step, StepEffects

(* The commit phase is entered and left with the decision it stands for.   *)
LEMMA CommitPhaseStep ==
    ASSUME Step, phase' = "commit"
    PROVE  \/ async' /\ ~onePC' /\ result' = "ok"
           \/ Fallback' /\ result' \in {"none", "ok"} /\ (result' = "ok" <=> write'[Primary] > 0)
<1> USE DEF vars, serverVars, clientVars, flagVars, txnVars
<1>0. IndInv /\ TypeOK /\ Frame /\ keys \subseteq Key /\ Primary \in keys
  BY TxnFacts DEF Step, IndInv
<1>1. CASE AsyncCommitted
  BY <1>1 DEF AsyncCommitted
<1>2. CASE FallbackCommit
  <2>1. UNCHANGED <<result, write, async, onePC>> /\ Prewritten /\ ~async /\ ~onePC /\ commitTS' = tso'
    BY <1>2 DEF FallbackCommit
  <2>2. result = "none"
    BY <2>1, <1>0 DEF IndInv, FailuresKnown, Prewritten, Before
  <2>3. ~(write[Primary] > 0)
    <3>1. ASSUME write[Primary] > 0 PROVE CommittedByLocks(write[Primary])
      BY <2>1, <3>1, <1>0
      DEF IndInv, RecordsTell, ProtocolKnown, Committed, CommittedByPrimary, Fallback, Prewritten, Before
    <3>2. NotByLocks
      BY <2>1, <1>0, PrewrittenSync DEF NotByLocks
    <3> QED BY <3>1, <3>2, <1>0, OneOutcome
  <2>4. commitTS' > 0
    BY <2>1, TimeGrows, TSAssumption
  <2>5. Fallback'
    BY <2>1, <2>4 DEF Fallback
  <2> QED BY <2>1, <2>2, <2>3, <2>5
<1>3. CASE phase = "commit"
  <2>1. UNCHANGED <<commitTS, async, onePC>>
    BY <1>0, <1>3 DEF Frame, Before
  <2>2. result' = result \/ \E k \in keys : CommitKey(k)
    BY <1>3
    DEF Step, StepEffects, ExecuteFails, Erring, PrewriteFail, TakesTooLong, FallbackSchemaFail,
        CommitPrimaryNotFound, Leave, OnePCCommit, AsyncCommitted, Prewritten, PrewriteUndeterminedResult
  <2>3. \A k \in keys : CommitKey(k) => result' = "ok"
    BY DEF CommitKey
  <2>4. CASE async /\ ~onePC /\ result = "ok"
    BY <2>1, <2>2, <2>3, <2>4
  <2>5. CASE Fallback /\ result \in {"none", "ok"} /\ (result = "ok" <=> write[Primary] > 0)
    <3>1. Fallback'
      BY <2>1, <2>5 DEF Fallback
    <3>2. CASE write[Primary] > 0
      <4>1. write'[Primary] = write[Primary] /\ result = "ok"
        BY <1>0, <2>5, <3>2 DEF Frame
      <4> QED BY <3>1, <3>2, <4>1, <2>2, <2>3
    <3>3. CASE ~(write[Primary] > 0)
      <4>1. ASSUME NEW k \in keys, CommitKey(k) PROVE write'[Primary] > 0
        <5>1. k = Primary /\ lock[k].held
          BY <4>1, <2>5, <3>3 DEF CommitKey, Fallback
        <5>2. write'[Primary] = commitTS
          BY <4>1, <5>1, <1>0 DEF CommitKey, Settle, TypeOK
        <5> QED BY <5>2, <2>5 DEF Fallback
      <4>2. ASSUME write'[Primary] > 0 PROVE result' = "ok"
        <5>1. CASE Recording
          <6>1. Recorded(Primary)
            BY <1>0, <3>3, <4>2, <5>1 DEF Step, Records, Untouched
          <6>2. ~Committed(write'[Primary])
            <7>1. NotByLocks
              BY <1>0, <2>5 DEF IndInv, FallbackIsLarge, NotByLocks
            <7>2. write[Primary] = -1
              BY <6>1 DEF Recorded
            <7> QED BY <1>0, <4>2, <7>1, <7>2, OneOutcome
          <6> QED BY <4>2, <6>1, <6>2 DEF Recorded
        <5>2. ASSUME NEW k \in keys, Prewrite(k) PROVE FALSE
          <6>1. resp[k] = -1
            BY <1>0, <5>2, PrewriteEffect
          <6> QED BY <6>1, <1>0, <2>5 DEF IndInv, FallbackIsLarge
        <5> QED BY <3>3, <4>2, <5>1, <5>2 DEF Step, StepEffects
      <4> QED BY <3>1, <3>3, <4>1, <4>2, <2>2, <2>3, <2>5
    <3> QED BY <3>2, <3>3
  <2> QED BY <1>0, <1>3, <2>4, <2>5 DEF IndInv, DecisionKnown
<1> QED
  BY <1>1, <1>2, <1>3
  DEF Step, StepEffects, Execute, ExecuteFails, Erring, PrewriteFail, TakesTooLong, FallbackSchemaFail,
      CommitPrimaryNotFound, Leave, OnePCCommit, Crash

(* Commit() reports success only of a transaction that is committed.       *)
LEMMA SuccessStep ==
    ASSUME Step, result' = "ok"
    PROVE  phase' \in {"commit", "done"} /\ Committed(commitTS)' /\ commitTS' <= NextTS'
<1> USE DEF vars, serverVars, clientVars, flagVars, txnVars
<1>0. IndInv /\ TypeOK /\ Frame /\ keys \subseteq Key /\ Primary \in keys /\ keys' = keys
  BY TxnFacts DEF Step, IndInv, Frame
<1>1. /\ tso \in Nat /\ NextTS \in Nat /\ NextTS' \in Nat /\ NextTS <= NextTS' /\ tso < NextTS
      /\ commitTS \in Nat /\ commitTS' \in Nat
  BY TimeGrows, TSAssumption, <1>0 DEF Step, TypeOK, TS
<1>2. CASE OnePCCommit
  <2>1. /\ commitTS' = onePCTS /\ phase' = "done" /\ UNCHANGED <<resp, write>>
        /\ phase = "prewrite" /\ onePC /\ batch[Primary] = "ok"
    BY <1>0, <1>2 DEF OnePCCommit, Prewritten
  <2>2. onePCTS > 0 /\ write[Primary] = onePCTS /\ keys = {Primary}
    BY <1>0, <2>1 DEF IndInv, ProtocolKnown
  <2>3. CommittedByLocks(onePCTS)
    BY <1>0, <2>1, <2>2
    DEF IndInv, RecordsTell, ProtocolKnown, Committed, CommittedByPrimary, Fallback, Before
  <2>4. onePCTS <= NextTS
    BY <2>3, <1>0 DEF CommittedByLocks, IndInv, Clocks
  <2>5. Committed(commitTS)'
    BY <1>0, <2>1, <2>3 DEF Committed, CommittedByLocks
  <2> QED BY <2>1, <2>4, <2>5, <1>1
<1>3. CASE AsyncCommitted
  <2>1. /\ commitTS' = mgr /\ phase' = "commit" /\ UNCHANGED <<resp, write>>
        /\ phase = "prewrite" /\ async /\ ~onePC /\ \A k \in keys : batch[k] = "ok"
    BY <1>3 DEF AsyncCommitted, Prewritten
  <2>2. /\ \A k \in keys : 0 < resp[k] /\ resp[k] <= mgr
        /\ \/ \E k \in keys : resp[k] = mgr
           \/ \A k \in keys : resp[k] > 0 => mgr <= resp[k]
    BY <1>0, <2>1 DEF IndInv, MgrIsLargest
  <2>3. mgr \in Nat /\ \A k \in keys : resp[k] \in Int
    BY <1>0, TSAssumption DEF TypeOK, TS
  <2>4. \E k \in keys : resp[k] = mgr
    BY <1>0, <2>2, <2>3
  <2>5. CommittedByLocks(mgr)
    BY <2>2, <2>3, <2>4 DEF CommittedByLocks
  <2>6. Committed(commitTS)'
    BY <1>0, <2>1, <2>5 DEF Committed, CommittedByLocks
  <2>7. mgr <= NextTS
    BY <1>0 DEF IndInv, Clocks
  <2> QED BY <2>1, <2>3, <2>6, <2>7, <1>1
<1>4. CASE result = "ok"
  <2>1. phase \in {"commit", "done"} /\ Committed(commitTS) /\ commitTS <= NextTS
    BY <1>0, <1>4 DEF IndInv, DecisionKnown
  <2>2. commitTS > 0
    BY <1>0, <1>1, <2>1, TSAssumption
    DEF Committed, CommittedByLocks, CommittedByPrimary, Fallback, TypeOK, TS
  <2>3. commitTS' = commitTS
    BY <1>0, <2>1 DEF Frame, Before
  <2>4. ASSUME NEW v, v > 0, Committed(v) PROVE Committed(v)'
    BY <2>4, <1>0, Stable
  <2>5. Committed(commitTS)'
    BY <2>1, <2>2, <2>3, <2>4 DEF Committed, CommittedByLocks, CommittedByPrimary
  <2>6. phase' \in {"commit", "done"}
    BY <1>4, <2>1
    DEF Step, StepEffects, Execute, ExecuteFails, Erring, PrewriteFail, TakesTooLong,
        FallbackSchemaFail, CommitPrimaryNotFound, Leave, OnePCCommit, AsyncCommitted, FallbackCommit,
        Crash, Prewritten
  <2> QED BY <1>1, <2>1, <2>3, <2>5, <2>6
<1>5. ASSUME NEW k \in keys, CommitKey(k), result # "ok" PROVE
         phase' \in {"commit", "done"} /\ Committed(commitTS)' /\ commitTS' <= NextTS'
  <2>1. phase = "commit" /\ phase' = "commit" /\ UNCHANGED <<commitTS, async, onePC>>
    BY <1>5 DEF CommitKey
  <2>2. Fallback /\ k = Primary
    BY <1>0, <1>5, <2>1 DEF IndInv, DecisionKnown, CommitKey, Fallback
  <2>3. write'[Primary] = commitTS
    BY <1>0, <1>5, <2>2 DEF CommitKey, Settle, TypeOK
  <2>4. Committed(commitTS)'
    BY <2>1, <2>2, <2>3 DEF Committed, CommittedByPrimary, Fallback
  <2>5. commitTS <= tso
    BY <1>0, <2>2 DEF IndInv, FallbackIsLarge
  <2> QED BY <2>1, <2>4, <2>5, <1>1
<1> QED
  BY <1>2, <1>3, <1>4, <1>5
  DEF Step, StepEffects, ExecuteFails, Erring, PrewriteFail, TakesTooLong, FallbackSchemaFail,
      CommitPrimaryNotFound, Leave, PrewriteUndeterminedResult

(* Before the end of prewriting only the locks can have committed it.      *)
LEMMA NotCommittedBefore ==
    ASSUME IndInv, phase \in Before \/ phase = "prewrite", NotByLocks
    PROVE  ~(write[Primary] > 0)
<1>1. Primary \in keys
  BY TxnFacts DEF IndInv
<1>2. ASSUME write[Primary] > 0 PROVE CommittedByLocks(write[Primary])
  BY <1>1, <1>2
  DEF IndInv, RecordsTell, ProtocolKnown, Committed, CommittedByPrimary, Fallback, Before
<1> QED BY <1>2, OneOutcome

(* Commit() reports an error only of a transaction that never will be.     *)
LEMMA ErrorStep ==
    ASSUME CrashOnly, Step, result' = "error" \/ phase' = "cleanup"
    PROVE  phase' \in {"cleanup", "done"} /\ NotByLocks' /\ \A k \in keys : write'[k] <= 0
<1> USE DEF vars, serverVars, clientVars, flagVars, txnVars
<1>0. IndInv /\ TypeOK /\ Frame /\ keys \subseteq Key /\ Primary \in keys /\ keys' = keys
  BY TxnFacts DEF Step, IndInv, Frame
<1>1. CASE result = "error" \/ phase = "cleanup"
  <2>1. phase \in {"cleanup", "done"} /\ NotByLocks /\ \A k \in keys : write[k] <= 0
    BY <1>0, <1>1 DEF IndInv, DecisionKnown
  <2>2. phase' \in {"cleanup", "done"}
    BY <2>1
    DEF Step, StepEffects, Execute, ExecuteFails, Erring, PrewriteFail, TakesTooLong,
        FallbackSchemaFail, CommitPrimaryNotFound, Leave, OnePCCommit, AsyncCommitted, FallbackCommit,
        Crash, Prewritten
  <2> QED BY <2>1, <2>2, NothingWillBe, NotByLocksStable
<1>2. CASE ExecuteFails
  <2>1. phase = "idle" /\ phase' \in {"cleanup", "done"} /\ UNCHANGED <<resp, req, write>>
    BY <1>2 DEF ExecuteFails
  <2>2. \A k \in keys : resp[k] = -1 /\ req[k] = {} /\ write[k] <= 0
    BY <1>0, <2>1 DEF IndInv, FreshBefore, PrewritesTell
  <2>3. Plain'
    BY <1>0, <2>1, <2>2 DEF Plain
  <2> QED BY <2>1, <2>2, <2>3 DEF NotByLocks
<1>3. ASSUME Erring, result # "error"
      PROVE  /\ UNCHANGED write /\ phase' \in {"cleanup", "done"}
             /\ NotByLocks /\ ~(write[Primary] > 0)
             /\ cancelled \/ phase # "prewrite" \/ (~async /\ ~onePC)
  <2>1. UNCHANGED write /\ phase' \in {"cleanup", "done"}
    BY <1>3 DEF Erring, PrewriteFail, TakesTooLong, FallbackSchemaFail, CommitPrimaryNotFound, Leave
  <2>2. CASE PrewriteFail
    <3>1. cancelled /\ phase = "prewrite"
      BY <1>0, <2>2 DEF PrewriteFail, IndInv, FailuresKnown
    <3>2. CASE result # "none"
      BY <1>0, <2>2, <3>1, <3>2 DEF PrewriteFail, Leave, IndInv, FailuresKnown, Before
    <3>3. CASE result = "none" /\ undet
      BY <2>2, <3>3 DEF PrewriteFail, Leave
    <3>4. CASE result = "none" /\ ~undet
      <4>1. NotByLocks
        BY <1>0, <3>1, <3>4 DEF IndInv, FailuresKnown
      <4> QED BY <2>1, <3>1, <4>1, <1>0, NotCommittedBefore
    <3> QED BY <3>2, <3>3, <3>4
  <2>3. CASE TakesTooLong \/ FallbackSchemaFail
    <3>1. Prewritten /\ ~async /\ ~onePC
      BY <2>3 DEF TakesTooLong, FallbackSchemaFail, CrashOnly
    <3>2. NotByLocks
      BY <1>0, <3>1, PrewrittenSync DEF NotByLocks
    <3> QED BY <2>1, <3>1, <3>2, <1>0, NotCommittedBefore DEF Prewritten
  <2>4. CASE CommitPrimaryNotFound
    <3>1. phase = "commit" /\ result = "none"
      BY <2>4 DEF CommitPrimaryNotFound
    <3>2. Fallback /\ ~(write[Primary] > 0)
      BY <1>0, <3>1 DEF IndInv, DecisionKnown
    <3> QED BY <2>1, <3>1, <3>2, <1>0 DEF IndInv, FallbackIsLarge, NotByLocks
  <2> QED BY <1>3, <2>2, <2>3, <2>4 DEF Erring
<1>4. CASE Erring /\ result # "error"
  BY <1>0, <1>3, <1>4, NothingCommitted, NotByLocksStable
<1> QED
  BY <1>1, <1>2, <1>4
  DEF Step, StepEffects, Execute, OnePCCommit, AsyncCommitted, FallbackCommit, Crash,
      PrewriteUndeterminedResult, CommitKey

(* The committer's decision stays true.                                    *)
LEMMA DecisionKnownStep == CrashOnly /\ Step => DecisionKnown'
<1> SUFFICES ASSUME CrashOnly, Step PROVE DecisionKnown'
  OBVIOUS
<1>1. keys' = keys
  BY DEF Step, Frame
<1> QED
  BY <1>1, CommitPhaseStep, SuccessStep, ErrorStep DEF DecisionKnown

(* What a resolver knows stays true, as long as it does nothing itself.    *)
LEMMA KnowsStable ==
    ASSUME IndInv, Frame, NEW d \in Task, Knows(d)
    PROVE  Knows(d)'
<1>1. keys' = keys /\ d.commitTs \in Nat
  BY TSAssumption DEF Frame, Task, TS
<1>2. Outcome(d.commitTs) => Outcome(d.commitTs)'
  BY <1>1, Stable DEF Outcome
<1>3. d.commitTs > 0 /\ Found(d) => Found(d)'
  BY <1>1 DEF Frame, Found
<1> QED BY <1>2, <1>3, Stable DEF Knows

(* The lock of a secondary is gone: the version found where it was agrees  *)
(* with all that the resolver has seen before.                             *)
LEMMA addKeysMissingAgrees ==
    ASSUME IndInv, NEW r \in Resolver, NEW k \in keys, res[r].pc = "check",
           ~lock[k].held, NEW ts \in Nat,
           ts = IF write[k] = -1 THEN 0 ELSE write[k]
    PROVE  addKeysMissing(res[r], k, ts) =
             [res[r] EXCEPT !.commitTs = ts, !.missing = TRUE, !.todo = @ \ {k}]
<1>0. /\ TypeOK /\ keys \subseteq Key /\ Primary \in keys /\ Knows(res[r])
      /\ res[r] \in Task
  BY TxnFacts DEF IndInv, ResolversKnow, TypeOK
<1>1. resp[k] \in Int /\ write[k] \in Int /\ res[r].commitTs \in Nat /\ \A j \in keys : resp[j] \in Int
  BY <1>0, TSAssumption DEF TypeOK, TS, Task
<1>2. write[k] = -1 => resp[k] = -1
  BY <1>0 DEF IndInv, PrewritesTell
<1>3. ts # 0 => ts > 0 /\ Committed(ts)
  BY <1>1 DEF IndInv, RecordsTell
<1>4. ASSUME ~res[r].missing, ts # 0 PROVE ~(ts < res[r].commitTs)
  <2>1. PICK j \in keys : resp[j] = res[r].commitTs
    BY <1>0, <1>4 DEF Knows, Found
  <2>2. resp[j] <= ts
    BY <1>3, <1>4, OneOutcome
  <2> QED BY <1>1, <2>1, <2>2
<1>5. ASSUME res[r].missing PROVE res[r].commitTs = ts
  <2>1. Outcome(res[r].commitTs)
    BY <1>0, <1>5 DEF Knows
  <2>2. CASE res[r].commitTs = 0
    BY <1>3, <2>1, <2>2, OneOutcome DEF Outcome
  <2>3. CASE res[r].commitTs # 0
    <3>1. res[r].commitTs > 0 /\ Committed(res[r].commitTs)
      BY <1>1, <2>1, <2>3 DEF Outcome
    <3>2. resp[k] # -1 /\ ~RolledBack
      BY <3>1, OneOutcome
    <3>3. ts # 0
      BY <1>1, <1>2, <3>2 DEF IndInv, RecordsTell
    <3> QED BY <1>3, <3>1, <3>3, OneOutcome
  <2> QED BY <2>2, <2>3
<1> QED BY <1>4, <1>5 DEF addKeysMissing

(* What a resolver learns from one secondary.                              *)
LEMMA CheckSecondaryKnows ==
    ASSUME Step, RecordsTell', NEW r \in Resolver, NEW k \in Secondaries, CheckSecondary(r, k)
    PROVE  Knows(res[r])'
<1>0. /\ IndInv /\ TypeOK /\ Frame /\ keys \subseteq Key /\ Primary \in keys /\ keys' = keys /\ k \in keys
      /\ res[r] \in Task /\ Knows(res[r])
  BY TxnFacts DEF Step, IndInv, Frame, Secondaries, TypeOK, ResolversKnow
<1>1. res[r].pc = "check" /\ k \in res[r].todo /\ ~res[r].err /\ resp' = resp /\ TypeOK'
  BY DEF CheckSecondary, Step
<1>2. lock[k].min \in Nat /\ resp[k] \in Int /\ write[k] \in Int /\ res[r].commitTs \in Nat
      /\ \A j \in keys : resp[j] \in Int
  BY <1>0, TSAssumption DEF TypeOK, TS, Task
<1>3. CASE ~lock[k].held
  <2>1. res'[r] = addKeysMissing(res[r], k, write'[k])
    BY <1>0, <1>3 DEF CheckSecondary, Set, TypeOK
  <2>2. write'[k] = IF write[k] = -1 THEN 0 ELSE write[k]
    BY <1>0, <1>3 DEF CheckSecondary, ProtectKey, TypeOK
  <2>3. write'[k] \in Nat /\ Outcome(write[k])'
    <3>1. write'[k] \in Nat
      BY <1>0, <1>2, <2>2, TSAssumption DEF TypeOK, TS
    <3> QED BY <1>0, <3>1 DEF RecordsTell, Outcome
  <2>4. PICK ts \in Nat : ts = write'[k]
    BY <2>3
  <2>5. res'[r] = [res[r] EXCEPT !.commitTs = ts, !.missing = TRUE, !.todo = @ \ {k}]
    BY <1>0, <1>1, <1>3, <2>1, <2>2, <2>4, addKeysMissingAgrees
  <2>6. res'[r].pc = "check" /\ res'[r].missing /\ ~res'[r].err /\ res'[r].commitTs = write'[k]
    BY <1>0, <1>1, <2>4, <2>5 DEF Task
  <2> QED BY <2>3, <2>6 DEF Knows
<1>4. CASE lock[k].held /\ lock[k].async
  <2>1. res'[r] = addKeysPresent(res[r], k, lock[k].min)
    BY <1>0, <1>4 DEF CheckSecondary, Set, TypeOK
  <2>2. lock[k].min = resp[k] /\ resp[k] > 0
    BY <1>0, <1>4 DEF IndInv, PrewritesTell
  <2>3. /\ res'[r].pc = "check" /\ ~res'[r].err /\ (res'[r].missing <=> res[r].missing)
        /\ res'[r].todo = res[r].todo \ {k}
        /\ res'[r].commitTs = IF res[r].missing THEN res[r].commitTs
                              ELSE LargestOf(res[r].commitTs, resp[k])
    BY <1>0, <1>1, <2>1, <2>2 DEF addKeysPresent, Task
  <2>4. CASE res[r].missing
    <3>1. Knows(res[r]) => Outcome(res[r].commitTs)
      BY <1>1, <2>4 DEF Knows
    <3>2. PICK c \in Nat : c = res[r].commitTs /\ Outcome(c)
      BY <1>0, <1>2, <3>1
    <3>3. Outcome(c)'
      BY <1>0, <3>2, Stable DEF Outcome
    <3>4. res'[r].commitTs = c
      BY <2>3, <2>4, <3>2
    <3> QED BY <2>3, <2>4, <3>3, <3>4 DEF Knows
  <2>5. CASE ~res[r].missing
    <3>0. res[r].commitTs > 0 /\ Found(res[r])
      BY <1>0, <1>1, <2>5 DEF Knows
    <3>1. PICK c \in Nat : c = LargestOf(res[r].commitTs, resp[k])
      BY <1>2, <2>2 DEF LargestOf
    <3>2. res[r].commitTs <= c /\ resp[k] <= c /\ (c = res[r].commitTs \/ c = resp[k])
      BY <1>2, <2>2, <3>1 DEF LargestOf
    <3>3. \A j \in keys \ (res[r].todo \ {k}) : resp[j] \in 1 .. c
      BY <1>2, <2>2, <3>0, <3>2 DEF Found
    <3>4. \E j \in keys : resp[j] = c
      BY <1>0, <3>0, <3>2 DEF Found
    <3>5. c > 0 /\ res'[r].commitTs = c
      BY <1>2, <2>2, <2>3, <2>5, <3>1, <3>2
    <3>6. Found(res[r])'
      BY <1>0, <1>1, <2>3, <3>3, <3>4, <3>5 DEF Found
    <3> QED BY <2>3, <2>5, <3>5, <3>6 DEF Knows
  <2> QED BY <2>4, <2>5
<1>5. CASE lock[k].held /\ ~lock[k].async
  <2>1. res'[r] = [Idle EXCEPT !.pc = "force"]
    BY <1>0, <1>5 DEF CheckSecondary, Set, TypeOK
  <2>2. resp[k] = 0
    BY <1>0, <1>5, TSAssumption DEF IndInv, PrewritesTell, TypeOK, TS
  <2>3. Sync'
    BY <1>0, <1>1, <2>2 DEF Sync
  <2> QED BY <2>1, <2>3 DEF Idle, Knows
<1> QED BY <1>3, <1>4, <1>5

(* A resolver decides from what it has seen of all keys, in any order.     *)
LEMMA ResolversKnowStep == Step /\ RecordsTell' => ResolversKnow'
<1> SUFFICES ASSUME Step, RecordsTell', NEW r \in Resolver
             PROVE  Knows(res[r])'
  BY DEF ResolversKnow
<1> USE DEF vars, serverVars, clientVars, flagVars, txnVars
<1>0. /\ IndInv /\ TypeOK /\ Frame /\ keys \subseteq Key /\ Primary \in keys /\ keys' = keys
      /\ res[r] \in Task /\ res[r].commitTs \in Nat /\ res \in [Resolver -> Task] /\ Knows(res[r])
  <2>1. /\ IndInv /\ TypeOK /\ Frame /\ keys' = keys /\ res \in [Resolver -> Task] /\ Knows(res[r])
    BY DEF Step, IndInv, Frame, TypeOK, ResolversKnow
  <2>2. res[r].commitTs \in Nat
    BY <2>1, TSAssumption DEF Task, TS
  <2> QED BY <2>1, <2>2, TxnFacts
<1>1. CASE res'[r] = res[r]
  <2>1. PICK d \in Task : d = res[r] /\ d = res'[r] /\ Knows(d)
    BY <1>0, <1>1
  <2>2. Knows(d)'
    BY <1>0, <2>1, KnowsStable
  <2> QED BY <2>1, <2>2
<1>2. CASE CheckAsyncPrimary(r)
  <2>1. res'[r] = [Idle EXCEPT !.pc = "check", !.commitTs = lock[Primary].min, !.todo = Secondaries]
        /\ resp' = resp
    BY <1>0, <1>2 DEF CheckAsyncPrimary, Set
  <2>2. lock[Primary].min = resp[Primary] /\ resp[Primary] > 0 /\ resp[Primary] \in Nat
    BY <1>0, <1>2, TSAssumption DEF CheckAsyncPrimary, IndInv, PrewritesTell, TypeOK, TS
  <2>3. /\ res'[r].pc = "check" /\ ~res'[r].err /\ ~res'[r].missing
        /\ res'[r].todo = Secondaries /\ res'[r].commitTs = resp[Primary]
    BY <2>1, <2>2 DEF Idle
  <2>4. Found(res[r])'
    BY <1>0, <2>1, <2>2, <2>3 DEF Found, Secondaries
  <2> QED BY <2>2, <2>3, <2>4 DEF Knows
<1>3. CASE CheckSyncPrimary(r)
  <2>1. res'[r] = Resolving(write'[Primary], keys) /\ write'[Primary] # -1
    BY <1>0, <1>3 DEF CheckSyncPrimary, Set, TypeOK
  <2>2. Outcome(write[Primary])'
    <3>1. write'[Primary] \in Nat
      BY <1>0, <2>1, TSAssumption DEF Step, TypeOK, TS
    <3> QED BY <1>0, <3>1 DEF RecordsTell, Outcome
  <2> QED BY <2>1, <2>2 DEF Knows, Resolving
<1>4. CASE DetermineStatus(r)
  <2>1. /\ res[r].pc = "check" /\ res[r].todo = {}
        /\ res'[r] = Resolving(res[r].commitTs, res[r].keys \cup {Primary})
    BY <1>0, <1>4 DEF DetermineStatus, Set
  <2>2. Outcome(res[r].commitTs)
    BY <1>0, <2>1 DEF Knows, Found, Outcome, Committed, CommittedByLocks
  <2>3. PICK c \in Nat : c = res[r].commitTs /\ Outcome(c)
    BY <1>0, <2>2
  <2>4. Outcome(c)'
    BY <1>0, <2>3, Stable DEF Outcome
  <2> QED BY <2>1, <2>3, <2>4 DEF Knows, Resolving
<1>5. CASE ResolverReset(r)
  BY <1>0, <1>5 DEF ResolverReset, Set, Idle, Knows
<1>6. ASSUME NEW k \in Secondaries, CheckSecondary(r, k) PROVE Knows(res[r])'
  BY <1>6, CheckSecondaryKnows
<1>7. ASSUME NEW k \in keys, ResolveKey(r, k) PROVE Knows(res[r])'
  <2>1. /\ res[r].pc = "resolve"
        /\ res'[r].pc = "resolve" /\ ~res'[r].err /\ res'[r].commitTs = res[r].commitTs
    BY <1>0, <1>7 DEF ResolveKey, Set, Task, Knows
  <2>2. PICK c \in Nat : c = res[r].commitTs /\ Outcome(c)
    BY <1>0, <2>1 DEF Knows
  <2>3. Outcome(c)'
    BY <1>0, <2>2, Stable DEF Outcome
  <2> QED BY <2>1, <2>2, <2>3 DEF Knows
<1>8. CASE res' # res
  <2>1. PICK s \in Resolver :
          \/ CheckAsyncPrimary(s) \/ CheckSyncPrimary(s) \/ DetermineStatus(s) \/ ResolverReset(s)
          \/ \E k \in Secondaries : CheckSecondary(s, k)
          \/ \E k \in keys : ResolveKey(s, k)
    BY <1>8 DEF Step, StepEffects
  <2>2. CASE s # r
    <3>1. res'[r] = res[r]
      BY <1>0, <2>1, <2>2
      DEF CheckAsyncPrimary, CheckSyncPrimary, DetermineStatus, ResolverReset, CheckSecondary,
          ResolveKey, Set
    <3> QED BY <3>1, <1>1
  <2> QED BY <2>1, <2>2, <1>2, <1>3, <1>4, <1>5, <1>6, <1>7
<1> QED BY <1>1, <1>8

-----------------------------------------------------------------------------
(* Every step of every actor keeps the inductive invariant.                *)
LEMMA StepInv == CrashOnly /\ IndInv /\ [Next]_vars => IndInv'
<1>1. ASSUME CrashOnly, IndInv, Next PROVE IndInv'
  <2>1. Step
    BY <1>1, StepFacts
  <2>2. TypeOK' /\ RecordsTell'
    BY <2>1, RecordsTellStep DEF Step
  <2> QED
    BY <1>1, <2>1, <2>2, ClocksStep, RequestsAboveStep, PrewritesTellStep, ReadsBelowStep,
       FreshBeforeStep, ProtocolKnownStep, MgrIsLargestStep, FallbackIsLargeStep,
       FailuresKnownStep, DecisionKnownStep, ResolversKnowStep
    DEF IndInv
<1>2. ASSUME IndInv, UNCHANGED vars PROVE IndInv'
  BY <1>2
  DEF vars, serverVars, clientVars, flagVars, txnVars, IndInv, TypeOK, RecordsTell, Clocks, NextTS,
      RequestsAbove, PrewritesTell, ReadsBelow, FreshBefore, ProtocolKnown, MgrIsLargest,
      FallbackIsLarge, FailuresKnown, DecisionKnown, ResolversKnow, Knows, Found, Outcome,
      RolledBack, Committed, CommittedByLocks, CommittedByPrimary, Fallback, NotByLocks, Dead,
      Barred, Sync, Plain, Task, Secondaries
<1> QED BY <1>1, <1>2

(* The inductive invariant holds in every reachable state of async commit, *)
(* 1PC, the fallback to two-phase commit and the recovery of locks.        *)
THEOREM Invariance == CrashOnly => (Spec => []IndInv)
<1> SUFFICES ASSUME CrashOnly PROVE Spec => []IndInv
  OBVIOUS
<1>1. IndInv /\ [Next]_vars => IndInv'
  BY StepInv
<1> QED BY <1>1, InitInv, PTL DEF Spec

(* The client and every resolver come to one decision, and to one version  *)
(* of it, whatever prewrites, checks and crashes interleave (2pc.go,       *)
(* checkAllSecondaries and addKeys of lock_resolver.go).                   *)
THEOREM Agreement == CrashOnly => (Spec => []OneDecision)
<1> SUFFICES ASSUME CrashOnly PROVE Spec => []OneDecision
  OBVIOUS
<1>1. IndInv => OneDecision
  <2> SUFFICES ASSUME IndInv PROVE OneDecision
    OBVIOUS
  <2>1. AtomicAtOneVersion
    <3> SUFFICES ASSUME NEW j \in keys, NEW k \in keys, write[j] > 0
                 PROVE  write[k] # 0 /\ (write[k] > 0 => write[k] = write[j])
      BY DEF AtomicAtOneVersion
    <3>1. Committed(write[j]) /\ (write[k] > 0 => Committed(write[k])) /\ (write[k] = 0 => RolledBack)
      BY DEF IndInv, RecordsTell
    <3> QED BY <3>1, OneOutcome
  <2>2. NoMismatch
    BY DEF IndInv, ResolversKnow, Knows, NoMismatch
  <2> QED BY <2>1, <2>2 DEF OneDecision, IndInv
<1> QED BY <1>1, Invariance, PTL

(* What Commit() reports is true for good: after success every key is      *)
(* committed, or is locked and can only be committed, at the version       *)
(* reported; after an error no key ever is.                                *)
THEOREM Honesty == CrashOnly => (Spec => []ResultHonest)
<1> SUFFICES ASSUME CrashOnly PROVE Spec => []ResultHonest
  OBVIOUS
<1>1. IndInv => ResultHonest
  <2> SUFFICES ASSUME IndInv PROVE ResultHonest
    OBVIOUS
  <2>0. TypeOK /\ keys \subseteq Key
    BY TxnFacts DEF IndInv
  <2>1. ErrorMeansNotCommitted
    BY DEF IndInv, DecisionKnown, ErrorMeansNotCommitted
  <2>2. SuccessIsFinal
    <3> SUFFICES ASSUME result = "ok", NEW k \in keys
                 PROVE  write[k] = commitTS \/ (lock[k].held /\ lock[k].min <= commitTS)
      BY DEF SuccessIsFinal
    <3>1. Committed(commitTS)
      BY DEF IndInv, DecisionKnown
    <3>2. commitTS > 0
      BY <2>0, <3>1, TxnFacts, TSAssumption DEF Committed, CommittedByLocks, CommittedByPrimary, Fallback, TypeOK, TS
    <3>3. resp[k] # -1 /\ resp[k] <= commitTS /\ ~RolledBack
      BY <3>1, <3>2, OneOutcome
    <3>4. CASE lock[k].held
      <4>1. CASE lock[k].async
        BY <3>3, <3>4, <4>1 DEF IndInv, PrewritesTell
      <4>2. CASE ~lock[k].async
        <5>1. Sync
          BY <2>0, <3>3, <3>4, <4>2, TSAssumption DEF IndInv, PrewritesTell, Sync, TypeOK, TS
        <5>2. Fallback
          BY <3>1, <5>1, OneOutcome DEF Committed, CommittedByPrimary, NotByLocks
        <5> QED BY <3>4, <5>2 DEF IndInv, FallbackIsLarge
      <4> QED BY <4>1, <4>2
    <3>5. CASE ~lock[k].held
      <4>1. write[k] > 0
        BY <2>0, <3>3, <3>5, TSAssumption DEF IndInv, PrewritesTell, RecordsTell, TypeOK, TS
      <4>2. Committed(write[k])
        BY <4>1 DEF IndInv, RecordsTell
      <4> QED BY <3>1, <3>2, <4>1, <4>2, OneOutcome
    <3> QED BY <3>4, <3>5
  <2> QED BY <2>1, <2>2 DEF ResultHonest
<1> QED BY <1>1, Invariance, PTL

(* The version calculated from the locks is above every read that missed   *)
(* the write, above what was issued before Commit() was called and what    *)
(* the application waits for, visible to the next timestamp, and within    *)
(* the schema lease (calculateMaxCommitTS, minCommitTSMgr).                *)
THEOREM CommitTSCorrect == CrashOnly => (Spec => []CommitTSRight)
<1> SUFFICES ASSUME CrashOnly PROVE Spec => []CommitTSRight
  OBVIOUS
<1>1. IndInv => CommitTSRight
  <2> SUFFICES ASSUME IndInv PROVE CommitTSRight
    OBVIOUS
  <2>0. TypeOK /\ keys \subseteq Key
    BY TxnFacts DEF IndInv
  <2>1. ReadsStayRight
    BY DEF IndInv, ReadsBelow, ReadsStayRight
  <2>2. ASSUME NEW v, v > 0, Committed(v)
        PROVE  begun < v /\ opt.waitUntil < v /\ (v > MaxCommitTS => ~async)
    <3>1. CASE CommittedByLocks(v)
      <4>1. PICK k \in keys : resp[k] = v
        BY <3>1 DEF CommittedByLocks
      <4>2. begun < v /\ opt.waitUntil < v /\ v <= MaxCommitTS
        BY <2>2, <4>1 DEF IndInv, PrewritesTell
      <4>3. v \in Nat
        BY <2>2, OneOutcome
      <4> QED BY <4>2, <4>3, TSAssumption
    <3>2. CASE CommittedByPrimary(v)
      BY <3>2 DEF CommittedByPrimary, Fallback, IndInv, FallbackIsLarge
    <3> QED BY <2>2, <3>1, <3>2 DEF Committed
  <2>3. WithinSchemaLease
    <3> SUFFICES ASSUME NEW k \in keys, write[k] > MaxCommitTS PROVE ~async
      BY DEF WithinSchemaLease
    <3>1. write[k] > 0
      BY <2>0, TSAssumption DEF TypeOK, TS
    <3> QED BY <2>2, <3>1 DEF IndInv, RecordsTell
  <2>4. Linearizable
    BY <2>2 DEF IndInv, RecordsTell, DecisionKnown, NextTS, Linearizable
  <2> QED BY <2>1, <2>3, <2>4 DEF CommitTSRight
<1> QED BY <1>1, Invariance, PTL

=============================================================================
