----------------------------- MODULE Percolator ------------------------------
(***************************************************************************)
(* Optimistic two-phase commit (txnkv/transaction: 2pc.go, prewrite.go,    *)
(* commit.go, cleanup.go), the lock resolver (txnkv/txnlock) that other    *)
(* transactions, readers and GC run on the locks they meet, and snapshot   *)
(* readers (txnkv/txnsnapshot), over the store of MVCCStore.               *)
(*                                                                         *)
(* Every key is a batch of its own.  A request may be executed late and    *)
(* more than once; a response may never arrive.  A client that crashes is  *)
(* one that takes no further step, so nothing below assumes it goes on.    *)
(***************************************************************************)
EXTENDS MVCCStore

CONSTANTS
    Reader,     \* snapshot readers
    GCRange,    \* the keys of the range GC resolves locks in
    MaxTS,      \* bound: the timestamp oracle issues 1 .. MaxTS
    Moves       \* how applications move an open snapshot: {}, "forward", "back"

ASSUME MaxTSAssumption == MaxTS \in Nat
ASSUME MovesAssumption == Moves \subseteq {"forward", "back"}

VARIABLES
    tso,        \* the last timestamp PD issued
    phase,      \* phase[t]: where the committer of t is
    result,     \* result[t]: what Commit() returned to the application
    acked,      \* acked[t]: keys whose prewrite was acknowledged
    commitTS,   \* commitTS[t]: the committer's current commit version
    undet,      \* undet[t]: undeterminedErr # nil
    commitReq,  \* commitReq[t]: versions of primary commits the server may still run
    seen,       \* transactions whose locks a writer or GC was shown
    decided,    \* decided[t]: statuses resolvers learned, 0 = rolled back
    rts,        \* rts[r]: the snapshot version of r, 0 before it starts
    wait,       \* wait[r]: the transaction whose lock r is resolving
    ignore,     \* ignore[r]: resolvedLocks of r's snapshot
    access,     \* access[r]: committedLocks of r's snapshot
    reads       \* reads[r]: {<<version, key, value>>}, the last answer r returned

clientVars == <<phase, result, acked, commitTS, undet, commitReq>>
resolverVars == <<seen, decided>>
readerVars == <<rts, wait, ignore, access, reads>>
vars == <<tso, startTS, storeVars, clientVars, resolverVars, readerVars>>

Phase == {"idle", "prewrite", "commit", "committed", "stopped", "cleanup", "cleaned"}
Result == {"none", "ok", "error", "undetermined"}

TypeOK ==
    /\ StoreTypeOK
    /\ startTS \in [Txn -> Nat]
    /\ tso \in Nat
    /\ phase \in [Txn -> Phase]
    /\ result \in [Txn -> Result]
    /\ acked \in [Txn -> SUBSET Key]
    /\ commitTS \in [Txn -> Nat]
    /\ undet \in [Txn -> BOOLEAN]
    /\ commitReq \in [Txn -> SUBSET Nat]
    /\ seen \in SUBSET Txn
    /\ decided \in [Txn -> SUBSET Nat]
    /\ rts \in [Reader -> Nat]
    /\ wait \in [Reader -> Txn \cup {NoTxn}]
    /\ ignore \in [Reader -> SUBSET Txn]
    /\ access \in [Reader -> SUBSET Txn]
    /\ reads \in [Reader -> SUBSET (Nat \X Key \X (Txn \cup {NoTxn}))]

Init ==
    /\ StoreInit
    /\ startTS = [t \in Txn |-> 0]
    /\ tso = 0
    /\ phase = [t \in Txn |-> "idle"]
    /\ result = [t \in Txn |-> "none"]
    /\ acked = [t \in Txn |-> {}]
    /\ commitTS = [t \in Txn |-> 0]
    /\ undet = [t \in Txn |-> FALSE]
    /\ commitReq = [t \in Txn |-> {}]
    /\ seen = {}
    /\ decided = [t \in Txn |-> {}]
    /\ rts = [r \in Reader |-> 0]
    /\ wait = [r \in Reader |-> NoTxn]
    /\ ignore = [r \in Reader |-> {}]
    /\ access = [r \in Reader |-> {}]
    /\ reads = [r \in Reader |-> {}]

-----------------------------------------------------------------------------
(* The committer. *)

(* Begin: take a start timestamp; execute() sends every prewrite batch. *)
Begin(t) ==
    /\ phase[t] = "idle"
    /\ tso < MaxTS
    /\ tso' = tso + 1
    /\ startTS' = [startTS EXCEPT ![t] = tso']
    /\ phase' = [phase EXCEPT ![t] = "prewrite"]
    /\ UNCHANGED <<storeVars, result, acked, commitTS, undet, commitReq,
                   resolverVars, readerVars>>

(* A prewrite request runs at the server; it may run late or again, so the *)
(* only condition is that it was sent.                                     *)
Prewrite(t, k) ==
    /\ phase[t] # "idle"
    /\ k \in Keys[t]
    /\ prewriteMutation(t, k)
    /\ UNCHANGED <<tso, startTS, clientVars, resolverVars, readerVars>>

(* handleSingleBatchSucceed: the server answers that k carries t's lock. *)
PrewriteSucceed(t, k) ==
    /\ phase[t] = "prewrite"
    /\ k \in Keys[t] \ acked[t]
    /\ lock[k] = t
    /\ acked' = [acked EXCEPT ![t] = @ \cup {k}]
    /\ UNCHANGED <<tso, startTS, storeVars, phase, result, commitTS, undet, commitReq,
                   resolverVars, readerVars>>

(* extractKeyErrs meets a lock that an older transaction holds: it is      *)
(* handed to the resolver and the batch is sent again.                     *)
PrewriteLocked(t, k) ==
    /\ phase[t] = "prewrite"
    /\ k \in Keys[t] \ acked[t]
    /\ lock[k] \notin {NoTxn, t}
    /\ startTS[lock[k]] <= startTS[t]
    /\ lock[k] \notin seen
    /\ seen' = seen \cup {lock[k]}
    /\ UNCHANGED <<tso, startTS, storeVars, clientVars, decided, readerVars>>

(* Commit() returns an error and execute()'s deferred function spawns the  *)
(* cleanup, whose first batch is the primary.                              *)
Fail(t, res) ==
    /\ phase' = [phase EXCEPT ![t] = "cleanup"]
    /\ result' = [result EXCEPT ![t] = res]

(* Prewriting fails: a conflict, the transaction's own rollback record, a  *)
(* lock of a younger transaction, exhausted backoff, a cancelled context,  *)
(* a failed schema check or an expired transaction.                        *)
PrewriteFail(t) ==
    /\ phase[t] = "prewrite"
    /\ Fail(t, "error")
    /\ UNCHANGED <<tso, startTS, storeVars, acked, commitTS, undet, commitReq,
                   resolverVars, readerVars>>

(* Everything is prewritten: take a commit version, send the primary. *)
SendCommitPrimary(t) ==
    /\ tso < MaxTS
    /\ tso' = tso + 1
    /\ commitTS' = [commitTS EXCEPT ![t] = tso']
    /\ commitReq' = [commitReq EXCEPT ![t] = @ \cup {tso'}]
    /\ phase' = [phase EXCEPT ![t] = "commit"]
    /\ undet' = [undet EXCEPT ![t] = FALSE]
    /\ UNCHANGED <<startTS, storeVars, result, acked, resolverVars, readerVars>>

GetCommitTS(t) ==
    /\ phase[t] = "prewrite"
    /\ acked[t] = Keys[t]
    /\ SendCommitPrimary(t)

(* A commit of the primary runs at the server, on time or late. *)
CommitPrimary(t, c) ==
    /\ c \in commitReq[t]
    /\ commitKey(t, Primary[t], c)
    /\ UNCHANGED <<tso, startTS, clientVars, resolverVars, readerVars>>

(* handleSingleBatch of actionCommit: the answer for the primary says      *)
(* committed; mu.committed is set and Commit() returns nil.                *)
CommitPrimarySucceed(t) ==
    /\ phase[t] = "commit"
    /\ lock[Primary[t]] # t
    /\ CommittedOn(t, Primary[t])
    /\ phase' = [phase EXCEPT ![t] = "committed"]
    /\ result' = [result EXCEPT ![t] = "ok"]
    /\ undet' = [undet EXCEPT ![t] = FALSE]
    /\ UNCHANGED <<tso, startTS, storeVars, acked, commitTS, commitReq,
                   resolverVars, readerVars>>

(* The answer says CommitTsExpired: a newer commit version and again. *)
CommitPrimaryExpired(t) ==
    /\ phase[t] = "commit"
    /\ CommitTSExpired(t, Primary[t], commitTS[t])
    /\ SendCommitPrimary(t)

(* CommitTsExpired again, but the new commit version cannot be had. *)
CommitPrimaryExpiredFail(t) ==
    /\ phase[t] = "commit"
    /\ CommitTSExpired(t, Primary[t], commitTS[t])
    /\ Fail(t, "error")
    /\ undet' = [undet EXCEPT ![t] = FALSE]
    /\ UNCHANGED <<tso, startTS, storeVars, acked, commitTS, commitReq,
                   resolverVars, readerVars>>

(* The answer says the transaction is gone: somebody rolled it back. *)
CommitPrimaryNotFound(t) ==
    /\ phase[t] = "commit"
    /\ TxnNotFound(t, Primary[t])
    /\ Fail(t, "error")
    /\ undet' = [undet EXCEPT ![t] = FALSE]
    /\ UNCHANGED <<tso, startTS, storeVars, acked, commitTS, commitReq,
                   resolverVars, readerVars>>

(* No answer: an RPC error marks the outcome undetermined; the request is  *)
(* sent again with the same version.                                       *)
CommitPrimaryRPCError(t) ==
    /\ phase[t] = "commit"
    /\ ~undet[t]
    /\ undet' = [undet EXCEPT ![t] = TRUE]
    /\ UNCHANGED <<tso, startTS, storeVars, phase, result, acked, commitTS, commitReq,
                   resolverVars, readerVars>>

(* Faulty: an undetermined outcome is reported as a failure. *)
CommitUndetermined_AsError(t) ==
    /\ phase[t] = "commit"
    /\ undet[t]
    /\ Fail(t, "error")
    /\ UNCHANGED <<tso, startTS, storeVars, acked, commitTS, undet, commitReq,
                   resolverVars, readerVars>>

(* The retries are exhausted while the outcome is undetermined: Commit()   *)
(* returns ErrResultUndetermined and nothing is cleaned up.                *)
CommitUndetermined(t) ==
    /\ phase[t] = "commit"
    /\ undet[t]
    /\ phase' = [phase EXCEPT ![t] = "stopped"]
    /\ result' = [result EXCEPT ![t] = "undetermined"]
    /\ UNCHANGED <<tso, startTS, storeVars, acked, commitTS, undet, commitReq,
                   resolverVars, readerVars>>

(* The retries are exhausted on region errors alone: no request of this    *)
(* version has run or will, and the transaction is cleaned up.             *)
CommitRegionErrorFail(t) ==
    /\ phase[t] = "commit"
    /\ ~undet[t]
    /\ ~\E w \in CommitsOf(t, Primary[t]) : w.commit = commitTS[t]
    /\ Fail(t, "error")
    /\ commitReq' = [commitReq EXCEPT ![t] = @ \ {commitTS[t]}]
    /\ UNCHANGED <<tso, startTS, storeVars, acked, commitTS, undet,
                   resolverVars, readerVars>>

(* The region error UndeterminedResult: ErrResultUndetermined is returned  *)
(* without setUndeterminedErr, so the deferred cleanup does run although   *)
(* the commit may have been applied or may still be.                       *)
CommitUndeterminedResult(t) ==
    /\ phase[t] = "commit"
    /\ ~undet[t]
    /\ Fail(t, "undetermined")
    /\ UNCHANGED <<tso, startTS, storeVars, acked, commitTS, undet, commitReq,
                   resolverVars, readerVars>>

(* A commit of a secondary, sent once the primary is known committed. *)
CommitSecondary(t, k) ==
    /\ phase[t] = "committed"
    /\ k \in Keys[t] \ {Primary[t]}
    /\ commitKey(t, k, commitTS[t])
    /\ UNCHANGED <<tso, startTS, clientVars, resolverVars, readerVars>>

(* Faulty: the secondaries are rolled back without waiting for the primary. *)
BatchRollback_AllAtOnce(t, k) ==
    /\ k \in Keys[t]
    /\ phase[t] \in {"cleanup", "cleaned"}
    /\ rollbackKey(t, k)
    /\ UNCHANGED <<tso, startTS, clientVars, resolverVars, readerVars>>

(* BatchRollback of a key: the primary once cleanup started, a secondary   *)
(* once the primary's rollback was acknowledged.                           *)
BatchRollback(t, k) ==
    /\ k \in Keys[t]
    /\ phase[t] \in (IF k = Primary[t] THEN {"cleanup", "cleaned"} ELSE {"cleaned"})
    /\ rollbackKey(t, k)
    /\ UNCHANGED <<tso, startTS, clientVars, resolverVars, readerVars>>

(* cleanup's primary batch succeeded; the secondaries follow. *)
CleanupPrimarySucceed(t) ==
    /\ phase[t] = "cleanup"
    /\ lock[Primary[t]] # t
    /\ RolledBackOn(t, Primary[t])
    /\ phase' = [phase EXCEPT ![t] = "cleaned"]
    /\ UNCHANGED <<tso, startTS, storeVars, result, acked, commitTS, undet, commitReq,
                   resolverVars, readerVars>>

(* Faulty: ErrAlreadyCommitted does not stop the cleanup. *)
CleanupPrimaryCommitted_GoesOn(t) ==
    /\ phase[t] = "cleanup"
    /\ lock[Primary[t]] # t
    /\ CommittedOn(t, Primary[t])
    /\ phase' = [phase EXCEPT ![t] = "cleaned"]
    /\ UNCHANGED <<tso, startTS, storeVars, result, acked, commitTS, undet, commitReq,
                   resolverVars, readerVars>>

(* cleanup's primary batch met ErrAlreadyCommitted: it stops there. *)
CleanupPrimaryCommitted(t) ==
    /\ phase[t] = "cleanup"
    /\ lock[Primary[t]] # t
    /\ CommittedOn(t, Primary[t])
    /\ phase' = [phase EXCEPT ![t] = "stopped"]
    /\ UNCHANGED <<tso, startTS, storeVars, result, acked, commitTS, undet, commitReq,
                   resolverVars, readerVars>>

-----------------------------------------------------------------------------
(* The lock resolver. *)

(* GC: ScanLocksInOneRegion is shown the lock on k. *)
ScanLock(k) ==
    /\ k \in GCRange
    /\ lock[k] # NoTxn
    /\ lock[k] \notin seen
    /\ seen' = seen \cup {lock[k]}
    /\ UNCHANGED <<tso, startTS, storeVars, clientVars, decided, readerVars>>

(* saveResolved: remember a determined status. *)
saveResolved(t, s) == decided' = [decided EXCEPT ![t] = @ \cup {s}]

(* The outcomes of CheckTxnStatus that determine t. *)
StatusDetermined(t) ==
    \/ StatusExpired(t) /\ saveResolved(t, 0)
    \/ StatusRolledBack(t) /\ saveResolved(t, 0)
    \/ StatusNotExistRollback(t) /\ saveResolved(t, 0)
    \/ \E c \in 1 .. tso : StatusCommitted(t, c) /\ saveResolved(t, c)

(* getTxnStatus for a writer or for GC (BatchResolveLocks passes the       *)
(* largest current timestamp, so the lock always counts as expired).       *)
CheckTxnStatus(t) ==
    /\ t \in seen
    /\ StatusDetermined(t)
    /\ UNCHANGED <<tso, startTS, clientVars, seen, readerVars>>

(* A writer u meets a live lock of t: minCommitTS is pushed past u's start *)
(* and u backs off.  currentTS is a possibly old timestamp.                *)
CheckTxnStatusPush(t, u, currentTS) ==
    /\ t \in seen
    /\ phase[u] = "prewrite"
    /\ u # t
    /\ StatusPushed(t, startTS[u], currentTS)
    /\ UNCHANGED <<tso, startTS, clientVars, resolverVars, readerVars>>

(* resolveLock, batchLiteResolveLocks, BatchResolveLocks: settle a lock    *)
(* with a status that was determined earlier.                              *)
ResolveLock(t, k) ==
    /\ \E s \in decided[t] : resolveLockOn(t, k, s)
    /\ UNCHANGED <<tso, startTS, clientVars, resolverVars, readerVars>>

-----------------------------------------------------------------------------
(* Snapshot readers. *)

(* A snapshot is opened at a timestamp PD has issued, fresh or stale. *)
StartRead(r) ==
    /\ rts[r] = 0
    /\ \E ts \in 1 .. tso : rts' = [rts EXCEPT ![r] = ts]
    /\ UNCHANGED <<tso, startTS, storeVars, clientVars, resolverVars,
                   wait, ignore, access, reads>>

(* SetSnapshotTS: the snapshot moves to another version and forgets the    *)
(* locks it ignored, but not those it may read through.                    *)
SetSnapshotTS(r, ts) ==
    /\ rts[r] # 0
    /\ wait[r] = NoTxn
    /\ \/ ts > rts[r] /\ "forward" \in Moves
       \/ ts < rts[r] /\ "back" \in Moves
    /\ rts' = [rts EXCEPT ![r] = ts]
    /\ ignore' = [ignore EXCEPT ![r] = {}]
    /\ UNCHANGED <<tso, startTS, storeVars, clientVars, resolverVars,
                   wait, access, reads>>

(* A get that no lock blocks: the value at the snapshot version, or the    *)
(* value in a lock whose owner is known to have committed in the snapshot. *)
Read(r, k) ==
    /\ rts[r] # 0
    /\ wait[r] = NoTxn
    /\ LET viaLock == LockBlocks(k, rts[r], ignore[r])
           v == IF viaLock THEN lock[k] ELSE ValueAt(k, rts[r])
       IN  /\ viaLock => lock[k] \in access[r]
           /\ reads' = [reads EXCEPT ![r] = {<<rts[r], k, v>>}]
    /\ UNCHANGED <<tso, startTS, storeVars, clientVars, resolverVars,
                   rts, wait, ignore, access>>

(* A get that meets a lock. *)
ReadLocked(r, k) ==
    /\ rts[r] # 0
    /\ wait[r] = NoTxn
    /\ LockBlocks(k, rts[r], ignore[r] \cup access[r])
    /\ wait' = [wait EXCEPT ![r] = lock[k]]
    /\ UNCHANGED <<tso, startTS, storeVars, clientVars, resolverVars,
                   rts, ignore, access, reads>>

(* resolveLocks with ForRead sorts a determined status of t into the locks *)
(* the next attempt ignores and those it reads through.                    *)
Classify(r, t, s) ==
    /\ wait' = [wait EXCEPT ![r] = NoTxn]
    /\ IF s = 0 \/ s > rts[r]
       THEN ignore' = [ignore EXCEPT ![r] = @ \cup {t}] /\ UNCHANGED access
       ELSE access' = [access EXCEPT ![r] = @ \cup {t}] /\ UNCHANGED ignore

(* ... after CheckTxnStatus determined t, *)
ReaderCheckDetermined(r, t) ==
    /\ wait[r] = t
    /\ StatusDetermined(t)
    /\ \E s \in decided'[t] : Classify(r, t, s)
    /\ UNCHANGED <<tso, startTS, clientVars, seen, rts, reads>>

(* ... from the cache of resolved transactions, *)
ReaderCheckCached(r, t) ==
    /\ wait[r] = t
    /\ \E s \in decided[t] : Classify(r, t, s)
    /\ UNCHANGED <<tso, startTS, storeVars, clientVars, resolverVars, rts, reads>>

(* ... or after pushing the minCommitTS of a live t past the snapshot. *)
ReaderCheckPush(r, t, currentTS) ==
    /\ wait[r] = t
    /\ StatusPushed(t, rts[r], currentTS)
    /\ wait' = [wait EXCEPT ![r] = NoTxn]
    /\ ignore' = [ignore EXCEPT ![r] = @ \cup {t}]
    /\ UNCHANGED <<tso, startTS, clientVars, resolverVars, rts, access, reads>>

-----------------------------------------------------------------------------
ClientNext(t) ==
    \/ Begin(t) \/ PrewriteFail(t) \/ GetCommitTS(t)
    \/ \E k \in Key : Prewrite(t, k) \/ PrewriteSucceed(t, k) \/ PrewriteLocked(t, k)
    \/ \E c \in 1 .. tso : CommitPrimary(t, c)
    \/ CommitPrimarySucceed(t) \/ CommitPrimaryExpired(t) \/ CommitPrimaryExpiredFail(t)
    \/ CommitPrimaryNotFound(t) \/ CommitPrimaryRPCError(t) \/ CommitUndetermined(t)
    \/ CommitRegionErrorFail(t) \/ CommitUndeterminedResult(t)
    \/ \E k \in Key : CommitSecondary(t, k) \/ BatchRollback(t, k)
    \/ CleanupPrimarySucceed(t) \/ CleanupPrimaryCommitted(t)

ResolverNext(t) ==
    \/ CheckTxnStatus(t)
    \/ \E u \in Txn, cur \in 0 .. tso : CheckTxnStatusPush(t, u, cur)
    \/ \E k \in Key : ResolveLock(t, k)

ReaderNext(r) ==
    \/ StartRead(r)
    \/ \E ts \in 1 .. tso : SetSnapshotTS(r, ts)
    \/ \E k \in Key : Read(r, k) \/ ReadLocked(r, k)
    \/ \E t \in Txn : ReaderCheckDetermined(r, t) \/ ReaderCheckCached(r, t)
    \/ \E t \in Txn, cur \in 0 .. tso : ReaderCheckPush(r, t, cur)

Next ==
    \/ \E t \in Txn : ClientNext(t) \/ ResolverNext(t)
    \/ \E k \in Key : ScanLock(k)
    \/ \E r \in Reader : ReaderNext(r)

Spec == Init /\ [][Next]_vars

-----------------------------------------------------------------------------
(* Properties. *)

(* A transaction is all or nothing: whatever the client, the resolvers and *)
(* late requests do, no key of it is committed while another one is rolled *)
(* back, and all keys commit at one version.                               *)
Atomic ==
    \A t \in Txn : \A j, k \in Keys[t] :
        \A v \in CommitsOf(t, j), w \in InfoOf(t, k) :
            w.type # "Rollback" /\ w.commit = v.commit

(* Once the primary is committed no other mutation can be lost: each is    *)
(* still locked or is committed ("No secondary key could be rolled back    *)
(* after it's primary key is committed", commit.go).                       *)
NoMutationLost ==
    \A t \in Txn : CommittedOn(t, Primary[t]) =>
        \A k \in Keys[t] : lock[k] = t \/ CommittedOn(t, k)

(* Commit() tells the truth: nil means that the primary is committed at    *)
(* the commit version the client reports; an error other than              *)
(* ErrResultUndetermined means that no key is or ever will be committed.   *)
ResultHonest ==
    \A t \in Txn :
        /\ result[t] = "ok" =>
             \E w \in CommitsOf(t, Primary[t]) : w.commit = commitTS[t]
        /\ result[t] = "error" => \A k \in Keys[t] : ~CommittedOn(t, k)

(* saveResolved never panics: the statuses that different resolvers learn  *)
(* of one transaction, at any time, are the same.                          *)
StatusAgreement ==
    \A t \in Txn : \A s1, s2 \in decided[t] : s1 = s2

(* Two transactions that committed the same key do not overlap: one        *)
(* started after the other had committed (first committer wins).           *)
NoLostUpdate ==
    \A k \in Key : \A v, w \in write[k] :
        (v.txn # w.txn /\ v.type # "Rollback" /\ w.type # "Rollback") =>
            \/ v.commit < startTS[w.txn]
            \/ w.commit < startTS[v.txn]

(* The transactions whose value for k belongs to the snapshot at ts, and   *)
(* the value that snapshot holds, by the decision on their primaries.      *)
InSnapshot(k, ts) ==
    {w \in UNION {CommitsOf(t, Primary[t]) : t \in Txn} :
        k \in Keys[w.txn] \ LockOnly[w.txn] /\ w.commit <= ts}
SnapshotValue(k, ts) ==
    IF InSnapshot(k, ts) = {} THEN NoTxn
    ELSE (CHOOSE w \in InSnapshot(k, ts) :
            \A x \in InSnapshot(k, ts) : x.commit <= w.commit).txn

(* Snapshot isolation of reads: everything a reader ever returned is the   *)
(* value of its snapshot, and stays it ("calling Get or BatchGet multiple  *)
(* times using the same start ts, the result should not change",           *)
(* snapshot.go): no commit lands in the past of a snapshot that was read,  *)
(* though reads skip pushed and resolved locks.                            *)
ReadsSnapshot ==
    \A r \in Reader : \A p \in reads[r] : p[3] = SnapshotValue(p[2], p[1])

(* Write records are never replaced: no two transactions put a record at   *)
(* the same version of a key, and no commit turns into a rollback.         *)
RecordsPermanent ==
    [][\A k \in Key : write[k] \subseteq write'[k]]_vars

(* The refinement mapping: the records on the primary are the outcome, and *)
(* the records on every key of the transaction are the settled keys.       *)
StatusOf(w) == IF w.type = "Rollback" THEN 0 ELSE w.commit
OutcomeOf(t) == {StatusOf(w) : w \in InfoOf(t, Primary[t])}
SettledOf(t) ==
    UNION {{<<k, StatusOf(w)>> : w \in InfoOf(t, k)} : k \in Keys[t]}

Promise == INSTANCE AtomicCommit WITH
    Version <- 0 .. MaxTS,
    outcome <- [t \in Txn |-> OutcomeOf(t)],
    settled <- [t \in Txn |-> SettledOf(t)],
    told <- result

(* Percolator implements AtomicCommit: each step of the protocol decides a *)
(* transaction at its primary, settles another key the same way, returns   *)
(* from Commit(), or changes nothing that can be observed.                 *)
ImplementsAtomicCommit == Promise!Spec

-----------------------------------------------------------------------------
(* The inductive invariant behind the properties above. *)

(* Before a transaction begins it has left no trace; after, its start      *)
(* version is one PD issued.                                               *)
Traces ==
    \A t \in Txn :
        /\ phase[t] = "idle" =>
             /\ startTS[t] = 0 /\ acked[t] = {} /\ commitReq[t] = {}
             /\ decided[t] = {} /\ t \notin seen
             /\ \A r \in Reader : wait[r] # t
        /\ phase[t] # "idle" => startTS[t] \in 1 .. tso
        /\ commitTS[t] <= tso
        /\ \A c \in commitReq[t] : startTS[t] < c /\ c <= tso

(* Locks and records belong to transactions that began and to their keys.  *)
(* A record's version is the owner's start version if it is a rollback and *)
(* a commit version that was sent otherwise; it has a value unless the     *)
(* mutation is lock-only.                                                  *)
WellFormed ==
    \A k \in Key :
        /\ lock[k] # NoTxn => k \in Keys[lock[k]] /\ phase[lock[k]] # "idle"
        /\ \A w \in write[k] :
             /\ k \in Keys[w.txn] /\ phase[w.txn] # "idle"
             /\ w.type = "Rollback" => w.commit = startTS[w.txn]
             /\ w.type # "Rollback" => w.commit \in commitReq[w.txn]
             /\ w.type = "Put" => k \notin LockOnly[w.txn]
             /\ w.type = "Lock" => k \in LockOnly[w.txn]

(* PD never issues a timestamp twice. *)
Timestamps(t) == {startTS[t]} \cup commitReq[t]
UniqueTS ==
    \A t, u \in Txn : t # u =>
        \A c \in Timestamps(t), d \in Timestamps(u) : c = d => c = 0

(* A transaction leaves one record per key, and then holds no lock there. *)
OneRecord ==
    \A k \in Key : \A v, w \in write[k] : v.txn = w.txn => v = w
LockedIsOpen ==
    \A k \in Key : \A w \in write[k] : w.txn # lock[k]

(* The primary decides: what any key or any resolver says of a transaction *)
(* is what its primary says.                                               *)
PrimaryDecides ==
    /\ \A k \in Key : \A w \in write[k] : StatusOf(w) \in OutcomeOf(w.txn)
    /\ \A t \in Txn : decided[t] \subseteq OutcomeOf(t)

(* A committed record is older than whoever holds the lock. *)
LockAfterCommits ==
    \A k \in Key : \A w \in write[k] :
        (lock[k] # NoTxn /\ w.type # "Rollback") => w.commit < startTS[lock[k]]

(* An acknowledged prewrite stays: its key is locked or settled. *)
AckedHolds ==
    \A t \in Txn :
        /\ acked[t] \subseteq Keys[t]
        /\ \A k \in acked[t] : lock[k] = t \/ InfoOf(t, k) # {}
        /\ commitReq[t] # {} => acked[t] = Keys[t]

(* A commit version that can no longer take effect. *)
Dead(t, c) ==
    /\ lock[Primary[t]] = t => minCommit[t] > c
    /\ \A w \in CommitsOf(t, Primary[t]) : w.commit # c

(* What the committer knows in each phase. *)
ClientKnows ==
    \A t \in Txn :
        /\ phase[t] \in {"idle", "prewrite", "commit"} <=> result[t] = "none"
        /\ result[t] = "ok" <=> phase[t] = "committed"
        /\ phase[t] = "prewrite" => commitReq[t] = {}
        /\ phase[t] = "commit" =>
             /\ commitTS[t] \in commitReq[t]
             /\ \A c \in commitReq[t] : c # commitTS[t] => Dead(t, c)
        /\ phase[t] = "committed" => commitTS[t] \in OutcomeOf(t) /\ commitTS[t] > 0
        /\ phase[t] = "cleaned" => 0 \in OutcomeOf(t)
        /\ result[t] = "error" => \A c \in commitReq[t] : Dead(t, c)

(* The inductive invariant: the primary of a transaction is its single     *)
(* point of decision, and nobody knows or records anything else.           *)
IndInv ==
    /\ TypeOK /\ tso <= MaxTS
    /\ Traces /\ WellFormed /\ UniqueTS /\ OneRecord /\ LockedIsOpen
    /\ PrimaryDecides /\ LockAfterCommits /\ AckedHolds /\ ClientKnows

-----------------------------------------------------------------------------
(* Why readers see their snapshot. *)

(* Transaction t does not commit at or below ts, now or later: every       *)
(* version it was sent to commit at is dead or later.                      *)
Late(t, ts) == \A c \in commitReq[t] : c <= ts => Dead(t, c)

(* The transactions a reader ignores are late for its snapshot, those it   *)
(* reads through are in it, and those that write a key it has read are     *)
(* late or committed, so that no commit changes what it read.              *)
ReaderKnows(r) ==
    /\ rts[r] <= tso
    /\ rts[r] = 0 => wait[r] = NoTxn /\ ignore[r] = {}
    /\ \A t \in ignore[r] : Late(t, rts[r])
    /\ \A t \in access[r] : \E w \in CommitsOf(t, Primary[t]) : w.commit <= rts[r]
    /\ \A p \in reads[r] :
          /\ p[1] <= tso
          /\ \A t \in Txn : p[2] \in Keys[t] \ LockOnly[t] =>
                CommittedOn(t, Primary[t]) \/ Late(t, p[1])
ReadersKnow == \A r \in Reader : ReaderKnows(r)

SnapshotInv == IndInv /\ ReadersKnow /\ ReadsSnapshot
=============================================================================
