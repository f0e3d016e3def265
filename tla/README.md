# TLA+ models of client-go

client-go is the Go client of TiKV: a library inside a SQL server or another
application that turns transactions into requests to the stores of a cluster.
The stores keep versions and locks of keys and do not know of transactions as
a whole; atomicity, isolation and recovery are the work of this client,
together with the other clients that meet its locks.  Below that, the client
finds the store that serves a key, retries, batches requests on shared streams
and caches timestamps and regions.  This directory models that work in TLA+,
checks it with TLC on small instances and proves part of it with TLAPS.

All paths below are relative to the repository (`src/` in `PROJECT.json`).

## 1. The system

| Component | State it keeps | Operations | What makes it correct |
|---|---|---|---|
| two-phase committer, `txnkv/transaction/{2pc,prewrite,commit,cleanup}.go` | start and commit version, keys and primary, `undeterminedErr`, flags of async commit and 1PC, minCommitTS | `execute`: prewrite, get a version, commit the primary, then the secondaries; `cleanup` | all keys or none, at one version; the result given to the application is true |
| lock resolver, `txnkv/txnlock/lock_resolver.go` | cache of final statuses | `ResolveLocks…`, `BatchResolveLocks`, `getTxnStatus`, `resolveAsyncCommitLock`, `resolveLock` | never contradicts the owner of the lock or another resolver |
| snapshot, `txnkv/txnsnapshot` | version, `resolvedLocks`, `committedLocks`, value cache | `Get`, `BatchGet`, `Iter`, `IterReverse`, `SetSnapshotTS` | reads of one version never change; no answer is missing or wrong |
| MVCC store of the test cluster, `internal/mockstore/mocktikv/mvcc*.go` | locks and write records per key | Prewrite, Commit, Rollback, CheckTxnStatus, ResolveLock, PessimisticLock … | record of a transaction on a key is written once |
| pessimistic locking, `txnkv/transaction/{txn,pessimistic}.go` | locked keys, primary, aggressive-locking context, `ttlManager`, for-update versions | `LockKeys`, Start/Retry/Cancel/Done aggressive locking, `Rollback` | the client's record of its locks agrees with the server's |
| pipelined transactions, `pipelined_flush.go`, `internal/unionstore/pipelined_memdb.go` | memdb, memdb being flushed, generation, error channel, bounds | `Set`, `Get`, `BatchGet`, `Flush`, `FlushWait`, stages, `Commit`, `Rollback` | reads its own writes; commits all generations or none; leaves no lock |
| memory buffer, `internal/unionstore/{art,rbt,arena}` | index tree, value log, stages, flags | `Set`, `Delete`, staging, checkpoints, snapshot reads, iterators | both trees equal a map with undo; a snapshot does not move |
| local latches, `internal/latch` | slots with nodes and queues of waiters | `Lock`, `UnLock`, `Close`, recycle | mutual exclusion, staleness is noticed, no waiter is lost |
| run loop, `util/async` | state, runnable tasks | `Append`, `Exec` | every task once, in order; no lost wakeup |
| range task, `txnkv/rangetask` | tasks, workers | `RunOnRange` | covers the range |
| batch RPC client, `internal/client/client_batch.go`, `conn_batch.go`, `priority_queue.go` | requests in flight, streams, epochs | `send`, receive loop, fail, close, cancel | every request is finished exactly once |
| region cache, `internal/locate/{region_cache,sorted_btree}.go` | regions by range and by version, expiry, reload flags | locate, load, insert, invalidate, GC, refresh | the indexes agree; a location contains its key |
| stores, request sender and replica selector, `internal/locate/{store_cache,region_request,replica_selector}.go` | liveness and epochs of stores; attempts, flags and pending backoffs of the replicas | `SendReq`, `next`, `on…` errors, health checks | every request ends; a store that can be reached is used again |
| timestamp oracle, `oracle/oracles/pd.go` | last timestamp and arrival per scope, update interval | `GetTimestamp`, stale timestamps, `ValidateReadTS` | last timestamp only grows; validation is right |
| backoff, façade, GC, raw client, codecs, metrics | | | see `PROJECT.json` |

How they interact: an application's goroutine drives a transaction; the
committer sends batches concurrently through the request sender (one goroutine
or callback per region), with the commits of secondaries, cleanups, heartbeats,
background rollbacks and the resolution of flushed locks in goroutines of their
own.  Whoever meets a lock calls the lock resolver, which talks to the primary
of that lock and then settles the lock.  Nothing else coordinates clients: the
write record on the primary (or, for async commit, the set of locks) is the only
point of agreement.  The request sender asks the region cache where a key is,
and its errors and send failures change what the cache knows; all requests to a
store share a few streams of the batch client.

What is hard here: requests run late, twice or never and responses are lost; the
client stops anywhere; two clients decide about the same transaction; goroutines
of one transaction race each other (background rollback against lock request,
flush against read, wakeup against timeout); caches are refreshed from sources
that lag behind each other.  `PROJECT.json` lists these hazards at their lines
with the properties that watch them.

## 2. Modules

| Module | Models | Composed from |
|---|---|---|
| `MVCCStore` | one key space of the store: locks, write records, and the requests on one key | |
| `Percolator` | optimistic 2PC clients, resolvers (other clients and GC), snapshot readers | `MVCCStore` |
| `AtomicCommit` | abstract: each transaction is decided once, results follow the decision | refined by `Percolator` |
| `PercolatorProofs` | theorems about `Percolator` and its readers | `Percolator`, `AtomicCommit` |
| `AsyncCommit`, `AsyncCommitProofs` | async commit and 1PC, and resolvers that recover them; theorems about it | |
| `PessimisticLock`, `PessimisticLockProofs` | `LockKeys` and aggressive locking of one transaction; theorems about it | |
| `PipelinedTxn`, `PipelinedTxnProofs` | a pipelined transaction from writes to the resolution of its locks; theorems about it | |
| `SnapshotRead` | batch reads, point reads and scans of one snapshot over changing regions | |
| `MemBuffer` | the memory buffers: value log, stages, checkpoints, flags, snapshots | `RadixTree`, `RedBlackTree`, `ByteString` |
| `Latch`, `RunLoop` | the latches; the run loop | composed in `MCLocal` |
| `LocalProofs` | theorems about them | `Latch`, `RunLoop` |
| `BatchClient`, `BatchClientProofs` | the batch RPC client of one store; theorems about it | |
| `RegionCache` | the index of regions, its loads and its clean-up | |
| `RegionRequest`, `RegionRequestProofs` | the retries of a request over the replicas, with the stores they share; theorems about it | |
| `PDOracle`, `PDOracleProofs` | the timestamp oracle; theorems about it | |
| `MC…` | instances for TLC | |

Conventions.  One action per handler, early return or request at the server.
`Name_Something` next to `Name` is a plausible wrong version of it, used to show
that a property can fail.  A request is split in sending, running at the server
(at any time later, more than once) and handling of the answer; an answer that
never comes is the handler's error action.  A crash is a client that takes no
more steps, which every safety property allows; no fairness is assumed of
clients where locks must be cleaned up.

### Percolator and MVCCStore

`lock[k]`, `write[k]` are the lock and the set of write records of a key;
`prewriteMutation`, `commitKey`, `rollbackKey`, `resolveLockOn` and the
`Status…` operators follow the functions of the same names (or the branches of
`CheckTxnStatus`) in `mvcc_leveldb.go`.  `phase[t]`, `acked`, `commitTS`,
`undet` are the committer; `commitReq[t]` the versions of primary commits that
are out there.  Every key is a batch of its own; `decided[t]` collects every
status any resolver ever learned, so agreement is stated over all of them.
Readers keep `ignore` (resolvedLocks) and `access` (committedLocks).  The age of
a lock is not modelled: any lock may be found expired by a writer or by GC,
which covers every clock.  Values are the transactions that wrote them.

### AsyncCommit

One transaction, one key per batch, with the fallback to 2PC of every step.
The server's part (minCommitTS from max_ts, CheckSecondaryLocks) is not in this
repository and is modelled from what the client expects; those definitions are
marked external.  `resp[k]` is what the one prewrite that ran on `k` answered.
`Env` adds `"Crash"` and the two behaviours of section 4 that the code gets
wrong.  Linearizability is asked for, as it is by default (`needLinearizability`).
`OneDecision` is `TypeOK`, `AtomicAtOneVersion` and `NoMismatch`; `ResultHonest`
is `SuccessIsFinal` and `ErrorMeansNotCommitted`; `CommitTSRight` is
`ReadsStayRight`, `Linearizable` and `WithinSchemaLease`.

### PessimisticLock

The client's state is one record `txn` (KVTxn, committer, ttlManager, background
rollbacks), the call in progress `call`; the server is
`PessimisticLock`/`PessimisticRollback` of `mocktikv`, except for the for-update
version of a lock acquired with conflict, where mocktikv differs from TiKV
(`Server`).  `beat` follows `keepAlive`: it `"beats"`, stops on a key error
(`HeartbeatStops`: the primary has no lock to prolong), or is `"over"` when it
ends by itself (`keepAliveEnds`: killed, no timestamp, `MaxTxnTTL`, too many failed
heartbeats), with the manager still counting as running; from then on any lock
may expire, those of the call in progress included.  `LockExpired`, the flag that
tells the caller so, is not read in this repository.  Assumed of callers: a fresh
ForUpdateTS per attempt.  Shared locks, waiting at the server and lock requests
that arrive after the rollback of their transaction are not modelled; a
background rollback that fails is one that stays pending.  `LockRecordTrue`
includes `HeldLocksProtected` and `ConstraintMatchesLock`.

### PipelinedTxn

`mem`, `flushing`, `cache`, `gen`, `errCh` are the fields of `PipelinedMemDB`,
`fl` its flush goroutine, `lo` and `hi` pipelinedStart and pipelinedEnd, `res`
the range task.  The server's Flush is external: it ignores a generation older
than the lock it finds.  `own` remembers the last write of each key.
Commit is called with no stage open; the code refuses it in its last flush.

### SnapshotRead

Regions are intervals of the keys 1..4 that split and merge while reads are
under way; a reader has the region it was told of, which may be out of date.
`batchGetSize` and `scanBatchSize` are 2 and `cachedSizeLimit` is 5 (256, 256 and
10 GB in the code), so that every limit is met.  Locks of every fate (committed,
rolled back, pushed, still alive) lie on a pair of a response or on the whole
response.  LocateEndKey is one step; the caller's keys ascend; replica reads,
staleness and version MaxUint64 are not inputs; the server reads through
`committedLocks`, as TiKV does, where mocktikv uses only `resolvedLocks`; a batch
read whose context is done fails at its next request, not before it; a failure of the safe point check
is one of the faults.

### MemBuffer, RadixTree, RedBlackTree, ByteString

Both buffers are translated as trees with a value log; a reference map with an
undo list is kept beside them and `BufferMatches` compares the two.  A
checkpoint is reverted in the stage it was taken in.  The two cases in which the
code is known to leave the reference are ruled out by `Admit = {}`: a write that
overwrites in place a value older than a checkpoint drops the checkpoint, and a
key with neither value nor flags is not written to in ART (section 4).  Recursion
over the trees is written with RECURSIVE operators, so these modules are for TLC
only.  Not modelled: node addresses and free lists, size limits and their errors,
memory hooks, the panics of WriteSeqNo checks, `RBTIterator.UpdateFlags`.

### Latch, RunLoop

Both are translated statement by statement where another goroutine can come in
between; `SlotOf`, `ListCount`, `CheckEvery`, `Expire`, `ChanSize` are the
constants of the code made small.  Recycling is due by time alone; the code also
recycles once `checkCounter` unlocks have passed, which only changes when.

### BatchClient

Callers, the priority queue and the build of batches, the map of pending
requests, the streams with their epochs, the receive loops, cancellation by
time-out or context, a failed send, a broken stream, idle recycling and close.  The server
answers any request it was sent, once or never.  `client_collapse.go` (a
singleflight of ResolveLock) is not modelled.  There is one `batchCommandsClient`
(`GrpcConnectionCount` 1): with several, `getClientAndSend` tries the next when one
is full or being re-created.

### RegionCache

A cluster with a history of splits, merges and changes of peers (`Histories`),
which PD, a PD follower and the store know up to some point each; a region's
version is its pair of version and confVer; the cache with `sorted` (by
start key), `regions` (by id and version) and `latestVersions`; callers that
locate and send, background reload, bucket updates, the GC goroutine and the
periodic refresh.  An epoch error is handled in two steps, the lookup of the
region and, after the regions of the answer were built or failed to be, its
invalidation.  TiFlash peers, labels and `BatchLocateKeyRanges` are left out.

### RegionRequest

One cached region with its peers, the stores with liveness and epoch, the health
checker, and requests of every kind.  Epochs are represented by whether they are
still equal to the cached ones; which stores are slow or loaded is chosen anew at
every look; PD answers with the true leader unless its failure is spent;
`MaxAttempt` is 2 for `maxReplicaAttempt` 10, and time adds nothing to a replica's
attempts (`maxReplicaAttemptTime`).  Liveness checks answer
reachable or not, never unknown (`storeLivenessTimeout` 0); the leader of a
NotLeader answer is a peer of the region; the delayed reload that a mixed read
asks for (`needDelayedReloadPending`) and the exit of batched cop tasks on a busy
server are left out.
`UpdateLeader` and `OnSendFail` of senders without a selector are not called, and
a change of the cached leader is one step.  Leader-only and learner options,
tombstones, the token limit, exhausted backoffs and TiFlash are not modelled.

### PDOracle

`GetTimestamp` is split where other goroutines come in between (asked, answered,
stamped, loaded, compared and swapped) for callers, the goroutine and the shared
fetch of `ValidateReadTS`.  The local clock counts in units of PD's physical time
and agrees with it; `Logical` timestamps fit in one unit, and PD
waits for its clock when they are used up.  The goroutine and PD
answer within a unit.  The goroutine starts once there is a first timestamp; the
code starts it just before (`pd.go:195-199`), when it has no scope to update.
MaxUint64 and MaxInt64 as read timestamps and
`EnableTSValidation = false` return early and are not inputs; IsExpired,
UntilExpired, low resolution reads, GetMinTS and external timestamps only read.

## 3. Runs

| Run | Instance | Shows |
|---|---|---|
| `percolator` | 2 transactions on the same 2 keys, primaries crossed, one mutation lock-only, GC, 5 timestamps | atomicity, no lost mutation, true results, agreement of resolvers, no lost update, permanent records, refinement of `AtomicCommit`, the inductive invariant of the proofs, and that GC removes every lock |
| `percolator_read` | 2 transactions, a reader that may move its snapshot forward, 3 timestamps | reads of a snapshot never change |
| `async_commit` | 2 keys by async commit, or 1 key by every combination of protocols with and without a version to wait for; 2 resolvers (symmetric), crash, 4 timestamps; 1.48 million states | one decision and one version everywhere, results are true, the version is right for readers, later transactions and the schema |
| `local` | 3 transactions on 2 keys of one slot, 6 timestamps, close; 3 appenders, a task that appends, 6 Execs, with and without cancellation | mutual exclusion, staleness, no panic, nobody forgotten, `Lock` returns; order, idle on return, no lost wakeup |
| `pessimistic` | 2 keys, 4 timestamps, all kinds of calls, keepAlive that ends at any time; 3.16 million states | client and server agree on what is locked |
| `pipelined` | 3 keys, 2 writes, up to 3 flushes, 1 prefetched key, any regions | own writes, completeness, true results, clean ranges, no call waits for ever |
| `batch_client` | 2 calls, one asynchronous and urgent, on one stream or two; a failing send, a broken stream, time-outs, idle and close | nothing finished twice, what is in flight is counted and owned, also what its caller gave up; a call waits for nobody but the server |
| `region_cache` | 2 callers; one split, one merge or one change of peers; all background work | the three indexes agree, a location contains its key, requests settle |
| `region_request` | two requests on 2 peers, or one on 3; a leader that moves, a store that crashes or is cut off | flags are consistent, stores recover, every request is served |
| `oracle` | 2 callers of 2 scopes with failures; one stale reader over 14 units of time | validation is right, estimates are not ahead, the cache advances, refreshes keep up |
| `snapshot_read` | 4 keys, 1 or 2 readers, 2 region changes, 1 fault | no answer and no cached entry is wrong, reads return |
| `membuffer` | 8 keys with shared prefixes in every order; 2 or 3 writes, with stages (1 or 2 open at most), checkpoints and snapshots at any time; 150 thousand states | trees are sound, buffers equal the reference, snapshots do not move |

Why these bounds: atomicity and agreement need two keys (primary, secondary) and
two clients that disagree; conflicts need two transactions.  Five timestamps let
both transactions start and commit with one retry of a refused commit version;
three do with a reader; four with one transaction whose readers push max_ts
before and after each prewrite.  Two resolvers are what it takes to disagree.  The latch
needs two keys in one slot and three transactions for a waiter to be overtaken.
Two keys and two attempts reach every branch of aggressive locking (first
attempt, retry that keeps, drops or renews a lock).  Three keys are the least
with a region boundary strictly inside a range; two writes and three flushes the
least in which a generation is overwritten while another is on its way.  Two
calls on one stream are the least of which one fails while the other is
answered.  One change, learned of at different times by PD, its follower
and the store, gives a stale answer at each place where the cache takes one.
Fourteen units are a shrink, a full recovery and a change of the interval.  Four
keys with batches of two are two batches in each of two regions.  Stages,
releases, rollbacks, checkpoints and snapshots are free, only writes are counted:
three are two keys below a snapshot and a write in a stage above it that is
published or rolled back between two batches of the snapshot's iterator.  Timestamps,
writes, calls, faults and region changes are the only unbounded counters; each
has a named bound.

Deadlock is not checked: with their bounds used up, or their transaction ended,
all of these systems stop rightly.

### Fairness

`LocksResolved` assumes only that GC goes on: `tikv/gc.go` scans every region
until nothing is left and resolves what it found.  No client need make progress.
`LockReturns` assumes that goroutines run and that who got a latch unlocks it
(`txn.go` does so in a defer).  `TasksRun` assumes that goroutines run and Exec is
called until the tasks are done, as its callers do.  `FlushReturns` assumes that
the flush goroutine runs and that a request ends, as its backoffs are bounded
(`txn.go:640`).  `Answered` assumes that the send and receive goroutines run, that
a connection is re-established and that the idle timer fires; neither that the
server answers nor that the timer of a call fires (`client_batch.go:1493` would end
any call): it says that a call waits for nothing but an answer the server owes.
`RequestsSettle`,
`RequestsServed`, `StoresRecover` and `ReadsReturn` assume that goroutines run,
that requests end, and that region changes and faults do (their bounds); a loop
that goes round for ever without a fault would violate them.

## 4. Disagreements

Where a comment, a test or a sibling function says something else than the code
does, the passing runs leave the case out by a constant or by a condition of the
property; TLC shows it with the instance given here.

- `snapshot.go:201`.  After `SetSnapshotTS` to an earlier version,
  `committedLocks` lets Get read a transaction that committed after it:
  `Percolator` with `Moves = {"back"}`, `ReadsSnapshot`.
- `prewrite.go:442`.  `UndeterminedResult` for an async-commit prewrite leads to
  a rollback and a plain error, while a resolver may commit: `AsyncCommit`,
  `Env = {"UndeterminedResult"}`, one two-key transaction without 1PC,
  `ErrorMeansNotCommitted`.
- `2pc.go:1972`.  The `MaxTxnTimeUse` check fails an async-commit transaction
  after all its prewrites succeeded: `Env = {"TooLong"}`, the same property.
- `txn.go:1369`.  A background rollback removes the lock that the same call
  acquires: `PessimisticLock`, `Modes = {"plain"}`, `Admit = {"exitAfterCall"}`,
  `HeldLocksProtected`.
- A key that this attempt or the last one locked without its value, and not for
  an insert, is then locked for an insert: `txn.go:1623` leaves the lock of the
  last attempt when its renewal finds that the key exists (`NoOrphanLock`);
  `txn.go:1315` takes over a lock without the existence check that an insert
  needs (`InsertedKeysAreNew`): `Admit = {"lockedInsert"}`.
- `txn.go:1835` stops the heartbeat of a lock that is taken over next:
  `Admit = {"retryIfExists"}`, `HeldLocksProtected`; `{"goOnAfterError"}` shows
  the same when a statement goes on after a failed call.
- The TODO at `txn.go:1636`: `Admit = {"lostConflict"}`, `NoOrphanLock`.
- `txn.go:1007`.  The lock on the last key flushed is outside the range that is
  resolved: `PipelinedTxn`, `NKeys = 1`, `Prefetch = {}`, `Entries = {"a"}`,
  `MaxWrites = 1`, `MaxGen = 1`, `AllResolved`.
- `pipelined_memdb.go:522`.  `Cleanup` does not clear the batch get cache, so Get
  returns a value that was reverted, against the note at lines 508-512:
  `Admit = {"prefetchInStage"}`, `ReadYourWrites`.
- `runloop.go:90`.  An Exec whose context is done leaves an Append blocked, and
  the next Exec receives its stale wakeup, answers "already executing" and stays
  waiting: `RunLoop`, `IdleOnReturn` without its condition.
- `scheduler.go:129`.  After `Close` a waiting `Lock` never returns;
  `LockReturns` is stated for schedulers that are not closed.
- `region_cache.go:1761-1763`.  `LocateEndKey` of a key that ends a region may
  give the region that starts there: `RegionCache`, `Histories <- MCHistoriesEnd`,
  `LocatedContainsEndKey`.
- `union_store.go:237` ("reverts the MemBuffer to the specified checkpoint") and
  `art.go:493`.  A value older than the checkpoint that is overwritten in place
  after it (`art.go:414-430`, `rbt.go:391-397`) keeps its new value: Set,
  Checkpoint, Set, RevertToCheckpoint: `MemBuffer`, `Admit = {"overwrittenMark"}`,
  `BufferMatches`.
- `art.go:441` ("the count of entries").  `ART.setValue` counts a key with neither
  value nor flags, which UpdateFlags can leave, a second time when it is written:
  `Admit = {"blankKeys"}`, `BufferMatches`.

Observed while translating, and kept in the models as the code has them:

- `BatchClient`: the loser of the epoch compare-and-swap re-creates its stream
  without failing its pending requests; after an ambiguous Send error a late
  response meets a closed channel, the panic's recovery restarts the loop and the
  other responses of that batch are lost, and `sent` may go low (`drift`);
  `buildWithLimit` may take up to 2·limit−1 normal requests; entries left in the
  queue wait for a new request or for the idle timer; an entry put in the channel
  as the client goes idle or closes is never taken, and its caller times out.
- `RegionCache`: a stale region inserted strictly inside a newer one is not
  detected; GC may delete a fresh item with the same start key and leave its
  entries in the other maps; `switchWorkLeaderToPeer` refreshes the store epoch
  with another index than the one it checked.  `BatchLocateKeyRanges` (not
  modelled) compares an end key with an empty one as bytes.
- `RegionRequest`: a stale read with a busy threshold may go out with both flags
  set after RegionNotFound; NotLeader answers that point at each other are
  retried without a backoff.
- `MemBuffer`: `ART.RevertToCheckpoint` bumps SnapshotSeqNo under the opposite
  condition of its comment, which is the safe side; ART and RBT differ in when a
  revert sets `dirty`; a `snapshotBatchedIter` that is exhausted starts again.
- `PipelinedTxn`: a response without a body ends a range of the resolution as if
  it had been resolved (`pipelined_flush.go:432-434` returns a nil error); the
  model's responses have bodies.

## 5. Proofs

Each theorem holds for every value of the constants that satisfies the named
ASSUMEs of its module (which TLC evaluates on the instances); what a theorem
needs beyond those is a hypothesis written in its statement.  Every inductive
invariant was first checked by TLC as an invariant of its run, or in a run of
its own with the same instance, with the numbers of states given below.

**`PercolatorProofs`**, for any transactions, keys, primaries, readers and GC
ranges.  `Invariance` proves `IndInv`, checked by the run `percolator`:
what each transaction did and where it left traces (`Traces`), records and
locks are well formed, timestamps are unique, a key has at most one record of a
transaction (`OneRecord`), a locked transaction has no record on that key
(`LockedIsOpen`), every status anybody learned is what the primary's record says
(`PrimaryDecides`), the committer's phase agrees with the store (`ClientKnows`),
a lock is newer than the commits below it (`LockAfterCommits`), and an
acknowledged key keeps its lock until the transaction is decided (`AckedHolds`).
None of the properties is inductive alone: that a secondary may be committed
rests on the primary's record, which rests on the acknowledgements.  Steps are
reduced to four kinds (one that writes a record, a prewrite, one that moves
minCommitTS, one that leaves the store alone), so an action is analysed once and
each conjunct four times.  From it follow `TypeCorrectness`, `Atomicity`,
`Durability`, `Honesty`, `Agreement`, `FirstCommitterWins`, the action property
`Permanence`, and `Refinement`: `Percolator` implements `AtomicCommit`, the
decision being the record of the primary.

Its last part, `SnapshotReads`, is about the readers: under `ForwardOnly` (a snapshot is not
moved back; section 4, `snapshot.go:201`, is why) what a reader returned at a
version stays the value at that version.  The argument: a transaction without a
version at or below a snapshot when the snapshot passes its lock is late for that
snapshot (`minCommitTS` was pushed, or it is rolled back), late transactions stay
late, and commit versions sent for them at or below the snapshot are refused;
`ReadersKnow` says that `resolvedLocks` and `committedLocks` name only
transactions that are late or committed in time.  `SnapshotInv`: 1,067,621 states.

**`AsyncCommitProofs`**: `Agreement`, `Honesty` and `CommitTSCorrect` for any set
of keys, resolvers and transactions, under `CrashOnly` (of the behaviours of
`Env` only the crash, as section 4 explains).  A prewrite runs once on a key, so
`resp[k]` is written once and everything the client and the resolvers learn is
about that one answer.  The parts of `IndInv` say what the records show of the
decision (`RecordsTell`), where timestamps come from (`Clocks`, `RequestsAbove`,
`FreshBefore`), what an answer implies (`PrewritesTell`, `ReadsBelow`), what the
committer knows in each phase (`ProtocolKnown`, `MgrIsLargest`,
`FallbackIsLarge`, `FailuresKnown`), and that whoever decides, decides the same
(`DecisionKnown`, `ResolversKnow`).  1,479,047 states.

**`BatchClientProofs`**: `ChannelsClosedOnce` (the panic of closing a channel
twice cannot happen) and `TypeCorrectness`.  `CloseInv`: an entry
is in one place (`OnePlace`), one whose channel is closed was sent by its caller
and is neither in a queue nor in the map of pending requests (`ClosedIsGone`),
and the sender and the stream that re-creates exclude each other (`LockHeld`).
303,451 states, and 613,134 without
asynchronous calls.

**`LocalProofs`**, about the latches: `LatchesSafe`, for any locks, keys, slots and expiry.
`LatchInv`: types, what each phase of a lock implies, a waiter is in exactly one
queue, a release does what is due (`ReleasesDone`), a lock holds the keys it
passed (`HoldsKeys`), and the newest commit of a held key is known
(`NewestKnown`).  60,431 states.  `GenLockAssumption` says of `genLock` what
sorting gives; that a finite set has a sorted sequence needs induction over data,
so it is assumed, and TLC evaluates it.

**`LocalProofs`**, about the run loop: `LoopSafety`, for any appenders and tasks that append
(`SpawnsTasks`, `MaxExec \in Nat`).  `LoopInv` is the order of the tasks and
`Wakeups`: who waits in the send is alone, has put the loop in the state in which
it will be received, and is received.  60,431 states.

**`PDOracleProofs`**: `Validation`, `CacheAdvancing` (an action property) and
`Refreshing`, for any scenario of calls.  `OracleInv`: cached timestamps are
PD's and their arrivals are not before them (`CacheHonest`), what a goroutine
carries between its steps is too (`GettersHonest`), the shared fetch and its
waiters match (`FlightsMatch`), and a call that was already answered once meets
only fetches younger than itself (`CallsHonest`), which is why one retry
suffices.  `RefreshInv`: a read that wants a shorter interval was noted, and the
interval has grown up to now.  1,355,269 states.

**`PessimisticLockProofs`**: `RecordTrue`, `NoOrphan` and `InsertsAreNew`, for any
keys, timestamps and modes of locking, under `Ordinarily` (TiKV's server, and only
the ordinary sequences of calls: section 4 explains the others).  Every pending
background rollback has a forUpdateTS below the ForUpdateTS of the current
attempt, so a lock of this attempt is safe from it (`HeldKept`).  A lock that is
relied on is missing only when keepAlive has ended by itself (`Kept`).  `LockInv`
accounts for every lock on the server (`Accounted`): it is recorded by the
transaction, belongs to the call in progress, or a pending rollback covers it
whose forUpdateTS is not too small, which is what `maxLockedWithConflictTS` is
for.  The other parts: the transaction's fields agree with each other (`Tidy`,
`Bounded`, `PrimaryKnown`, `Assigns`), what is recorded was said by a lock
response (`RecordsRight`), of the last attempt only its primary is kept alive
when this one has none (`LastKept`, `NothingKept`), an attempt without calls has
no locks (`Fresh`), what is known to be absent or accepted for an insert has no
version while it is locked (`AbsentKnown`, `InsertsKnown`), and what a call sent
and got back (`CallKnown`).  The parts
are stated of any value of the transaction, because one handler changes it
several times and each change has its lemma.  TLC checked `LockInv` on the
3,158,002 states of the run `pessimistic`.

**`PipelinedTxnProofs`**: `BufferReads` and `Outcome`, for any number of keys,
writes, stages and generations, under `Ordinarily` (the transaction does not
prefetch what its open stage wrote; section 4, `pipelined_memdb.go:522`, is why).
Neither property is inductive: that Get is right after a flush rests on what the
requests of that flush do at the store, late or twice.  `PipelinedInv` says of
every generation what was sent and what ran (`RequestsKnown`, `LocksKnown`), what
the goroutine knows of it (`BatchKnown`), where the calls can be together
(`Phases`), that each key's last write is in the memdb, being flushed, or in the
store, also for the state that an open stage goes back to (`WritesKnown`), that
the record of the primary decides and a doomed transaction stays doomed
(`Decided`), and that every lock the range task must resolve is in a part that is
left to do (`TasksCover`).  `Matches` lets a key that was inserted and deleted
count as absent, so `WritesKnown` carries that such an entry lies over nothing.
665,842 states.

**`RegionRequestProofs`**: `FlagsStayHonest`, for any requests, stores, peers and
scenarios, under `OneReadMode` (no stale read has a busy threshold: section 4 says
what happens otherwise).  The flags alone are not inductive: a fallback sets
replicaRead from what the selector remembers (`isStale`, the read type of the
request and of the selector), so `Honest` ties these together.  `RequestInv` adds
what each place of a sender implies (`Placed`), that the region it uses is kept
while other senders reload and drop theirs, and how often a peer was tried
(`Bounded`): at most `MaxAttempt` times, and once more for each other peer that
was tried, because an exhausted leader may still be reached through a proxy and a
peer is a proxy only before its first try.  A step replaces one selector; marking
a store changes all of them, which is one lemma.  174,527 states.

Only model-checked, and why:

- Liveness (`LocksResolved`, `LockReturns`, `TasksRun`, `FlushReturns`,
  `Answered`, `RequestsSettle`, `RequestsServed`, `StoresRecover`,
  `ReadsReturn`): fairness and ENABLED are out of the prover's reach.
- `MemBuffer` with its trees: RECURSIVE operators.
- `RegionCache`: inserting a list of regions is a fold, and what a fold keeps
  needs induction over the list.
- `BatchClient!Accounting`: how many entries a batch takes is a recursive
  function of the queue, again induction over data.
- `SnapshotRead!ReadsTrue`: a scan's answer is a sort of the visible keys, a batch of keys is
  grouped by a recursive function and the cache's size is a fold; that they are
  right for every input is induction over data.

## 6. Plan

The models lack most `BatchLocateKeyRanges` in `RegionCache`, the sizes and
limits of the memory buffer, and shared locks in `PessimisticLock`.  The next
theorem would be the part of `SnapshotRead!ReadsTrue` about point reads, which
needs no induction over the keys.

## 7. Not modelled

Encodings, request types, metrics, tracing, configuration and interceptors have
no behaviour of their own.  Dialling and connection pools belong to gRPC.
Binlog, TiFlash, API v2 and resource control do not take part in the decisions
modelled here.  Backoff budgets appear as loops that may end by giving up; time
as timestamps from the oracle and "may have expired", except in `PDOracle`, which
has a clock.  The raw client is plumbing over the region cache and the request
sender.  `PROJECT.json` gives the reason for each component.
