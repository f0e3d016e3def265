--------------------------- MODULE PessimisticLock ---------------------------
(***************************************************************************)
(* One pessimistic transaction acquiring locks (txnkv/transaction/txn.go    *)
(* and pessimistic.go): LockKeys in the normal way and in aggressive (fair)  *)
(* locking mode with its Start, Retry, Cancel and Done operations, the       *)
(* choice and reset of the primary, the ttlManager that keeps the primary    *)
(* alive, the rollbacks that run in background goroutines, and Rollback and  *)
(* Commit.  The server side is PessimisticLock and PessimisticRollback of    *)
(* mocktikv.  Other transactions appear through the versions they commit,    *)
(* and through the errors that a lock request may meet.                      *)
(*                                                                          *)
(* A key is a number, ordered as the code orders keys.  An aggressive call   *)
(* has one key: LockKeys leaves the mode when it gets more.                  *)
(***************************************************************************)
EXTENDS Integers, FiniteSets, FiniteSetsExt, Functions

CONSTANTS
    NKeys,         \* keys are 1..NKeys
    MaxTS,         \* the last timestamp the oracle hands out
    Modes,         \* kinds of LockKeys calls, see AllModes
    Server,        \* "tikv" or "mocktikv": forUpdateTS of a lock with conflict
    Admit          \* sequences of calls admitted beyond the ordinary ones

Keys == 1..NKeys
NoKey == 0
NoLock == [fts |-> 0, primary |-> NoKey]
NoCall == [keys |-> {}]

\* A lock call may just lock, ask for the value (LockCtx.ReturnValues), lock a
\* key presumed not to exist, or lock only keys that exist.
AllModes == {"plain", "value", "insert", "ifExists"}

\* What the runs of the ordinary use leave out: a multi-key call after
\* another call of an aggressive attempt, an insert of a key that this attempt
\* or the last one locked for something else and without its value,
\* LockOnlyIfExists while locks of the previous attempt are not claimed yet, a
\* call after a failed call of the same attempt, and a lost response to a lock
\* acquired with conflict.
AllAdmit == {"exitAfterCall", "lockedInsert", "retryIfExists", "goOnAfterError",
             "lostConflict"}

ASSUME ConstantsOK ==
    /\ NKeys \in Nat \ {0} /\ MaxTS \in Nat \ {0, 1}
    /\ Modes \subseteq AllModes /\ Server \in {"tikv", "mocktikv"}
    /\ Admit \subseteq AllAdmit

VARIABLES
    lock,     \* server: this transaction's lock on each key, or NoLock
    latest,   \* server: commitTS of the newest version of each key, 0 if none
    ts,       \* the oracle
    stmtTS,   \* the ForUpdateTS of the current attempt of the statement
    calls,    \* "none", "some" or "failed" calls in the current attempt
    txn,      \* the client's state: KVTxn, its committer and ttlManager
    call,     \* the LockKeys call in progress, or NoCall
    status,   \* "open", or how the transaction ended
    inserted  \* history: recorded keys that were locked as keys to insert

vars == <<lock, latest, ts, stmtTS, calls, txn, call, status, inserted>>

-----------------------------------------------------------------------------
(* The aggressive locking context. *)

NoAgg == [on |-> FALSE, last |-> <<>>, cur |-> <<>>, lastPrimary |-> NoKey,
          lastAssigned |-> FALSE, primary |-> NoKey, assigned |-> FALSE,
          maxLWC |-> 0, lastOld |-> FALSE]
NewAgg == [NoAgg EXCEPT !.on = TRUE]

Init ==
    /\ lock = [k \in Keys |-> NoLock]
    /\ latest \in [Keys -> {0, 1}]
    /\ ts = 2 /\ stmtTS = 2 /\ calls = "none"
    /\ txn = [flags |-> {}, notExist |-> {}, checks |-> <<>>, primary |-> NoKey,
              fts |-> 0, maxLWC |-> 0, ttl |-> NoKey, beat |-> "none",
              lockedCnt |-> 0, agg |-> NoAgg, bg |-> {}]
    /\ call = NoCall /\ status = "open" /\ inserted = {}

Merge(f, g) == [k \in DOMAIN f \cup DOMAIN g |-> IF k \in DOMAIN f THEN f[k] ELSE g[k]]
Without(f, k) == Restrict(f, DOMAIN f \ {k})
MaxOf(a, b) == IF a > b THEN a ELSE b

\* ttlManager.run: does nothing unless the manager is uninitialized.  The
\* goroutine it starts beats until it meets a key error, or is over before.
run(t) ==
    IF t.ttl = NoKey THEN [t EXCEPT !.ttl = t.primary, !.beat = "beats"] ELSE t

\* ttlManager.reset closes the channel of the goroutine that keeps alive.
reset(t) == [t EXCEPT !.ttl = NoKey, !.beat = "none"]

resetPrimary(t, keepTTLManager) ==
    LET u == [t EXCEPT !.primary = NoKey] IN IF keepTTLManager THEN u ELSE reset(u)

\* Each key's rollback is a request of its own that runs later, or never.
asyncPessimisticRollback(t, keys, fts) ==
    [t EXCEPT !.bg = @ \cup {[key |-> k, fts |-> MaxOf(t.fts, fts)] : k \in keys}]

\* Mutant: the timestamps of locks acquired with conflict are forgotten.
rollbackKeys_RequestTS(t, keys) ==
    IF keys = {} THEN t
    ELSE [asyncPessimisticRollback(t, keys, 0) EXCEPT
             !.lockedCnt = @ - Cardinality(keys)]

rollbackKeys(t, keys) ==
    IF keys = {} THEN t
    ELSE [asyncPessimisticRollback(t, keys, t.agg.maxLWC) EXCEPT
             !.lockedCnt = @ - Cardinality(keys)]

cleanupAggressiveLockingRedundantLocks(t) == rollbackKeys(t, DOMAIN t.agg.last)

\* The next attempt starts; whether the one that ends took long is not known.
retryAggressiveLocking(t, old) ==
    LET u == cleanupAggressiveLockingRedundantLocks(t)
        a == t.agg
    IN [(IF a.assigned THEN resetPrimary(u, TRUE) ELSE u) EXCEPT
           !.agg = [NewAgg EXCEPT
                       !.lastAssigned = a.assigned \/ a.lastAssigned,
                       !.lastPrimary = a.primary, !.maxLWC = a.maxLWC,
                       !.last = a.cur, !.lastOld = old]]

cancelAggressiveLocking(t) ==
    LET u == cleanupAggressiveLockingRedundantLocks(t)
        v == IF t.agg.assigned \/ t.agg.lastAssigned
             THEN resetPrimary(u, FALSE) ELSE u
    IN [rollbackKeys(v, DOMAIN t.agg.cur) EXCEPT !.agg = NoAgg]

doneAggressiveLocking(t) ==
    LET u == IF t.agg.lastAssigned /\ ~t.agg.assigned THEN reset(t) ELSE t
        v == cleanupAggressiveLockingRedundantLocks(u)
        absent == {k \in DOMAIN t.agg.cur : t.agg.cur[k].hasValue /\ ~t.agg.cur[k].exists}
    IN [v EXCEPT !.flags = @ \cup DOMAIN t.agg.cur, !.notExist = @ \cup absent,
                 !.checks = Merge(@, [k \in DOMAIN t.agg.cur |-> t.agg.cur[k].fts]),
                 !.maxLWC = MaxOf(@, t.agg.maxLWC),
                 !.agg = NoAgg]

-----------------------------------------------------------------------------
(* The calls that begin and end attempts and statements. *)

Idle == status = "open" /\ call = NoCall

\* The keys the client takes to be locked, for good and for this attempt, and
\* those of the last attempt.
HeldBy(t) == t.flags \cup DOMAIN t.agg.cur
Recorded(t) == HeldBy(t) \cup DOMAIN t.agg.last

\* The history forgets a key when the client does.
Inserted(keys) == inserted' = keys \cap Recorded(txn')

\* The statement's next attempt, or the next statement, has a new ForUpdateTS.
NewAttempt == /\ ts < MaxTS /\ ts' = ts + 1 /\ stmtTS' = ts + 1
              /\ calls' = "none" /\ Inserted(inserted)

StartAggressiveLocking ==
    /\ Idle /\ ~txn.agg.on /\ calls = "none"
    /\ txn' = [txn EXCEPT !.agg = NewAgg]
    /\ UNCHANGED <<lock, latest, ts, stmtTS, calls, call, status, inserted>>

RetryAggressiveLocking ==
    /\ Idle /\ txn.agg.on
    /\ \E old \in BOOLEAN : txn' = retryAggressiveLocking(txn, old)
    /\ NewAttempt
    /\ UNCHANGED <<lock, latest, call, status>>

CancelAggressiveLocking ==
    /\ Idle /\ txn.agg.on
    /\ txn' = cancelAggressiveLocking(txn)
    /\ NewAttempt
    /\ UNCHANGED <<lock, latest, call, status>>

DoneAggressiveLocking ==
    /\ Idle /\ txn.agg.on /\ calls # "failed"
    /\ txn' = doneAggressiveLocking(txn)
    /\ NewAttempt
    /\ UNCHANGED <<lock, latest, call, status>>

NextStatement ==
    /\ Idle /\ ~txn.agg.on /\ calls # "none"
    /\ UNCHANGED <<lock, latest, txn, call, status>>
    /\ NewAttempt

\* Time passes: the locks of the last attempt may be older than their TTL.
Age ==
    /\ txn.agg.last # <<>> /\ ~txn.agg.lastOld
    /\ txn' = [txn EXCEPT !.agg.lastOld = TRUE]
    /\ UNCHANGED <<lock, latest, ts, stmtTS, calls, call, status, inserted>>

-----------------------------------------------------------------------------
(* LockKeys up to the requests. *)

\* The last attempt's primary is chosen again if it is among the keys.
selectPrimaryForPessimisticLock(t, keys) ==
    LET p == IF t.agg.on /\ t.agg.lastPrimary \in keys
             THEN t.agg.lastPrimary ELSE Min(keys)
        u == [t EXCEPT !.primary = p]
    IN IF t.agg.on THEN [u EXCEPT !.agg.assigned = TRUE, !.agg.primary = p] ELSE u

ReturnValues(mode) == mode \in {"value", "ifExists"}

\* An entry locked with conflict carries the value; any other entry must have
\* been locked with the values the call asks for.
trySkipLockingOnRetry(e, mode) == e.lwc # 0 \/ e.hasValue \/ ~ReturnValues(mode)

entryOnRetry(e, mode) ==
    [e EXCEPT !.lwc = 0, !.hasValue = IF ReturnValues(mode) THEN @ ELSE FALSE,
              !.exists = TRUE]

\* Mutant: a lock that names another primary is taken over as it is.
canTrySkip_AnyPrimary(a) == TRUE

canTrySkip(a) == ~a.assigned \/ a.lastPrimary = a.primary

\* Whether the key k is taken over from the last attempt without a request.
skips(t, k, mode) ==
    /\ k \in DOMAIN t.agg.last
    /\ canTrySkip(t.agg)
    /\ trySkipLockingOnRetry(t.agg.last[k], mode)
    /\ ~t.agg.lastOld

filterAggressiveLockedKeys(t, k, mode) ==
    IF k \notin DOMAIN t.agg.last THEN t
    ELSE LET u == [t EXCEPT !.agg.last = Without(@, k)]
         IN IF skips(t, k, mode)
            THEN [u EXCEPT !.agg.cur = Merge(@, [j \in {k} |-> entryOnRetry(t.agg.last[k], mode)])]
            ELSE u

resetTTLManagerForAggressiveLockingMode(t, hasNewLock, assigned) ==
    IF hasNewLock /\ assigned /\ t.agg.primary # t.agg.lastPrimary
    THEN reset(t) ELSE t

\* The keys of the call that are not locked yet, as far as the client knows.
ToLock(t, keysInput) == keysInput \ (t.flags \cup DOMAIN t.agg.cur)

\* A locked key that the client takes to exist: by its flags, unless they say
\* that it was locked without a value, or by the entry of this attempt or the last.
KnownToExist(t, k) ==
    \/ k \in t.flags \ t.notExist
    \/ k \in DOMAIN t.agg.cur /\ t.agg.cur[k].exists
    \/ k \in DOMAIN t.agg.last /\ t.agg.last[k].exists

\* The call fails before any request: a key to insert is known to exist, or
\* LockOnlyIfExists has no primary to refer to.
FailsEarly(t, keysInput, mode) ==
    \/ mode = "insert" /\ \E k \in keysInput : KnownToExist(t, k)
    \/ mode = "ifExists" /\ t.primary = NoKey /\ Cardinality(ToLock(t, keysInput)) > 1

\* What the client knows of a key that an attempt locked tells whether the key
\* may be inserted.
TellsExistence(f, k) == k \in DOMAIN f => f[k].hasValue \/ f[k].exists \/ k \in inserted

Ordinary(keysInput, mode) ==
    /\ calls = "failed" => "goOnAfterError" \in Admit
    /\ Cardinality(keysInput) > 1 /\ txn.agg.on /\ calls # "none" =>
           "exitAfterCall" \in Admit
    /\ mode = "insert" =>
           \/ \A k \in keysInput : TellsExistence(txn.agg.cur, k) /\ TellsExistence(txn.agg.last, k)
           \/ "lockedInsert" \in Admit
    /\ mode = "ifExists" /\ txn.agg.last # <<>> => "retryIfExists" \in Admit

exitAggressiveLockingIfInapplicable(t, keysInput) ==
    IF t.agg.on /\ Cardinality(keysInput) > 1 THEN doneAggressiveLocking(t) ELSE t

LockKeys(keysInput, mode) ==
    LET t0 == exitAggressiveLockingIfInapplicable(txn, keysInput)
        keys == ToLock(t0, keysInput)
        assigned == t0.primary = NoKey
        t1 == [(IF assigned THEN selectPrimaryForPessimisticLock(t0, keys) ELSE t0)
                 EXCEPT !.fts = stmtTS]
        k == Min(keys)
        skip == t1.agg.on /\ skips(t1, k, mode)
        t2 == IF t1.agg.on
              THEN resetTTLManagerForAggressiveLockingMode(
                       filterAggressiveLockedKeys(t1, k, mode), ~skip, assigned)
              ELSE t1
    IN /\ Idle /\ Ordinary(keysInput, mode)
       /\ UNCHANGED <<lock, latest, ts, stmtTS, status>>
       /\ \/ /\ FailsEarly(t0, keysInput, mode)
             /\ txn' = t0 /\ calls' = "failed" /\ UNCHANGED call
             /\ Inserted(inserted)
          \/ /\ ~FailsEarly(t0, keysInput, mode)
             /\ txn' = IF keys = {} THEN t0 ELSE t2
             /\ calls' = "some"
             /\ call' = IF keys = {} \/ skip THEN NoCall
                        ELSE [keys |-> keys, todo |-> keys, mode |-> mode,
                              assigned |-> assigned, err |-> "nil", lwc |-> <<>>,
                              absent |-> {}, waiting |-> FALSE]
             /\ Inserted(IF mode = "insert" THEN inserted \cup keysInput ELSE inserted)

-----------------------------------------------------------------------------
(* The requests: the primary's batch first, the others concurrently. *)

Requested(k) ==
    /\ status = "open" /\ call # NoCall /\ ~call.waiting
    /\ k \in call.todo
    /\ txn.primary \in call.todo => k = txn.primary

Exists(k) == latest[k] > 0
Conflicts(k) == latest[k] > txn.fts

\* Mutant: the assertion that the key does not exist is not checked.
Refused_NoAssertion(k) == Conflicts(k) /\ (~txn.agg.on \/ call.mode = "insert")

\* pessimisticLockMutation refuses: a newer version, or a version of a key
\* that must not exist.  In ForceLock mode a newer version of a key that may
\* exist is no obstacle.
Refused(k) ==
    \/ Conflicts(k) /\ (~txn.agg.on \/ call.mode = "insert")
    \/ Exists(k) /\ call.mode = "insert"

\* The lock's forUpdateTS when it is acquired in spite of a newer version:
\* the client takes it to be the version's commitTS.
ForceLockTS(k) == IF Conflicts(k) /\ Server = "tikv" THEN latest[k] ELSE txn.fts

\* A lock of the same transaction is replaced when it is older.
pessimisticLockMutation(k) ==
    IF call.mode = "ifExists" /\ ~Exists(k) THEN lock
    ELSE IF lock[k] # NoLock /\ lock[k].fts >= txn.fts THEN lock
    ELSE [lock EXCEPT ![k] = [fts |-> ForceLockTS(k), primary |-> txn.primary]]

\* The server's answer to the request of one key: nothing is written when the
\* mutation fails; otherwise the lock is, and the key is reported with the
\* newer version it was locked in spite of and with whether it exists.
PessimisticLock(k) ==
    IF Refused(k) THEN [ok |-> FALSE, lock |-> lock]
    ELSE [ok |-> TRUE, lock |-> pessimisticLockMutation(k),
          lwc |-> IF Conflicts(k) THEN [j \in {k} |-> latest[k]] ELSE <<>>,
          notFound |-> IF ReturnValues(call.mode) /\ ~Exists(k) THEN {k} ELSE {}]

\* After the primary is locked it is kept alive.
handlePessimisticLockResponse(t, k) == IF k = t.primary THEN run(t) ELSE t

LockGranted(k) ==
    /\ Requested(k) /\ PessimisticLock(k).ok
    /\ LET resp == PessimisticLock(k) IN
       /\ lock' = resp.lock
       /\ call' = [call EXCEPT !.todo = @ \ {k}, !.lwc = Merge(@, resp.lwc),
                               !.absent = @ \cup resp.notFound]
    /\ txn' = handlePessimisticLockResponse(txn, k)
    /\ UNCHANGED <<latest, ts, stmtTS, calls, status, inserted>>

\* The batch of the primary ends the call when it fails; the other batches
\* are under way already.  The first error is the one returned.
FailBatch(k, err) ==
    call' = [call EXCEPT !.todo = IF k = txn.primary THEN {} ELSE @ \ {k},
                         !.err = IF @ = "nil" THEN err ELSE @]

\* ErrWriteConflict or ErrKeyExist.
LockRefused(k) ==
    /\ Requested(k) /\ ~PessimisticLock(k).ok
    /\ FailBatch(k, "refused")
    /\ UNCHANGED <<lock, latest, ts, stmtTS, calls, txn, status, inserted>>

\* Any other error: lock wait timeout, deadlock, kill, deadline or a network
\* error, after which the lock may have been written.
LockFailed(k) ==
    /\ Requested(k)
    /\ \E err \in {"failed", "deadlock"} : FailBatch(k, err)
    /\ \/ UNCHANGED lock
       \/ /\ Conflicts(k) /\ Server = "tikv" => "lostConflict" \in Admit
          /\ PessimisticLock(k).ok
          /\ lock' = PessimisticLock(k).lock
    /\ UNCHANGED <<latest, ts, stmtTS, calls, txn, status, inserted>>

-----------------------------------------------------------------------------
(* LockKeys after the requests. *)

MaxLWC(c) == Max({0} \cup Range(c.lwc))

WithMaxLWC(t) == IF t.agg.on THEN [t EXCEPT !.agg.maxLWC = MaxOf(@, MaxLWC(call))] ELSE t

keyMayBeLocked(err) == err # "refused"

rollbackFailedLock(t) ==
    IF Cardinality(call.keys) > 1 \/ keyMayBeLocked(call.err)
    THEN asyncPessimisticRollback(t, call.keys, MaxOf(t.fts, MaxLWC(call))) ELSE t

Returns(t) ==
    /\ txn' = IF call.assigned THEN resetPrimary(t, FALSE) ELSE t
    /\ call' = NoCall /\ calls' = "failed"

\* A retryable deadlock waits for the goroutine of the rollback before it
\* returns.
LockKeysFails ==
    /\ Idle = FALSE /\ status = "open" /\ ~call.waiting
    /\ call.todo = {} /\ call.err # "nil"
    /\ LET t == rollbackFailedLock(WithMaxLWC(txn))
       IN IF call.err = "deadlock"
          THEN txn' = t /\ call' = [call EXCEPT !.waiting = TRUE] /\ UNCHANGED calls
          ELSE Returns(t)
    /\ UNCHANGED <<lock, latest, ts, stmtTS, status, inserted>>

\* The goroutine is done when the requests have run or have failed: one that
\* failed stays pending, as one that never runs.
DeadlockWaited ==
    /\ call # NoCall /\ call.waiting
    /\ Returns(txn)
    /\ UNCHANGED <<lock, latest, ts, stmtTS, status, inserted>>

unsetPrimaryKeyIfNeeded(t) ==
    IF call.assigned /\ call.mode = "ifExists" /\ t.primary \in call.absent
    THEN resetPrimary(t, FALSE) ELSE t

\* The entry that aggressive mode keeps for a locked key.
entryOf(k) ==
    LET lwc == IF k \in DOMAIN call.lwc THEN call.lwc[k] ELSE 0
    IN [hasValue |-> ReturnValues(call.mode), lwc |-> lwc,
        exists |-> k \notin call.absent /\ (lwc # 0 \/ ReturnValues(call.mode)),
        fts |-> MaxOf(txn.fts, lwc)]

\* How many locks the call adds to the count.
CountLocked(locked) == Cardinality(locked)

LockKeysDone ==
    /\ Idle = FALSE /\ status = "open"
    /\ call.todo = {} /\ call.err = "nil"
    /\ LET t == unsetPrimaryKeyIfNeeded(WithMaxLWC(txn))
           locked == IF call.mode = "ifExists" THEN call.keys \ call.absent ELSE call.keys
           u == IF t.agg.on
                THEN [t EXCEPT !.agg.cur = Merge([k \in locked |-> entryOf(k)], @)]
                ELSE [t EXCEPT !.flags = @ \cup locked,
                               !.notExist = @ \cup (locked \cap call.absent)]
       IN txn' = [u EXCEPT !.lockedCnt = @ + CountLocked(locked)]
    /\ call' = NoCall
    /\ Inserted(IF call.mode = "insert" THEN inserted \cup call.keys ELSE inserted)
    /\ UNCHANGED <<lock, latest, ts, stmtTS, calls, status>>

-----------------------------------------------------------------------------
(* The background, the other transactions and the end. *)

pessimisticRollbackKey(l, k, fts) ==
    IF l[k] # NoLock /\ l[k].fts <= fts THEN [l EXCEPT ![k] = NoLock] ELSE l

\* The goroutine of asyncPessimisticRollback; one that gives up is one that
\* never runs.
BackgroundRollback ==
    \E r \in txn.bg :
       /\ lock' = pessimisticRollbackKey(lock, r.key, r.fts)
       /\ txn' = [txn EXCEPT !.bg = @ \ {r}]
       /\ UNCHANGED <<latest, ts, stmtTS, calls, call, status, inserted>>

\* The server prolongs a lock only on its own primary.
TxnHeartBeat(k) == lock[k] # NoLock /\ lock[k].primary = k

\* Only an answer that carries a key error stops the heartbeats; region and
\* network errors are retried.
sendTxnHeartBeat(t) == [t EXCEPT !.beat = IF TxnHeartBeat(t.ttl) THEN @ ELSE "none"]

\* keepAlive stops for good when the primary has no lock to prolong.
HeartbeatStops ==
    /\ txn.beat = "beats" /\ ~TxnHeartBeat(txn.ttl)
    /\ txn' = sendTxnHeartBeat(txn)
    /\ UNCHANGED <<lock, latest, ts, stmtTS, calls, call, status, inserted>>

\* keepAlive ends by itself: the statement is killed, no timestamp can be had,
\* the transaction is older than MaxTxnTTL, or too many heartbeats in a row
\* failed.  The ttlManager still counts as running.
keepAliveEnds ==
    /\ txn.beat = "beats"
    /\ txn' = [txn EXCEPT !.beat = "over"]
    /\ UNCHANGED <<lock, latest, ts, stmtTS, calls, call, status, inserted>>

\* Another transaction's resolver rolls back a lock whose primary nobody
\* keeps alive.  While heartbeats go on, a lock of the last attempt expires
\* only when it is old, and one of the call in progress does not.
Expire(k) ==
    /\ status = "open" /\ lock[k] # NoLock
    /\ \/ txn.beat = "over"
       \/ /\ call # NoCall => k \notin call.keys
          /\ ~(txn.beat = "beats" /\ lock[k].primary = txn.ttl)
          /\ k \in DOMAIN txn.agg.last => txn.agg.lastOld
    /\ lock' = [lock EXCEPT ![k] = NoLock]
    /\ UNCHANGED <<latest, ts, stmtTS, calls, txn, call, status, inserted>>

\* Another transaction locks, writes and commits a key.
OtherCommits(k) ==
    /\ status = "open" /\ lock[k] = NoLock /\ ts < MaxTS
    /\ ts' = ts + 1 /\ latest' = [latest EXCEPT ![k] = ts + 1]
    /\ UNCHANGED <<lock, stmtTS, calls, txn, call, status, inserted>>

\* Rollback rolls back the keys that the memory buffer flags as locked, and
\* skips that when no lock is counted.
rollbackPessimisticLocks(t, l) ==
    IF t.lockedCnt = 0 THEN l
    ELSE [k \in Keys |-> IF k \in t.flags
                         THEN pessimisticRollbackKey(l, k, MaxOf(t.fts, t.maxLWC))[k]
                         ELSE l[k]]

Rollback ==
    /\ Idle
    /\ IF txn.agg.on /\ txn.agg.cur # <<>>
       THEN status' = "refused" /\ UNCHANGED <<lock, txn>>
       ELSE LET t == IF txn.agg.on THEN cancelAggressiveLocking(txn) ELSE txn
            IN /\ txn' = reset(t)
               /\ lock' = rollbackPessimisticLocks(t, lock)
               /\ status' = "rolledBack"
    /\ UNCHANGED <<latest, ts, stmtTS, calls, call, inserted>>

\* Commit up to the prewrite of the keys the transaction holds.
Commit ==
    /\ Idle
    /\ IF txn.agg.on /\ txn.agg.cur # <<>>
       THEN status' = "refused" /\ UNCHANGED txn
       ELSE /\ status' = "committing"
            /\ txn' = IF txn.agg.on THEN cancelAggressiveLocking(txn) ELSE txn
    /\ UNCHANGED <<lock, latest, ts, stmtTS, calls, call, inserted>>

Next ==
    \/ StartAggressiveLocking \/ RetryAggressiveLocking
    \/ CancelAggressiveLocking \/ DoneAggressiveLocking \/ NextStatement \/ Age
    \/ \E keys \in (SUBSET Keys) \ {{}}, mode \in Modes : LockKeys(keys, mode)
    \/ \E k \in Keys : LockGranted(k) \/ LockRefused(k) \/ LockFailed(k)
    \/ LockKeysFails \/ DeadlockWaited \/ LockKeysDone
    \/ BackgroundRollback \/ HeartbeatStops \/ keepAliveEnds
    \/ \E k \in Keys : Expire(k) \/ OtherCommits(k)
    \/ Rollback \/ Commit

Spec == Init /\ [][Next]_vars

-----------------------------------------------------------------------------
(* Properties. *)

Held == HeldBy(txn)

\* Every piece of state has its type; lockedCnt, which Rollback relies on, is
\* never below the number of recorded locks.
TypeOK ==
    /\ lock \in [Keys -> [fts : 0..MaxTS, primary : Keys \cup {NoKey}]]
    /\ latest \in [Keys -> 0..MaxTS]
    /\ stmtTS \in 0..ts /\ ts <= MaxTS
    /\ txn.primary \in Keys \cup {NoKey} /\ txn.ttl \in Keys \cup {NoKey}
    /\ txn.flags \subseteq Keys /\ DOMAIN txn.agg.cur \cap DOMAIN txn.agg.last = {}
    /\ txn.lockedCnt >= Cardinality(Held \cup DOMAIN txn.agg.last)
    /\ status \in {"open", "refused", "rolledBack", "committing"}

\* While no call is in progress, every key the client takes to be locked is
\* locked on the server, by a lock that names the transaction's primary; the
\* primary is locked too, and the ttlManager was started for it and finds it:
\* no background rollback of an earlier attempt, no change of primary and no
\* skipped request may leave the client with a lock it does not have.  Only
\* when keepAlive ended by itself may locks be missing; those that are left
\* still name the primary.
HeldLocksProtected ==
    Idle => \A k \in Held :
        /\ txn.ttl = txn.primary /\ txn.beat # "none"
        /\ lock[k] # NoLock => lock[k].primary = txn.primary
        /\ txn.beat # "over" => lock[k] # NoLock /\ lock[txn.primary] # NoLock

\* Every lock on the server is accounted for: the client has recorded it, the
\* call in progress will deal with it, or a background rollback is going to
\* remove it, with a forUpdateTS that is not too small for it.  When Rollback
\* has returned and the background rollbacks are done, no lock is left.
NoOrphanLock ==
    /\ status = "open" => \A k \in Keys : lock[k] # NoLock =>
          \/ k \in Held \cup DOMAIN txn.agg.last
          \/ call # NoCall /\ k \in call.keys
          \/ \E r \in txn.bg : r.key = k /\ r.fts >= lock[k].fts
    /\ status = "rolledBack" /\ txn.bg = {} => \A k \in Keys : lock[k] = NoLock

\* A key that LockKeys accepted for an insert, with a request, by what it knew
\* of a key locked before or by taking over the lock of the last attempt, does
\* not exist as long as its lock is there: the prewrite of a pessimistic
\* transaction insists on the lock and checks the key no more.
InsertedKeysAreNew == \A k \in inserted : lock[k] # NoLock => latest[k] = 0

\* The forUpdateTS the prewrite will insist on for a key
\* (forUpdateTSConstraints) is that of the lock on the server, so that the
\* prewrite of a transaction that kept its locks is not refused.
ConstraintMatchesLock ==
    Idle => \A k \in Keys : lock[k] # NoLock =>
        /\ k \in DOMAIN txn.checks => lock[k].fts = txn.checks[k]
        /\ k \in DOMAIN txn.agg.cur => lock[k].fts = txn.agg.cur[k].fts

\* All that the client believes of its locks (LockKeys, the ttlManager, the
\* aggressive-locking context, the constraints of the prewrite) is so.
LockRecordTrue == TypeOK /\ HeldLocksProtected /\ ConstraintMatchesLock

-----------------------------------------------------------------------------
(* The inductive invariant of ordinary calls against TiKV.  Its parts are   *)
(* stated of any lock table l, versions v, clock n, ForUpdateTS s, client   *)
(* state t and call c, because a handler changes t more than once.          *)

Ordinarily == Admit = {} /\ Server = "tikv"

KeyOrNone == Keys \cup {NoKey}
IsMap(f, T) == \E D \in SUBSET Keys : f \in [D -> T]
Entry == [hasValue : BOOLEAN, lwc : Nat, exists : BOOLEAN, fts : Nat]

\* The types of the aggressive-locking context, the client's state and a call.
IsContext(a) ==
    /\ a \in [on : BOOLEAN, last : {a.last}, cur : {a.cur}, lastPrimary : KeyOrNone,
              lastAssigned : BOOLEAN, primary : KeyOrNone, assigned : BOOLEAN,
              maxLWC : Nat, lastOld : BOOLEAN]
    /\ IsMap(a.last, Entry) /\ IsMap(a.cur, Entry)

IsTxn(t) ==
    /\ t \in [flags : SUBSET Keys, notExist : SUBSET Keys, checks : {t.checks},
              primary : KeyOrNone, fts : Nat, maxLWC : Nat, ttl : KeyOrNone,
              beat : {"none", "beats", "over"}, lockedCnt : Int, agg : {t.agg},
              bg : SUBSET [key : Keys, fts : Nat]]
    /\ IsMap(t.checks, Nat) /\ IsContext(t.agg)

IsCall(c) ==
    /\ c \in [keys : (SUBSET Keys) \ {{}}, todo : SUBSET Keys, mode : AllModes,
              assigned : BOOLEAN, err : {"nil", "refused", "failed", "deadlock"},
              lwc : {c.lwc}, absent : SUBSET Keys, waiting : BOOLEAN]
    /\ IsMap(c.lwc, Nat)

\* A lock on k is going to be removed, or no background rollback removes it.
Covered(l, t, k) == l[k] # NoLock => \E r \in t.bg : r.key = k /\ r.fts >= l[k].fts
Safe(l, t, k) == l[k] # NoLock => \A r \in t.bg : r.key = k => r.fts < l[k].fts

\* The lock on k names the primary p, and is there unless keepAlive is over.
Kept(l, t, k, p) == IF l[k] = NoLock THEN t.beat = "over" ELSE l[k].primary = p

\* The client's bookkeeping: a key is recorded in one place and counted.
Tidy(t) ==
    /\ IsTxn(t)
    /\ t.flags \cap DOMAIN t.agg.cur = {} /\ HeldBy(t) \cap DOMAIN t.agg.last = {}
    /\ DOMAIN t.checks \subseteq t.flags /\ t.notExist \subseteq t.flags
    /\ t.beat # "none" => t.ttl # NoKey
    /\ ~t.agg.on => DOMAIN t.agg.cur = {} /\ DOMAIN t.agg.last = {} /\ ~t.agg.assigned
    /\ t.lockedCnt >= Cardinality(Recorded(t))

\* No timestamp is ahead of the oracle.
Bounded(l, v, n, t) ==
    /\ l \in [Keys -> [fts : 0..n, primary : KeyOrNone]] /\ v \in [Keys -> 0..n]
    /\ t.fts <= n /\ t.maxLWC <= n /\ t.agg.maxLWC <= n
    /\ \A r \in t.bg : r.fts <= n

\* Whose primary the transaction has: chosen in this attempt, in the last one
\* (and reset since), or before the statement.
PrimaryKnown(t) ==
    t.agg.on =>
       /\ t.agg.assigned \/ t.agg.lastAssigned => t.flags = {}
       /\ t.agg.assigned => t.agg.primary # NoKey /\ t.primary \in {NoKey, t.agg.primary}
       /\ ~t.agg.assigned => t.agg.primary = NoKey
       /\ ~t.agg.assigned /\ t.agg.lastAssigned => t.primary = NoKey
       /\ ~t.agg.assigned /\ ~t.agg.lastAssigned => t.primary \in {NoKey} \cup t.flags
       /\ t.agg.lastPrimary # NoKey => t.agg.lastAssigned
       /\ t.agg.lastPrimary = NoKey /\ DOMAIN t.agg.last # {} => t.primary \in t.flags

\* What is held is locked, under a primary that is held and kept alive, until
\* keepAlive ends by itself.
HeldKept(l, t) ==
    /\ \A k \in HeldBy(t) : Kept(l, t, k, t.primary) /\ Safe(l, t, k)
    /\ HeldBy(t) # {} => t.primary \in HeldBy(t) /\ t.ttl = t.primary /\ t.beat # "none"

\* The forUpdateTS the client has recorded of a lock, and that Rollback sends.
RecordsRight(l, t) ==
    /\ \A k \in DOMAIN t.checks : l[k] # NoLock => l[k].fts = t.checks[k]
    /\ \A k \in t.flags : l[k].fts <= MaxOf(t.fts, t.maxLWC)
    /\ \A k \in DOMAIN t.agg.cur : /\ l[k] # NoLock => l[k].fts = t.agg.cur[k].fts
                                   /\ l[k].fts <= MaxOf(t.fts, t.agg.maxLWC)

\* A lock of the last attempt may still be taken over: this attempt has chosen
\* no primary, or the same one.
Claimable(t) == ~t.agg.assigned \/ t.agg.lastPrimary = t.primary

\* The locks of the last attempt are there, as long as they may be taken over,
\* unless they are old.
LastKept(l, t) ==
    \A k \in DOMAIN t.agg.last :
       /\ Safe(l, t, k)
       /\ l[k] # NoLock => /\ l[k].fts = t.agg.last[k].fts
                           /\ l[k].fts <= MaxOf(t.fts, t.agg.maxLWC)
       /\ ~t.agg.lastOld /\ Claimable(t) =>
             Kept(l, t, k, IF t.agg.lastPrimary # NoKey THEN t.agg.lastPrimary
                           ELSE t.primary)

KeptAlive(l, t, k) == t.ttl = k /\ t.beat # "none" /\ Kept(l, t, k, k) /\ Safe(l, t, k)

\* Without a primary nothing is kept alive but the last attempt's primary.
NothingKept(l, t) ==
    t.primary = NoKey =>
       IF t.agg.on /\ ~t.agg.assigned /\ DOMAIN t.agg.last # {}
       THEN t.agg.lastPrimary \in DOMAIN t.agg.last /\ KeptAlive(l, t, t.agg.lastPrimary)
       ELSE \/ t.ttl = NoKey
            \/ t.agg.on /\ ~t.agg.assigned /\ t.agg.lastAssigned /\ t.agg.lastPrimary = NoKey

\* A key that was locked without finding a value has none.
Missing(f, k) == k \in DOMAIN f /\ f[k].hasValue /\ ~f[k].exists
AbsentKnown(l, v, t) ==
    \A k \in Keys :
       l[k] # NoLock /\ (k \in t.notExist \/ Missing(t.agg.cur, k) \/ Missing(t.agg.last, k)) =>
          v[k] = 0

\* A key locked for an insert does not exist while it is locked.
InsertsKnown(l, v, i) == \A k \in i : l[k] # NoLock => v[k] = 0

\* What has been locked or rolled back with this attempt's ForUpdateTS.
Fresh(l, n, s, cs, t, c) ==
    /\ s <= n /\ t.fts <= s
    /\ cs = "none" => /\ t.fts < s /\ t.agg.maxLWC < s
                      /\ DOMAIN t.agg.cur = {} /\ ~t.agg.assigned
    /\ cs # "failed" /\ (c # NoCall => ~c.waiting) =>
          /\ \A r \in t.bg : r.fts < s
          /\ \A k \in Keys : l[k] # NoLock /\ l[k].fts >= s =>
                k \in HeldBy(t) \/ (c # NoCall /\ k \in c.keys \ c.todo)
    /\ cs # "failed" /\ t.primary = NoKey /\ t.agg.assigned => DOMAIN t.agg.last = {}

\* Every lock is recorded, belongs to the call or is going to be removed.
Accounted(l, t, c) == \A k \in Keys \ (Recorded(t) \cup c.keys) : Covered(l, t, k)

\* A call that chose the primary is the first of all; any other finds it held.
Assigns(l, t, c) ==
    /\ t.primary # NoKey
    /\ ~c.assigned => HeldBy(t) # {}
    /\ c.assigned =>
          /\ HeldBy(t) = {} /\ t.primary \in c.keys
          /\ t.agg.on => t.agg.assigned /\ t.agg.primary = t.primary
          /\ c.mode = "ifExists" => c.keys = {t.primary}
          /\ ~c.waiting =>
                IF t.primary \in c.todo THEN t.ttl = NoKey \/ KeptAlive(l, t, t.primary)
                ELSE c.err = "nil" => \/ c.mode = "ifExists" /\ t.primary \in c.absent
                                      \/ t.ttl = t.primary /\ t.beat # "none"

lwcOf(c, k) == IF k \in DOMAIN c.lwc THEN c.lwc[k] ELSE 0

\* What the requests of a call have done so far.
CallKnown(l, v, n, s, t, c) ==
    /\ c.keys \cap Recorded(t) = {} /\ c.todo \subseteq c.keys
    /\ c.absent \subseteq c.keys \ c.todo /\ DOMAIN c.lwc \subseteq c.keys \ c.todo
    /\ c.todo = c.keys => c.err = "nil"
    /\ t.agg.on => \E k \in Keys : c.keys = {k}
    /\ ~t.agg.on => DOMAIN c.lwc = {}
    /\ c.mode = "ifExists" => DOMAIN t.agg.last = {}
    /\ \A k \in DOMAIN c.lwc : c.lwc[k] <= n
    /\ t.fts = s
    /\ c.err = "refused" /\ t.agg.on => c.mode = "insert"
    /\ c.waiting => c.todo = {} /\ c.err = "deadlock" /\ \A k \in c.keys : Covered(l, t, k)
    /\ \A k \in c.keys :
          /\ l[k] # NoLock => l[k].fts <= MaxOf(t.fts, lwcOf(c, k))
          /\ (k \in c.todo \/ (c.mode = "ifExists" /\ k \in c.absent)
                 \/ (c.err = "refused" /\ c.keys = {k})) =>
                \/ Covered(l, t, k)
                \/ t.agg.on /\ c.mode \in {"plain", "value"}
                \/ k \in c.todo /\ c.mode = "insert" /\ v[k] = 0
          /\ k \in c.absent /\ l[k] # NoLock => v[k] = 0
          /\ c.err = "nil" /\ k \notin c.todo /\ ~(c.mode = "ifExists" /\ k \in c.absent) =>
                /\ Kept(l, t, k, t.primary)
                /\ l[k] # NoLock => /\ l[k].fts = MaxOf(t.fts, lwcOf(c, k))
                                    /\ c.mode = "insert" => v[k] = 0

LockInv ==
    /\ Tidy(txn) /\ Bounded(lock, latest, ts, txn) /\ ts \in Nat /\ ts <= MaxTS
    /\ stmtTS \in 0..ts /\ InsertsKnown(lock, latest, inserted) /\ inserted \subseteq Keys
    /\ status \in {"open", "refused", "rolledBack", "committing"}
    /\ calls \in {"none", "some", "failed"}
    /\ call # NoCall => IsCall(call) /\ status = "open" /\ calls = "some"
    /\ status = "open" =>
          /\ PrimaryKnown(txn) /\ HeldKept(lock, txn) /\ RecordsRight(lock, txn)
          /\ LastKept(lock, txn) /\ NothingKept(lock, txn)
          /\ Fresh(lock, ts, stmtTS, calls, txn, call)
          /\ Accounted(lock, txn, call)
          /\ AbsentKnown(lock, latest, txn) /\ inserted \subseteq Recorded(txn)
          /\ call = NoCall /\ txn.primary # NoKey => HeldBy(txn) # {}
          /\ call # NoCall => /\ Assigns(lock, txn, call)
                              /\ CallKnown(lock, latest, ts, stmtTS, txn, call)
    /\ status = "rolledBack" => \A k \in Keys : Covered(lock, txn, k)
=============================================================================
