----------------------------- MODULE AsyncCommit -----------------------------
(***************************************************************************)
(* Async commit and one-phase commit (txnkv/transaction: execute in 2pc.go *)
(* and the prewrite handlers) and the recovery of async-commit locks by    *)
(* the lock resolver (txnkv/txnlock: resolveAsyncCommitLock).  One         *)
(* transaction, one key per batch.                                         *)
(*                                                                         *)
(* There is no commit record that decides: the transaction is committed as *)
(* soon as every key carries an async-commit lock, at the largest          *)
(* minCommitTS among them.  The client and every resolver work this out    *)
(* for themselves, while readers keep pushing max_ts.                      *)
(*                                                                         *)
(* The handling of these requests in the server is not in this repository: *)
(* prewrite, CheckSecondaryLocks and the pushing of max_ts are modelled    *)
(* from what the client expects of their answers.                          *)
(***************************************************************************)
EXTENDS Integers, FiniteSets

CONSTANTS
    Key,          \* keys
    Txns,         \* the transactions: the keys written and the options set
    Primary,      \* its primary key
    Resolver,     \* clients that meet its locks
    StartTS,      \* its start timestamp
    MaxCommitTS,  \* how far the schema lease lets commit timestamps go
    MaxTS,        \* bound on the timestamps PD issues
    Env           \* "Crash", and what the code gets wrong: "UndeterminedResult", "TooLong"

ASSUME TxnsAssumption ==
    Txns \subseteq [keys : SUBSET Key, opt : [async : BOOLEAN, onePC : BOOLEAN, waitUntil : Nat]]
ASSUME KeyAssumption == IsFiniteSet(Key) /\ \A t \in Txns : Primary \in t.keys
ASSUME TSAssumption == StartTS \in Nat \ {0} /\ MaxTS \in Nat /\ StartTS <= MaxTS /\ MaxCommitTS \in Nat

VARIABLES
    keys,      \* the keys the transaction writes
    opt,       \* enableAsyncCommit, enable1PC and commitWaitUntilTSO
    tso,       \* the last timestamp PD issued
    maxTS,     \* maxTS[k]: the largest version k was read at
    missed,    \* missed[k]: the largest version at which a read did not see the write
    resp,      \* resp[k]: the answer of a prewrite that ran: a minCommitTS, 0, or -1
    lock,      \* lock[k]: the transaction's lock on k
    write,     \* write[k]: -1 no record, 0 a rollback record, else the commit version
    phase,     \* where execute() is
    async,     \* useAsyncCommit
    onePC,     \* useOnePC
    mgr,       \* minCommitTSMgr
    req,       \* req[k]: prewrite requests sent for k, which may run late and again
    batch,     \* batch[k]: state of k's prewrite handler
    undet,     \* undeterminedErr # nil
    cancelled, \* prewriteCancelled
    onePCTS,   \* onePCCommitTS
    commitTS,  \* the committer's commit version
    result,    \* what Commit() returned
    begun,     \* history: the last timestamp issued when Commit() was called
    res        \* res[r]: the state of resolver r

serverVars == <<maxTS, missed, lock, write, resp>>
flagVars == <<async, onePC, mgr>>
txnVars == <<keys, opt>>
clientVars == <<txnVars, phase, flagVars, req, batch, undet, cancelled, onePCTS, commitTS, result, begun>>
vars == <<tso, serverVars, clientVars, res>>

Secondaries == keys \ {Primary}
TS == 0 .. MaxTS + 1
NoLock == [held |-> FALSE, async |-> FALSE, min |-> 0]
LockOf(a, m) == [held |-> TRUE, async |-> a, min |-> m]
Idle == [pc |-> "idle", commitTs |-> 0, missing |-> FALSE, keys |-> {}, todo |-> {}, err |-> FALSE]

Request == [async : BOOLEAN, onePC : BOOLEAN, min : TS]
Task ==
    [pc : {"idle", "check", "force", "resolve"}, commitTs : TS, missing : BOOLEAN,
     keys : SUBSET keys, todo : SUBSET Secondaries, err : BOOLEAN]

TypeOK ==
    /\ [keys |-> keys, opt |-> opt] \in Txns /\ tso \in TS
    /\ maxTS \in [Key -> TS] /\ missed \in [Key -> TS]
    /\ lock \in [Key -> [held : BOOLEAN, async : BOOLEAN, min : TS]]
    /\ write \in [Key -> TS \cup {-1}] /\ resp \in [Key -> TS \cup {-1}]
    /\ phase \in {"idle", "prewrite", "commit", "cleanup", "done"}
    /\ async \in BOOLEAN /\ onePC \in BOOLEAN /\ mgr \in TS
    /\ req \in [Key -> SUBSET Request]
    /\ batch \in [Key -> {"unsent", "sent", "ok", "err"}]
    /\ undet \in BOOLEAN /\ cancelled \in BOOLEAN
    /\ onePCTS \in TS /\ commitTS \in TS /\ begun \in TS
    /\ result \in {"none", "ok", "error", "undetermined"}
    /\ res \in [Resolver -> Task]

Init ==
    /\ \E t \in Txns : keys = t.keys /\ opt = t.opt
    /\ tso = StartTS
    /\ maxTS = [k \in Key |-> 0] /\ missed = [k \in Key |-> 0]
    /\ lock = [k \in Key |-> NoLock]
    /\ write = [k \in Key |-> -1] /\ resp = [k \in Key |-> -1]
    /\ phase = "idle" /\ async = FALSE /\ onePC = FALSE /\ mgr = 0
    /\ req = [k \in Key |-> {}] /\ batch = [k \in Key |-> "unsent"]
    /\ undet = FALSE /\ cancelled = FALSE
    /\ onePCTS = 0 /\ commitTS = 0 /\ result = "none" /\ begun = 0
    /\ res = [r \in Resolver |-> Idle]

-----------------------------------------------------------------------------
(* The server. *)

LargestOf(a, b) == IF a >= b THEN a ELSE b

(* A reader at a version PD has issued: a lock it may pass carries a larger *)
(* minCommitTS; a lock it may not pass blocks it.  Reading pushes max_ts.   *)
Read(k, ts) ==
    /\ ~(lock[k].held /\ lock[k].min <= ts)
    /\ maxTS' = [maxTS EXCEPT ![k] = LargestOf(@, ts)]
    /\ missed' = [missed EXCEPT ![k] = IF write[k] \in 1 .. ts THEN @ ELSE LargestOf(@, ts)]
    /\ UNCHANGED <<tso, lock, write, resp, clientVars, res>>

(* The minCommitTS the server gives a request: above every read of the key. *)
ServerMin(k, q) == LargestOf(q.min, maxTS[k] + 1)

(* The server runs a prewrite.  A request for async commit or 1PC gets a   *)
(* plain lock when its version would pass MaxCommitTS, or for a reason of  *)
(* the server's own.  A lock or record already there is left alone.        *)
RunPrewrite(k, q, plain) ==
    /\ ~lock[k].held /\ write[k] = -1
    /\ plain \/ ((q.async \/ q.onePC) /\ ServerMin(k, q) <= MaxCommitTS)
    /\ LET min == IF plain THEN q.min ELSE ServerMin(k, q)
       IN  /\ resp' = [resp EXCEPT ![k] = IF plain THEN 0 ELSE min]
           /\ IF q.onePC /\ ~plain
                THEN write' = [write EXCEPT ![k] = min] /\ UNCHANGED lock
                ELSE lock' = [lock EXCEPT ![k] = LockOf(~plain, min)] /\ UNCHANGED write
    /\ UNCHANGED <<tso, maxTS, missed, clientVars, res>>

Prewrite(k) == \E q \in req[k], plain \in BOOLEAN : RunPrewrite(k, q, plain)

(* CheckSecondaryLocks leaves a rollback record where there is neither a   *)
(* lock nor a record, so that a late prewrite cannot succeed.              *)
ProtectKey(k) ==
    write' = [write EXCEPT ![k] = IF ~lock[k].held /\ @ = -1 THEN 0 ELSE @]

(* A lock is replaced by the record it is resolved to. *)
Settle(k, ts) ==
    /\ lock' = [lock EXCEPT ![k] = NoLock]
    /\ write' = [write EXCEPT ![k] = IF lock[k].held THEN ts ELSE @]

-----------------------------------------------------------------------------
(* The committer. *)

(* The protocols the transaction tries.  Several batches rule out 1PC.     *)
checkAsyncCommit == opt.async
checkOnePC == opt.onePC /\ Cardinality(keys) = 1

(* PD is asked until its timestamp is past commitWaitUntilTSO.             *)
GetTimestampForCommit == LargestOf(tso, opt.waitUntil) + 1

Execute_NoLatestTS ==
    /\ phase = "idle" /\ GetTimestampForCommit <= MaxTS
    /\ tso' = GetTimestampForCommit
    /\ mgr' = StartTS + 1
    /\ async' = checkAsyncCommit /\ onePC' = checkOnePC
    /\ begun' = tso
    /\ phase' = "prewrite"
    /\ UNCHANGED <<txnVars, serverVars, req, batch, undet, cancelled, onePCTS, commitTS, result, res>>

(* execute(): decide the protocol, raise minCommitTS above every timestamp *)
(* issued so far when the commit version may be calculated, and start      *)
(* prewriting.                                                             *)
Execute ==
    /\ phase = "idle"
    /\ async' = checkAsyncCommit /\ onePC' = checkOnePC
    /\ IF async' \/ onePC'
         THEN GetTimestampForCommit <= MaxTS /\ tso' = GetTimestampForCommit /\ mgr' = tso' + 1
         ELSE UNCHANGED <<tso, mgr>>
    /\ begun' = tso
    /\ phase' = "prewrite"
    /\ UNCHANGED <<txnVars, serverVars, req, batch, undet, cancelled, onePCTS, commitTS, result, res>>

(* PD does not answer, or lags behind waitUntil for too long, or the       *)
(* schema changed: an error before anything is sent.                       *)
ExecuteFails ==
    /\ phase = "idle"
    /\ async' = checkAsyncCommit /\ onePC' = checkOnePC
    /\ async' \/ onePC'
    /\ result' = "error" /\ phase' = IF onePC' THEN "done" ELSE "cleanup"
    /\ begun' = tso
    /\ UNCHANGED <<tso, mgr, txnVars, serverVars, req, batch, undet, cancelled, onePCTS, commitTS, res>>

(* buildPrewriteRequest: a batch is sent, or built and sent again after a  *)
(* region error, with the protocol flags of that moment.                   *)
SendPrewrite(k) ==
    /\ phase = "prewrite" /\ ~cancelled
    /\ batch[k] \in {"unsent", "sent"}
    /\ batch' = [batch EXCEPT ![k] = "sent"]
    /\ req' = [req EXCEPT ![k] = @ \cup
         {[async |-> async, onePC |-> onePC, min |-> LargestOf(mgr, StartTS + 1)]}]
    /\ req' # req
    /\ UNCHANGED <<tso, serverVars, phase, flagVars, undet, cancelled, onePCTS, commitTS,
                   result, txnVars, begun, res>>

(* handleSingleBatchSucceed: the answer carries the minCommitTS of an      *)
(* async-commit lock, the version a 1PC committed at, or 0 for neither.    *)
PrewriteSucceed(k) ==
    /\ phase = "prewrite" /\ batch[k] = "sent"
    /\ resp[k] # -1
    /\ \E min \in {resp[k]} \cup ({write[k]} \ {-1, 0}) :
          IF onePC
            THEN /\ onePC' = (min # 0)
                 /\ async' = (async /\ min # 0)
                 /\ onePCTS' = min
                 /\ UNCHANGED mgr
            ELSE /\ async' = (async /\ min # 0)
                 /\ mgr' = IF async THEN LargestOf(mgr, min) ELSE mgr
                 /\ UNCHANGED <<onePC, onePCTS>>
    /\ batch' = [batch EXCEPT ![k] = "ok"]
    /\ UNCHANGED <<tso, serverVars, phase, req, undet, cancelled, commitTS, result, txnVars, begun, res>>

BatchFails_NotUndetermined(k, rpcError) ==
    /\ phase = "prewrite" /\ batch[k] \in {"unsent", "sent"}
    /\ batch' = [batch EXCEPT ![k] = "err"]
    /\ cancelled' = TRUE
    /\ UNCHANGED <<tso, serverVars, phase, flagVars, req, undet, onePCTS, commitTS, result, txnVars, begun,
                   res>>

(* A batch fails.  After an RPC error the request may yet run, so the      *)
(* result is undetermined, unless an earlier failure cancelled the batch.  *)
(* Any other error is the server refusing the write.                       *)
BatchFails(k, rpcError) ==
    /\ phase = "prewrite" /\ batch[k] \in {"unsent", "sent"}
    /\ batch' = [batch EXCEPT ![k] = "err"]
    /\ undet' = (undet \/ (rpcError /\ (async \/ onePC) /\ ~cancelled))
    /\ cancelled' = TRUE
    /\ UNCHANGED <<tso, serverVars, phase, flagVars, req, onePCTS, commitTS, result, txnVars, begun, res>>

PrewriteRefused(k) == batch[k] = "sent" /\ write[k] = 0 /\ BatchFails(k, FALSE)
PrewriteRPCError(k) == batch[k] = "sent" /\ BatchFails(k, TRUE)
PrewriteCancelled(k) == cancelled /\ BatchFails(k, FALSE)

(* A conflict or a lock of another transaction keeps the write out for     *)
(* good: what was sent for k no longer has an effect.                      *)
PrewriteConflict(k) ==
    /\ phase = "prewrite" /\ batch[k] = "sent" /\ ~lock[k].held /\ write[k] = -1
    /\ batch' = [batch EXCEPT ![k] = "err"]
    /\ cancelled' = TRUE
    /\ req' = [req EXCEPT ![k] = {}]
    /\ UNCHANGED <<tso, serverVars, phase, flagVars, undet, onePCTS, commitTS, result, txnVars, begun, res>>

(* handleRegionErr: the server does not know whether the write was         *)
(* applied.  The error is returned, but undeterminedErr is not set.        *)
PrewriteUndeterminedResult(k) ==
    /\ "UndeterminedResult" \in Env \/ onePC
    /\ batch[k] = "sent" /\ (async \/ onePC)
    /\ phase = "prewrite"
    /\ batch' = [batch EXCEPT ![k] = "err"]
    /\ cancelled' = TRUE
    /\ result' = "undetermined"
    /\ UNCHANGED <<tso, serverVars, phase, flagVars, req, undet, onePCTS, commitTS, txnVars, begun, res>>

(* The deferred function of execute(): with an error and no undetermined   *)
(* error, the keys are rolled back in the background, except those of 1PC. *)
Leave(err) ==
    /\ result' = IF result # "none" THEN result ELSE err
    /\ phase' = IF undet \/ onePC THEN "done" ELSE "cleanup"

(* prewriteMutations returned an error. *)
PrewriteFail ==
    /\ phase = "prewrite"
    /\ \A k \in keys : batch[k] \in {"ok", "err"}
    /\ \E k \in keys : batch[k] = "err"
    /\ Leave(IF undet THEN "undetermined" ELSE "error")
    /\ UNCHANGED <<tso, serverVars, flagVars, req, batch, undet, cancelled, onePCTS, commitTS,
                   txnVars, begun, res>>

Prewritten == phase = "prewrite" /\ \A k \in keys : batch[k] = "ok"

(* 1PC: prewriting was the commit. *)
OnePCCommit ==
    /\ Prewritten /\ onePC
    /\ commitTS' = onePCTS
    /\ result' = "ok" /\ phase' = "done"
    /\ UNCHANGED <<tso, serverVars, flagVars, req, batch, undet, cancelled, onePCTS, txnVars, begun, res>>

(* Async commit: the commit version is the largest minCommitTS; success is *)
(* returned at once and the locks are committed in the background.         *)
AsyncCommitted ==
    /\ Prewritten /\ async /\ ~onePC
    /\ commitTS' = mgr
    /\ result' = "ok" /\ phase' = "commit"
    /\ UNCHANGED <<tso, serverVars, flagVars, req, batch, undet, cancelled, onePCTS, txnVars, begun, res>>

(* The transaction took more than MaxTxnTimeUse: an error, whatever the    *)
(* protocol.                                                               *)
TakesTooLong ==
    /\ "TooLong" \in Env \/ ~async
    /\ Prewritten /\ ~onePC
    /\ commitTS' = IF async THEN mgr ELSE commitTS
    /\ Leave("error")
    /\ UNCHANGED <<tso, serverVars, flagVars, req, batch, undet, cancelled, onePCTS, txnVars, begun, res>>

(* Fallback to two-phase commit: a commit version from PD, the schema is   *)
(* checked again (a failure cleans up), then the primary is committed.     *)
FallbackCommit ==
    /\ Prewritten /\ ~async /\ ~onePC /\ GetTimestampForCommit <= MaxTS
    /\ tso' = GetTimestampForCommit
    /\ commitTS' = tso'
    /\ phase' = "commit"
    /\ UNCHANGED <<serverVars, flagVars, req, batch, undet, cancelled, onePCTS, result, txnVars, begun, res>>

(* The schema check, or the request for a commit version, fails. *)
FallbackSchemaFail ==
    /\ Prewritten /\ ~async /\ ~onePC
    /\ Leave("error")
    /\ UNCHANGED <<tso, serverVars, flagVars, req, batch, undet, cancelled, onePCTS, commitTS,
                   txnVars, begun, res>>

(* The server runs a commit.  In two-phase commit the primary comes first  *)
(* and its success is what Commit() waits for.                             *)
CommitKey(k) ==
    /\ phase = "commit" /\ lock[k].held /\ lock[k].min <= commitTS
    /\ async \/ k = Primary \/ result = "ok"
    /\ Settle(k, commitTS)
    /\ result' = "ok"
    /\ UNCHANGED <<tso, maxTS, missed, resp, phase, flagVars, req, batch, undet, cancelled, onePCTS,
                   commitTS, txnVars, begun, res>>

(* The primary's lock is gone, which only a rollback explains. *)
CommitPrimaryNotFound ==
    /\ phase = "commit" /\ result = "none"
    /\ ~lock[Primary].held
    /\ Leave("error")
    /\ UNCHANGED <<tso, serverVars, flagVars, req, batch, undet, cancelled, onePCTS, commitTS,
                   txnVars, begun, res>>

(* cleanup(): BatchRollback, the primary first; a committed key stops it. *)
CleanupKey(k) ==
    /\ phase = "cleanup"
    /\ k = Primary \/ write[Primary] = 0
    /\ write[k] <= 0
    /\ lock' = [lock EXCEPT ![k] = NoLock]
    /\ write' = [write EXCEPT ![k] = 0]
    /\ UNCHANGED <<tso, maxTS, missed, resp, clientVars, res>>

(* The client stops for good. *)
Crash ==
    /\ "Crash" \in Env /\ phase \notin {"idle", "done"}
    /\ phase' = "done"
    /\ UNCHANGED <<tso, serverVars, flagVars, req, batch, undet, cancelled, onePCTS, commitTS,
                   result, txnVars, begun, res>>

-----------------------------------------------------------------------------
(* The resolvers. *)

Set(r, new) == res' = [res EXCEPT ![r] = new]

Resolving(ts, ks) ==
    [pc |-> "resolve", commitTs |-> ts, missing |-> FALSE, keys |-> ks, todo |-> {}, err |-> FALSE]

(* CheckTxnStatus finds the async-commit lock of the primary: its status   *)
(* is worked out from the secondaries.  checkAllSecondaries starts.        *)
CheckAsyncPrimary(r) ==
    /\ res[r].pc = "idle"
    /\ lock[Primary].held /\ lock[Primary].async
    /\ Set(r, [Idle EXCEPT !.pc = "check", !.commitTs = lock[Primary].min, !.todo = Secondaries])
    /\ UNCHANGED <<tso, serverVars, clientVars>>

(* CheckTxnStatus on a primary that is not locked by async commit, or one  *)
(* that is checked with forceSyncCommit: a lock that expired is rolled     *)
(* back; a missing one is protected by a rollback record; the status is    *)
(* what the record says.                                                   *)
CheckSyncPrimary(r) ==
    /\ \/ res[r].pc = "force"
       \/ /\ res[r].pc = "idle"
          /\ \E k \in keys : lock[k].held
          /\ ~(lock[Primary].held /\ lock[Primary].async)
    /\ lock' = [lock EXCEPT ![Primary] = NoLock]
    /\ write' = [write EXCEPT ![Primary] = IF lock[Primary].held \/ @ = -1 THEN 0 ELSE @]
    /\ Set(r, Resolving(write'[Primary], keys))
    /\ UNCHANGED <<tso, maxTS, missed, resp, clientVars>>

(* addKeys: what one secondary tells.  A missing lock means the            *)
(* transaction is committed at ts, or rolled back (ts = 0); the first one  *)
(* decides and the others must agree.                                      *)
addKeysMissing(d, k, ts) ==
    IF (~d.missing /\ ts # 0 /\ ts < d.commitTs) \/ (d.missing /\ d.commitTs # ts)
      THEN [d EXCEPT !.err = TRUE]
      ELSE [d EXCEPT !.commitTs = ts, !.missing = TRUE, !.todo = @ \ {k}]

addKeysPresent_PrimaryOnly(d, k, min) ==
    [d EXCEPT !.keys = @ \cup {k}, !.todo = @ \ {k}]

addKeysPresent(d, k, min) ==
    [d EXCEPT !.commitTs = IF d.missing THEN @ ELSE LargestOf(@, min),
              !.keys = @ \cup {k}, !.todo = @ \ {k}]

(* checkSecondaries for one region.  A lock that does not use async commit *)
(* sends the resolver back to the primary with forceSyncCommit.            *)
CheckSecondary(r, k) ==
    /\ res[r].pc = "check" /\ k \in res[r].todo /\ ~res[r].err
    /\ ProtectKey(k)
    /\ Set(r, IF ~lock[k].held THEN addKeysMissing(res[r], k, write'[k])
              ELSE IF lock[k].async THEN addKeysPresent(res[r], k, lock[k].min)
              ELSE [Idle EXCEPT !.pc = "force"])
    /\ UNCHANGED <<tso, maxTS, missed, resp, lock, clientVars>>

(* resolveAsyncCommitLock: all secondaries answered; the status is         *)
(* determined and the keys found locked, and the primary, are resolved.    *)
DetermineStatus(r) ==
    /\ res[r].pc = "check" /\ res[r].todo = {}
    /\ Set(r, Resolving(res[r].commitTs, res[r].keys \cup {Primary}))
    /\ UNCHANGED <<tso, serverVars, clientVars>>

(* resolveRegionLocks: ResolveLock on one key. *)
ResolveKey(r, k) ==
    /\ res[r].pc = "resolve" /\ k \in res[r].keys
    /\ Settle(k, res[r].commitTs)
    /\ Set(r, [res[r] EXCEPT !.keys = @ \ {k}])
    /\ UNCHANGED <<tso, maxTS, missed, resp, clientVars>>

(* Done, or given up after an error: another lock may be met later. *)
ResolverReset(r) ==
    /\ res[r].pc # "idle" /\ ~res[r].err
    /\ Set(r, Idle)
    /\ UNCHANGED <<tso, serverVars, clientVars>>

-----------------------------------------------------------------------------

(* Another client takes a timestamp. *)
Tick ==
    /\ tso < MaxTS
    /\ tso' = tso + 1
    /\ UNCHANGED <<serverVars, clientVars, res>>

Next ==
    \/ Tick
    \/ \E k \in keys, ts \in 1 .. tso : Read(k, ts)
    \/ Execute \/ ExecuteFails
    \/ \E k \in keys :
          \/ SendPrewrite(k) \/ Prewrite(k) \/ PrewriteSucceed(k)
          \/ PrewriteRefused(k) \/ PrewriteRPCError(k) \/ PrewriteCancelled(k)
          \/ PrewriteConflict(k) \/ PrewriteUndeterminedResult(k)
          \/ CommitKey(k) \/ CleanupKey(k)
    \/ PrewriteFail \/ OnePCCommit \/ AsyncCommitted \/ TakesTooLong
    \/ FallbackCommit \/ FallbackSchemaFail \/ CommitPrimaryNotFound \/ Crash
    \/ \E r \in Resolver :
          \/ CheckAsyncPrimary(r) \/ CheckSyncPrimary(r) \/ DetermineStatus(r) \/ ResolverReset(r)
          \/ \E k \in Secondaries : CheckSecondary(r, k)
          \/ \E k \in keys : ResolveKey(r, k)

Spec == Init /\ [][Next]_vars

-----------------------------------------------------------------------------
(* All keys are committed at one version, or none of them is: the client,  *)
(* which counts the answers of its prewrites, and the resolvers, which     *)
(* count locks, come to the same version.                                  *)
AtomicAtOneVersion ==
    \A j, k \in keys :
       write[j] > 0 => write[k] # 0 /\ (write[k] > 0 => write[k] = write[j])

(* Success means that nothing of the transaction can be rolled back any    *)
(* more; every record carries the version Commit() reported.               *)
SuccessIsFinal ==
    result = "ok" => \A k \in keys : write[k] = commitTS \/ (lock[k].held /\ lock[k].min <= commitTS)

(* When execute() returns an error, the transaction is not committed and   *)
(* never will be.                                                          *)
ErrorMeansNotCommitted ==
    result = "error" \/ phase = "cleanup" => \A k \in keys : write[k] <= 0

(* A read at a version that missed the write stays right: the commit       *)
(* version is larger, although nobody asked PD for it after the locks.     *)
ReadsStayRight == \A k \in keys : write[k] > 0 => missed[k] < write[k]

(* The commit version is above every timestamp that was issued before      *)
(* Commit() was called and above the one the application waits for, and    *)
(* the next timestamp issued can see it.                                   *)
Linearizable ==
    /\ \A k \in keys : write[k] > 0 => begun < write[k] /\ opt.waitUntil < write[k]
    /\ result = "ok" => commitTS <= tso + 1

(* Without a second schema check, commit versions stay in the schema       *)
(* lease, also when the transaction is committed by a resolver.            *)
WithinSchemaLease ==
    \A k \in keys : write[k] > MaxCommitTS => ~async

(* addKeys never meets versions that contradict each other. *)
NoMismatch == \A r \in Resolver : ~res[r].err

(* Client and resolvers come to one decision, and to one version: prewrite *)
(* and commit of 2pc.go, checkAllSecondaries and addKeys of the resolver.  *)
OneDecision == TypeOK /\ AtomicAtOneVersion /\ NoMismatch

(* What Commit() returns is true and stays true: success is final, and an  *)
(* error that is not "undetermined" means never committed.                 *)
ResultHonest == SuccessIsFinal /\ ErrorMeansNotCommitted

(* The version that the stores and the client agree on without asking PD   *)
(* is right for readers, for later transactions and for the schema lease.  *)
CommitTSRight == ReadsStayRight /\ Linearizable /\ WithinSchemaLease


-----------------------------------------------------------------------------
(* Why it is right.  resp[k] is written once, by the prewrite that runs, so *)
(* it remembers what that prewrite did when the lock is gone.               *)

Before == {"idle", "prewrite"}

(* The next timestamp PD issues, if nobody waits for a later one.          *)
NextTS == tso + 1

(* A key got a plain lock, which rules out a decision by the locks.        *)
Sync == \E k \in keys : resp[k] = 0

(* A key was barred before its prewrite ran: by a rollback record, or by a *)
(* conflict after which it is not sent again.                              *)
Dead == \E k \in keys : resp[k] = -1 /\ write[k] = 0
Barred ==
    \E k \in keys : resp[k] = -1 /\ req[k] = {} /\ (batch[k] = "err" \/ phase \notin Before)

(* Every prewrite that ran or may run leaves a plain lock.                 *)
Plain == \A k \in keys : resp[k] <= 0 /\ \A q \in req[k] : ~q.async /\ ~q.onePC

(* Only a commit of the primary can commit it, if anything still can.      *)
NotByLocks == Dead \/ Barred \/ Sync \/ Plain

(* The commit version came from PD after all keys were prewritten.         *)
Fallback == ~async /\ ~onePC /\ commitTS > 0

RolledBack == Dead \/ Barred \/ (Sync /\ write[Primary] = 0)
CommittedByLocks(v) == (\A k \in keys : resp[k] \in 1 .. v) /\ \E k \in keys : resp[k] = v
CommittedByPrimary(v) == Fallback /\ v = commitTS /\ write[Primary] = v
Committed(v) == CommittedByLocks(v) \/ CommittedByPrimary(v)

(* A record says what the whole transaction came to.                       *)
RecordsTell ==
    \A k \in keys : (write[k] > 0 => Committed(write[k])) /\ (write[k] = 0 => RolledBack)

(* Timestamps are at most one ahead of PD.                                 *)
Clocks ==
    /\ StartTS <= tso /\ tso <= MaxTS /\ begun <= tso /\ mgr <= NextTS
    /\ \A k \in keys : missed[k] <= maxTS[k] /\ maxTS[k] <= tso /\ resp[k] <= NextTS

(* A prewrite that may calculate the commit version carries a minCommitTS  *)
(* above what was issued before Commit() was called.                       *)
RequestsAbove ==
    \A k \in keys : \A q \in req[k] :
       /\ q.min > 0 /\ q.min <= NextTS
       /\ q.async \/ q.onePC => begun < q.min /\ opt.waitUntil < q.min
       /\ q.onePC => keys = {Primary}
       /\ onePC => q.onePC

(* What a prewrite answered, and what it left.                             *)
PrewritesTell ==
    \A k \in keys :
       /\ lock[k].held => /\ write[k] = -1 /\ resp[k] # -1 /\ lock[k].min <= NextTS
                          /\ (lock[k].async <=> resp[k] > 0)
                          /\ (lock[k].async => lock[k].min = resp[k])
       /\ ~lock[k].held /\ resp[k] # -1 => write[k] >= 0
       /\ ~lock[k].held /\ resp[k] = -1 => write[k] <= 0
       /\ resp[k] > 0 => begun < resp[k] /\ opt.waitUntil < resp[k] /\ resp[k] <= MaxCommitTS
       /\ resp[k] > 0 /\ onePC => write[k] = resp[k]
       /\ batch[k] = "ok" => resp[k] # -1

(* A read that did not see the write was at a smaller version.             *)
ReadsBelow ==
    \A k \in keys : /\ write[k] > 0 => missed[k] < write[k]
                    /\ lock[k].held /\ lock[k].async => missed[k] < resp[k]

(* Nothing has happened before execute().                                  *)
FreshBefore ==
    phase = "idle" =>
       /\ ~async /\ ~onePC /\ ~undet /\ ~cancelled
       /\ \A k \in keys : resp[k] = -1 /\ req[k] = {} /\ batch[k] = "unsent"

(* The protocol in use, and the version it is going to commit at.          *)
ProtocolKnown ==
    /\ phase \in Before => commitTS = 0
    /\ onePC => keys = {Primary}
    /\ phase = "prewrite" /\ (async \/ onePC) => begun < mgr /\ opt.waitUntil < mgr
    /\ phase # "idle" /\ ~async /\ ~onePC => Sync \/ Plain
    /\ phase = "prewrite" /\ onePC /\ batch[Primary] = "ok" => onePCTS > 0 /\ write[Primary] = onePCTS

(* minCommitTSMgr is the largest answer, or no answer is smaller.          *)
MgrIsLargest ==
    phase = "prewrite" /\ async /\ ~onePC =>
       /\ \A k \in keys : batch[k] = "ok" => 0 < resp[k] /\ resp[k] <= mgr
       /\ \/ \E k \in keys : resp[k] = mgr
          \/ \A k \in keys : (resp[k] > 0 => mgr <= resp[k]) /\ \A q \in req[k] : mgr <= q.min

(* The version from PD is above all that the keys promised to readers.     *)
FallbackIsLarge ==
    Fallback =>
       /\ Sync /\ begun < commitTS /\ opt.waitUntil < commitTS /\ commitTS <= tso
       /\ \A k \in keys :
             /\ resp[k] # -1 /\ resp[k] <= commitTS
             /\ lock[k].held => lock[k].min <= commitTS /\ missed[k] < commitTS

(* A batch fails only when the locks cannot decide, or it is not known.    *)
FailuresKnown ==
    /\ cancelled => undet \/ result = "undetermined" \/ NotByLocks
    /\ \A k \in keys : batch[k] = "err" => cancelled
    /\ phase \in Before /\ result # "none" =>
          phase = "prewrite" /\ result = "undetermined" /\ onePC /\ batch[Primary] = "err"

(* What the committer has decided.                                         *)
DecisionKnown ==
    /\ phase = "commit" => \/ async /\ ~onePC /\ result = "ok"
                           \/ Fallback /\ result \in {"none", "ok"} /\ (result = "ok" <=> write[Primary] > 0)
    /\ result = "ok" => phase \in {"commit", "done"} /\ Committed(commitTS) /\ commitTS <= NextTS
    /\ result = "error" \/ phase = "cleanup" =>
          phase \in {"cleanup", "done"} /\ NotByLocks /\ \A k \in keys : write[k] <= 0

(* What a resolver has worked out.                                         *)
Found(d) ==
    /\ \A k \in keys \ d.todo : resp[k] \in 1 .. d.commitTs
    /\ \E k \in keys : resp[k] = d.commitTs
Outcome(ts) == IF ts = 0 THEN RolledBack ELSE Committed(ts)
Knows(d) ==
    /\ ~d.err
    /\ d.pc = "check" /\ ~d.missing => d.commitTs > 0 /\ Found(d)
    /\ d.pc = "force" => Sync
    /\ d.pc = "resolve" \/ (d.pc = "check" /\ d.missing) => Outcome(d.commitTs)

ResolversKnow == \A r \in Resolver : Knows(res[r])

IndInv ==
    /\ TypeOK /\ RecordsTell /\ Clocks /\ RequestsAbove /\ PrewritesTell /\ ReadsBelow
    /\ FreshBefore /\ ProtocolKnown /\ MgrIsLargest /\ FallbackIsLarge
    /\ FailuresKnown /\ DecisionKnown /\ ResolversKnow

=============================================================================
