----------------------------- MODULE PipelinedTxn -----------------------------
(***************************************************************************)
(* A pipelined transaction: the application writes into a memory buffer    *)
(* that a background goroutine flushes to the stores, generation after     *)
(* generation, as locks of the transaction (PipelinedMemDB of              *)
(* internal/unionstore, InitPipelinedMemDB, Commit and Rollback in         *)
(* txnkv/transaction/txn.go, pipelined_flush.go).  Commit flushes the      *)
(* rest, commits the primary and lets a range task (txnkv/rangetask)       *)
(* resolve the other locks, region by region; Rollback and a failed Commit *)
(* do the same with the opposite status.                                   *)
(*                                                                         *)
(* The server side of a flush is not in this repository: a flush writes a  *)
(* lock, unless the key has a lock of a later generation or a record of    *)
(* this transaction.  Requests may run late, and more than once.  One key  *)
(* per batch.                                                              *)
(***************************************************************************)
EXTENDS Integers, FiniteSets, FiniteSetsExt

CONSTANTS
    NKeys,      \* keys are 1..NKeys
    Entries,    \* the entries the application writes, see AllEntries
    Prefetch,   \* the keys the application reads with BatchGet
    MaxWrites,  \* bound on writes
    MaxGen,     \* bound on the flushes before Commit
    Admit       \* "prefetchInStage": see BatchGet

Keys == 1 .. NKeys
Nil == <<>>

(* Entries of a memory buffer: a put of "a" or "b", an insert (of "a", by  *)
(* its flags), a delete, and deletes of a key inserted in the same buffer: *)
(* checked not to exist when flushed, or skipped.                          *)
AllEntries == {"a", "b", "ins", "del", "cne", "skip"}

ASSUME ConstantsAssumption ==
    /\ NKeys \in Nat \ {0} /\ MaxWrites \in Nat /\ MaxGen \in Nat
    /\ Entries \subseteq AllEntries /\ Prefetch \subseteq Keys
    /\ Admit \subseteq {"prefetchInStage"}

VARIABLES
    mem,       \* the mutable memdb
    stage,     \* Nil, or what Cleanup of the open stage restores
    flushing,  \* flushingMemDB, or Nil
    cache,     \* batchGetCache
    gen,       \* generation
    fl,        \* the flush goroutine
    errCh,     \* the channel by which it reports: "none", "ok", "err"
    ttl,       \* ttlManager: "uninit", "running", "closed"
    primary,   \* the primary key, 0 if none
    lo, hi,    \* pipelinedStart and pipelinedEnd, 0 if empty
    app,       \* where the application's goroutine is
    reqs,      \* flush requests sent
    ran,       \* those that ran
    creq,      \* the commit request of the primary was sent
    lock,      \* lock[k]: the transaction's lock on k
    rec,       \* rec[k]: "none", "rollback", or the entry that was committed
    res,       \* the range task that resolves the locks, with the regions
               \* (the keys at which one begins) and the keys locked late
    own,       \* history: what the application wrote last
    writes     \* number of writes

memVars == <<mem, stage, cache, own, writes>>
flushVars == <<flushing, gen, fl, errCh>>
txnVars == <<ttl, primary, lo, hi>>
storeVars == <<reqs, ran, creq, lock, rec>>
vars == <<memVars, flushVars, txnVars, app, storeVars, res>>

Entry == AllEntries \cup {"none"}
Value == [a |-> "a", b |-> "b", ins |-> "a", del |-> "tomb", cne |-> "tomb", skip |-> "tomb",
          none |-> "none"]
Values == {"a", "b", "tomb", "none"}
EmptyDB == [k \in Keys |-> "none"]
NoCache == [k \in Keys |-> "unknown"]
NoLock == [gen |-> 0, entry |-> "none", primary |-> 0]
NoFlush == [pc |-> "idle", batch |-> EmptyDB, failed |-> FALSE]
NoTask == [pc |-> "idle", commit |-> FALSE, tasks |-> {}, bounds |-> {}, late |-> {}]
Waiting == {"flush", "commitFlush", "commitWait", "rollbackWait"}

TypeOK ==
    /\ mem \in [Keys -> Entry] /\ own \in [Keys -> Entry]
    /\ stage = Nil \/ stage \in [Keys -> Entry] \X [Keys -> Entry]
    /\ flushing = Nil \/ flushing \in [Keys -> Entry]
    /\ cache \in [Keys -> Values \cup {"unknown"}]
    /\ gen \in 0 .. MaxGen + 1 /\ writes \in 0 .. MaxWrites
    /\ fl.pc \in {"idle", "start", "send", "end"} /\ fl.failed \in BOOLEAN
    /\ fl.batch \in [Keys -> {"none", "todo", "sent", "ok", "err"}]
    /\ errCh \in {"none", "ok", "err"} /\ ttl \in {"uninit", "running", "closed"}
    /\ primary \in Keys \cup {0} /\ lo \in Keys \cup {0} /\ hi \in Keys \cup {0} /\ lo <= hi
    /\ app \in Waiting \cup {"open", "failed", "committing", "commitSent", "committed", "error",
                             "undetermined", "rolledback"}
    /\ ran \subseteq reqs /\ creq \in BOOLEAN
    /\ \A q \in reqs : q.key \in Keys /\ q.gen \in 1 .. gen /\ q.primary \in Keys
    /\ \A k \in Keys : lock[k] # NoLock =>
          [key |-> k, gen |-> lock[k].gen, entry |-> lock[k].entry, primary |-> lock[k].primary] \in ran
    /\ rec \in [Keys -> Entry \cup {"rollback"}]
    /\ res.pc \in {"idle", "run", "done", "failed"} /\ res.commit \in BOOLEAN
    /\ res.bounds \subseteq 2 .. NKeys /\ res.late \subseteq Keys

Init ==
    /\ mem = EmptyDB /\ stage = Nil /\ cache = NoCache /\ own = EmptyDB /\ writes = 0
    /\ flushing = Nil /\ gen = 0 /\ fl = NoFlush /\ errCh = "none"
    /\ ttl = "uninit" /\ primary = 0 /\ lo = 0 /\ hi = 0
    /\ app = "open"
    /\ reqs = {} /\ ran = {} /\ creq = FALSE
    /\ lock = [k \in Keys |-> NoLock] /\ rec = [k \in Keys |-> "none"]
    /\ res = NoTask

-----------------------------------------------------------------------------
(* Reads and writes of the application. *)

(* The flags that decide what a write becomes live in the memdb of the     *)
(* generation.  The application inserts what it sees to be absent, as a    *)
(* first write of the generation: the flags of an insert over a delete of  *)
(* the same buffer would hide the delete.                                  *)
Writable(k, e) ==
    CASE e \in {"cne", "skip"} -> mem[k] = "ins"
      [] e = "ins"             -> mem[k] = "none" /\ Value[own[k]] \in {"none", "tomb"}
      [] OTHER                 -> mem[k] \notin {"ins", "cne", "skip"}

Set(k, e) ==
    /\ app = "open" /\ writes < MaxWrites
    /\ Writable(k, e)
    /\ mem' = [mem EXCEPT ![k] = e]
    /\ own' = [own EXCEPT ![k] = e]
    /\ writes' = writes + 1
    /\ UNCHANGED <<stage, cache, flushVars, txnVars, app, storeVars, res>>

Staging ==
    /\ app = "open" /\ stage = Nil
    /\ stage' = <<mem, own>>
    /\ UNCHANGED <<mem, cache, own, writes, flushVars, txnVars, app, storeVars, res>>

Release ==
    /\ app = "open" /\ stage # Nil
    /\ stage' = Nil
    /\ UNCHANGED <<mem, cache, own, writes, flushVars, txnVars, app, storeVars, res>>

Cleanup ==
    /\ app = "open" /\ stage # Nil
    /\ mem' = stage[1] /\ own' = stage[2]
    /\ stage' = Nil
    /\ UNCHANGED <<cache, writes, flushVars, txnVars, app, storeVars, res>>

(* The value in the transaction's lock, read from the store. *)
bufferBatchGetter(k) == Value[lock[k].entry]

GetLocal(k) ==
    IF mem[k] # "none" \/ flushing = Nil THEN Value[mem[k]] ELSE Value[flushing[k]]

Get(k) ==
    IF GetLocal(k) # "none" THEN GetLocal(k)
    ELSE IF cache[k] # "unknown" THEN cache[k] ELSE bufferBatchGetter(k)

(* BatchGet caches what it finds; if the read of the store fails, only     *)
(* what it found in memory.  The ordinary case does not prefetch a key     *)
(* that the open stage has written.                                        *)
BatchGet(ks, ok) ==
    /\ app = "open"
    /\ stage # Nil /\ (\E k \in ks : mem[k] # stage[1][k]) => "prefetchInStage" \in Admit
    /\ cache' = [k \in Keys |-> IF k \notin ks THEN cache[k]
                                ELSE IF GetLocal(k) # "none" THEN GetLocal(k)
                                ELSE IF ok THEN bufferBatchGetter(k) ELSE cache[k]]
    /\ UNCHANGED <<mem, stage, own, writes, flushVars, txnVars, app, storeVars, res>>

-----------------------------------------------------------------------------
(* Flush, in the application's goroutine. *)

(* Nothing is flushed: a stage is open, or the memdb is small, or a flush  *)
(* is going on and the memdb may still grow.                               *)
FlushNothing ==
    /\ app = "open"
    /\ cache' = NoCache
    /\ UNCHANGED <<mem, stage, own, writes, flushVars, txnVars, app, storeVars, res>>

(* Faulty: what was read before the flush stays in the cache. *)
CallFlush_KeepsCache ==
    /\ app = "open" /\ stage = Nil /\ gen < MaxGen
    /\ app' = "flush"
    /\ UNCHANGED <<memVars, flushVars, txnVars, storeVars, res>>

CallFlush ==
    /\ app = "open" /\ stage = Nil /\ gen < MaxGen
    /\ cache' = NoCache
    /\ app' = "flush"
    /\ UNCHANGED <<mem, stage, own, writes, flushVars, txnVars, storeVars, res>>

(* No flush is going on, or the one before succeeded: the memdb is handed  *)
(* to a new goroutine.                                                     *)
Flush_SameGeneration ==
    /\ app \in {"flush", "commitFlush"}
    /\ flushing = Nil \/ errCh = "ok"
    /\ errCh' = "none"
    /\ flushing' = mem /\ mem' = EmptyDB
    /\ gen' = IF gen = 0 THEN 1 ELSE gen
    /\ fl' = [NoFlush EXCEPT !.pc = "start"]
    /\ app' = IF app = "flush" THEN "open" ELSE "commitWait"
    /\ UNCHANGED <<stage, cache, own, writes, txnVars, storeVars, res>>

Flush ==
    /\ app \in {"flush", "commitFlush"}
    /\ flushing = Nil \/ errCh = "ok"
    /\ errCh' = "none"
    /\ flushing' = mem /\ mem' = EmptyDB
    /\ gen' = gen + 1
    /\ fl' = [NoFlush EXCEPT !.pc = "start"]
    /\ app' = IF app = "flush" THEN "open" ELSE "commitWait"
    /\ UNCHANGED <<stage, cache, own, writes, txnVars, storeVars, res>>

-----------------------------------------------------------------------------
(* The flush goroutine. *)

Mutations == {k \in Keys : flushing[k] \notin {"none", "skip"}}
Lockable == {k \in Keys : flushing[k] \notin {"none", "skip", "cne"}}

FlushRefused ==
    /\ fl.pc = "start" /\ ttl = "closed"
    /\ fl' = [fl EXCEPT !.pc = "end", !.failed = TRUE]
    /\ UNCHANGED <<memVars, flushing, gen, errCh, txnVars, app, storeVars, res>>

FlushEmpty ==
    /\ fl.pc = "start" /\ ttl # "closed" /\ flushing = EmptyDB
    /\ fl' = [fl EXCEPT !.pc = "end"]
    /\ UNCHANGED <<memVars, flushing, gen, errCh, txnVars, app, storeVars, res>>

(* The bounds cover every key of every generation. *)
updateBounds ==
    LET ks == {k \in Keys : flushing[k] # "none"}
    IN  /\ lo' = IF lo = 0 THEN Min(ks) ELSE Min(ks \cup {lo})
        /\ hi' = Max(ks \cup {hi})

(* The first key that will be locked is the primary of the transaction. *)
choosePrimary == IF primary # 0 \/ Lockable = {} THEN primary ELSE Min(Lockable)

FlushFunc ==
    /\ fl.pc = "start" /\ ttl # "closed" /\ flushing # EmptyDB
    /\ updateBounds
    /\ primary' = choosePrimary
    /\ fl' = [fl EXCEPT !.pc = "send",
                        !.batch = [k \in Keys |-> IF k \in Mutations THEN "todo" ELSE "none"]]
    /\ UNCHANGED <<memVars, flushing, gen, errCh, ttl, app, storeVars, res>>

Request(k) == [key |-> k, gen |-> gen, entry |-> flushing[k], primary |-> primary]

SendFlush(k) ==
    /\ fl.pc = "send" /\ fl.batch[k] = "todo" /\ primary # 0
    /\ reqs' = reqs \cup {Request(k)}
    /\ fl' = [fl EXCEPT !.batch[k] = "sent"]
    /\ UNCHANGED <<memVars, flushing, gen, errCh, txnVars, app, ran, creq, lock, rec, res>>

(* The lock on the primary is kept alive once it is written. *)
FlushOk(k) ==
    /\ fl.pc = "send" /\ fl.batch[k] = "sent" /\ Request(k) \in ran
    /\ fl' = [fl EXCEPT !.batch[k] = "ok"]
    /\ ttl' = IF k = primary /\ ttl = "uninit" THEN "running" ELSE ttl
    /\ UNCHANGED <<memVars, flushing, gen, errCh, primary, lo, hi, app, storeVars, res>>

(* No primary yet, a conflict, a key that exists, a failed request, or     *)
(* canceled after the failure of another batch or by Rollback.             *)
FlushFails(k) ==
    /\ fl.pc = "send" /\ fl.batch[k] \in {"todo", "sent"}
    /\ fl' = [fl EXCEPT !.batch[k] = "err", !.failed = TRUE]
    /\ UNCHANGED <<memVars, flushing, gen, errCh, txnVars, app, storeVars, res>>

FlushFlushed ==
    /\ fl.pc = "send" /\ \A k \in Keys : fl.batch[k] \in {"none", "ok", "err"}
    /\ fl' = [fl EXCEPT !.pc = "end"]
    /\ UNCHANGED <<memVars, flushing, gen, errCh, txnVars, app, storeVars, res>>

close == IF ttl = "running" THEN "closed" ELSE ttl

FlushReport_Silent ==
    /\ fl.pc = "end"
    /\ ttl' = IF fl.failed THEN close ELSE ttl
    /\ errCh' = IF fl.failed THEN "err" ELSE errCh
    /\ fl' = NoFlush
    /\ UNCHANGED <<memVars, flushing, gen, primary, lo, hi, app, storeVars, res>>

(* A failure closes the ttlManager, so that no later flush starts. *)
FlushReport ==
    /\ fl.pc = "end"
    /\ ttl' = IF fl.failed THEN close ELSE ttl
    /\ errCh' = IF fl.failed THEN "err" ELSE "ok"
    /\ fl' = NoFlush
    /\ UNCHANGED <<memVars, flushing, gen, primary, lo, hi, app, storeVars, res>>

(* keepAlive gives up: the lock on the primary is gone, heartbeats keep    *)
(* failing, or the transaction is too old.                                 *)
KeepAliveFails ==
    /\ ttl = "running"
    /\ ttl' = "closed"
    /\ UNCHANGED <<memVars, flushVars, primary, lo, hi, app, storeVars, res>>

-----------------------------------------------------------------------------
(* Commit and Rollback. *)

(* A memdb that is, is being or was flushed has an entry. *)
Dirty == mem # EmptyDB \/ lo # 0 \/ (flushing # Nil /\ flushing # EmptyDB)

(* resolveFlushedLocks, RunOnRange: one task per region of [lo, hi). *)
resolveFlushedLocks(commit) ==
    \E bounds \in SUBSET (2 .. NKeys) :
        LET cuts == {b \in bounds : lo < b /\ b < hi}
        IN  res' = [pc |-> IF lo < hi THEN "run" ELSE "done", commit |-> commit,
                    bounds |-> bounds, late |-> {},
                    tasks |-> IF lo < hi
                                THEN {<<s, Min({b \in cuts \cup {hi} : b > s})>> : s \in cuts \cup {lo}}
                                ELSE {}]

(* The end of a transaction that is not committed. *)
Abort(result) ==
    /\ app' = result
    /\ ttl' = close
    /\ IF lo = 0 THEN UNCHANGED res ELSE resolveFlushedLocks(FALSE)

(* Commit of a transaction that wrote nothing does nothing. *)
Commit ==
    /\ app = "open"
    /\ Dirty /\ stage = Nil
    /\ cache' = NoCache
    /\ app' = "commitFlush"
    /\ UNCHANGED <<mem, stage, own, writes, flushVars, txnVars, storeVars, res>>

(* The error of the flush before reaches Flush. *)
FlushErr ==
    /\ app \in {"flush", "commitFlush"}
    /\ flushing # Nil /\ errCh = "err"
    /\ errCh' = "none"
    /\ flushing' = Nil
    /\ IF app = "flush" THEN app' = "failed" /\ UNCHANGED <<ttl, res>> ELSE Abort("error")
    /\ UNCHANGED <<memVars, gen, fl, primary, lo, hi, reqs, ran, creq, lock, rec>>

(* FlushWait of Commit. *)
CommitWait ==
    /\ app = "commitWait" /\ errCh # "none"
    /\ errCh' = "none"
    /\ flushing' = Nil
    /\ IF errCh = "ok" /\ lo # 0 THEN app' = "committing" /\ UNCHANGED <<ttl, res>>
                                 ELSE Abort("error")
    /\ UNCHANGED <<memVars, gen, fl, primary, lo, hi, reqs, ran, creq, lock, rec>>

(* commitFlushedMutations: a commit version, then the primary. *)
CommitTSFails ==
    /\ app = "committing"
    /\ Abort("error")
    /\ UNCHANGED <<memVars, flushVars, primary, lo, hi, reqs, ran, creq, lock, rec>>

SendCommit ==
    /\ app = "committing"
    /\ creq' = (primary # 0)
    /\ app' = "commitSent"
    /\ UNCHANGED <<memVars, flushVars, txnVars, reqs, ran, lock, rec, res>>

Committed == primary # 0 /\ rec[primary] \notin {"none", "rollback"}

CommitOk ==
    /\ app = "commitSent" /\ Committed
    /\ app' = "committed" /\ ttl' = close
    /\ resolveFlushedLocks(TRUE)
    /\ UNCHANGED <<memVars, flushVars, primary, lo, hi, reqs, ran, creq, lock, rec>>

(* The lock of the primary is not there, for good. *)
CommitRefused ==
    /\ app = "commitSent" /\ (primary # 0 => rec[primary] = "rollback")
    /\ Abort("error")
    /\ UNCHANGED <<memVars, flushVars, primary, lo, hi, reqs, ran, creq, lock, rec>>

CommitUndetermined ==
    /\ app = "commitSent" /\ creq
    /\ app' = "undetermined" /\ ttl' = close
    /\ UNCHANGED <<memVars, flushVars, primary, lo, hi, storeVars, res>>

(* Rollback cancels the requests and waits for the goroutine to report. *)
CallRollback ==
    /\ app \in {"open", "failed"} /\ flushing # Nil
    /\ app' = "rollbackWait"
    /\ UNCHANGED <<memVars, flushVars, txnVars, storeVars, res>>

Rollback ==
    /\ \/ app \in {"open", "failed"} /\ flushing = Nil
       \/ app = "rollbackWait" /\ errCh # "none"
    /\ errCh' = "none" /\ flushing' = Nil
    /\ Abort("rolledback")
    /\ UNCHANGED <<memVars, gen, fl, primary, lo, hi, reqs, ran, creq, lock, rec>>

-----------------------------------------------------------------------------
(* The range task that settles the locks of the transaction. *)

Settled(k, commit) == IF commit THEN lock[k].entry ELSE "rollback"

(* ResolveLock on the keys ks that are locked. *)
ResolveLocks(ks, commit) ==
    /\ rec' = [k \in Keys |-> IF k \in ks /\ lock[k] # NoLock THEN Settled(k, commit) ELSE rec[k]]
    /\ lock' = [k \in Keys |-> IF k \in ks THEN NoLock ELSE lock[k]]

(* The region of the task's first key, as it is now; the rest of the task  *)
(* is left to do if the region has become smaller.                         *)
ResolveRegion(t) ==
    LET ends == {b \in res.bounds : b > t[1]}
        end == IF ends = {} THEN NKeys + 1 ELSE Min(ends)
        begin == Max({1} \cup {b \in res.bounds : b <= t[1]})
        rest == IF ends = {} \/ end >= t[2] THEN {} ELSE {<<end, t[2]>>}
    IN  /\ res.pc = "run" /\ t \in res.tasks
        /\ ResolveLocks(begin .. (end - 1), res.commit)
        /\ res' = [res EXCEPT !.tasks = (@ \ {t}) \cup rest,
                              !.pc = IF (res.tasks \ {t}) \cup rest = {} THEN "done" ELSE @]
        /\ UNCHANGED <<memVars, flushVars, txnVars, app, reqs, ran, creq>>

ResolveGivesUp ==
    /\ res.pc = "run"
    /\ res' = [res EXCEPT !.pc = "failed"]
    /\ UNCHANGED <<memVars, flushVars, txnVars, app, storeVars>>

(* Regions split under the range task. *)
Split(b) ==
    /\ res.pc = "run" /\ b \notin res.bounds
    /\ res' = [res EXCEPT !.bounds = @ \cup {b}]
    /\ UNCHANGED <<memVars, flushVars, txnVars, app, storeVars>>

-----------------------------------------------------------------------------
(* The stores, and the other transactions that meet the locks. *)

(* A check that a key does not exist leaves no lock.  A request that was   *)
(* sent again, as its response was lost, may run again at any time.        *)
RunFlush(q) ==
    /\ ran' = ran \cup {q}
    /\ IF q.entry = "cne" \/ lock[q.key].gen > q.gen \/ rec[q.key] # "none"
         THEN UNCHANGED <<lock, res>>
         ELSE /\ lock' = [lock EXCEPT ![q.key] =
                            [gen |-> q.gen, entry |-> q.entry, primary |-> q.primary]]
              /\ res' = IF res.pc = "idle" \/ lock[q.key] # NoLock THEN res
                        ELSE [res EXCEPT !.late = @ \cup {q.key}]
    /\ UNCHANGED <<memVars, flushVars, txnVars, app, reqs, creq, rec>>

RunCommit ==
    /\ creq /\ lock[primary] # NoLock
    /\ ResolveLocks({primary}, TRUE)
    /\ UNCHANGED <<memVars, flushVars, txnVars, app, reqs, ran, creq, res>>

(* Another transaction finds the primary's lock expired, or missing. *)
OtherRollsBack(k) ==
    /\ lock[k] # NoLock /\ rec[lock[k].primary] = "none"
    /\ rec' = [rec EXCEPT ![lock[k].primary] = "rollback"]
    /\ lock' = [lock EXCEPT ![lock[k].primary] = NoLock]
    /\ UNCHANGED <<memVars, flushVars, txnVars, app, reqs, ran, creq, res>>

OtherResolves(k) ==
    /\ lock[k] # NoLock /\ rec[lock[k].primary] # "none"
    /\ ResolveLocks({k}, rec[lock[k].primary] # "rollback")
    /\ UNCHANGED <<memVars, flushVars, txnVars, app, reqs, ran, creq, res>>

-----------------------------------------------------------------------------
Goroutine == FlushRefused \/ FlushEmpty \/ FlushFunc \/ FlushFlushed \/ FlushReport

Next ==
    \/ \E k \in Keys, e \in Entries : Set(k, e)
    \/ Staging \/ Release \/ Cleanup
    \/ \E ks \in (SUBSET Prefetch) \ {{}}, ok \in BOOLEAN : BatchGet(ks, ok)
    \/ FlushNothing \/ CallFlush \/ Flush \/ FlushErr
    \/ Goroutine
    \/ \E k \in Keys : SendFlush(k) \/ FlushOk(k) \/ FlushFails(k)
    \/ KeepAliveFails
    \/ Commit \/ CommitWait \/ CommitTSFails \/ SendCommit
    \/ CommitOk \/ CommitRefused \/ CommitUndetermined
    \/ CallRollback \/ Rollback
    \/ \E t \in res.tasks : ResolveRegion(t)
    \/ ResolveGivesUp
    \/ \E b \in 2 .. NKeys : Split(b)
    \/ \E q \in reqs : RunFlush(q)
    \/ RunCommit
    \/ \E k \in Keys : OtherRollsBack(k) \/ OtherResolves(k)

Spec == Init /\ [][Next]_vars

(* The goroutines run; every request ends, as its backoffs are bounded. *)
Fairness ==
    /\ WF_vars(Goroutine)
    /\ WF_vars(\E k \in Keys : SendFlush(k) \/ FlushOk(k) \/ FlushFails(k))
    /\ WF_vars(Flush \/ FlushErr \/ CommitWait \/ (app = "rollbackWait" /\ Rollback))

FairSpec == Spec /\ Fairness

-----------------------------------------------------------------------------
(* PROPERTIES *)

Matches(v, e) == IF Value[e] \in {"tomb", "none"} THEN v \in {"tomb", "none"} ELSE v = Value[e]

Stored(k) == IF rec[k] \notin {"none", "rollback"} THEN Value[rec[k]] ELSE Value[lock[k].entry]

(* A memdb is being flushed exactly while a goroutine works on it or its   *)
(* report waits in errCh: Flush, FlushWait and Rollback never wait for a   *)
(* report that does not come, never take the report of another generation, *)
(* and the goroutine never blocks on a full errCh.                         *)
FlushHandshake == (flushing # Nil) = (fl.pc # "idle" \/ errCh # "none")

(* Get returns the transaction's own last write (or finds nothing, for a   *)
(* key deleted or not written), whether it is in the memdb, in the one     *)
(* being flushed, in the batch get cache or in the stores, and whatever    *)
(* flushes, prefetches and stages came in between, as long as nobody       *)
(* rolled the transaction back.                                            *)
ReadYourWrites ==
    app = "open" /\ (\A k \in Keys : rec[k] # "rollback") => \A k \in Keys : Matches(Get(k), own[k])

(* If any key is committed the primary is, and every key has, committed or *)
(* in a lock that names the primary, what the application wrote last: no   *)
(* key is lost, left at an earlier generation or settled the other way, by *)
(* late requests, failed batches or other transactions that resolve.       *)
CommittedIsComplete ==
    (\E k \in Keys : rec[k] \notin {"none", "rollback"})
        => /\ Committed
           /\ \A k \in Keys : /\ Matches(Stored(k), own[k])
                              /\ rec[k] # "rollback"
                              /\ lock[k] # NoLock => lock[k].primary = primary

(* Commit says committed only if the transaction is, and neither a failed  *)
(* Commit nor Rollback leaves a transaction that is or will be committed,  *)
(* by a request that is still on its way.                                  *)
ResultHonest ==
    /\ app = "committed" => Committed
    /\ app \in {"error", "rolledback"} => ~Committed /\ (creq => lock[primary] = NoLock)

(* A key the range task cannot see: the end of the range is exclusive, and *)
(* it is the last key flushed.                                             *)
OutsideRange(k) == k = hi /\ (lo = hi \/ hi \in res.bounds)

(* When the range task is done, no lock of the transaction is left in the  *)
(* range, whatever regions it found and however they split, except what a  *)
(* late request locked after the task began.                               *)
ResolvedClean ==
    res.pc = "done" => \A k \in Keys : lock[k] # NoLock => k \in res.late \/ OutsideRange(k)

(* Rollback cleans up every lock of the transaction, that of the last key  *)
(* too, as the integration test of Rollback expects.                       *)
AllResolved ==
    app = "rolledback" /\ res.pc = "done" => \A k \in Keys : lock[k] # NoLock => k \in res.late

(* The buffer reads and flushes right: Get, Flush, FlushWait and the       *)
(* goroutine of a flush in pipelined_memdb.go.                             *)
BufferRight == TypeOK /\ FlushHandshake /\ ReadYourWrites

(* The outcome is all or nothing, is reported as it is, and nothing is     *)
(* left locked: pipelined_flush.go, commit and the range task.             *)
OutcomeRight == CommittedIsComplete /\ ResultHonest /\ ResolvedClean

(* Every call that waits for a flush returns: Flush, FlushWait, Commit and *)
(* Rollback.                                                               *)
FlushReturns == app \in Waiting ~> app \notin Waiting

-----------------------------------------------------------------------------
(* The inductive invariant of a transaction that does not prefetch what    *)
(* its open stage wrote.                                                   *)

Ordinarily == Admit = {}

Req == [key : Keys, gen : Nat, entry : AllEntries \ {"skip"}, primary : Keys]
Lock == [gen : Nat, entry : Entry \ {"cne", "skip"}, primary : Keys \cup {0}]
Absent(e) == Value[e] \in {"tomb", "none"}

\* What TypeOK leaves out.
Typed ==
    /\ reqs \subseteq Req /\ lock \in [Keys -> Lock]
    /\ fl \in [pc : {"idle", "start", "send", "end"}, failed : BOOLEAN,
               batch : [Keys -> {"none", "todo", "sent", "ok", "err"}]]
    /\ res \in [pc : {"idle", "run", "done", "failed"}, commit : BOOLEAN,
                tasks : SUBSET (Keys \X Keys), bounds : SUBSET (2 .. NKeys), late : SUBSET Keys]

\* Where the calls of the application, the flush goroutine and the range
\* task can be together.
Stopped == app \in {"committing", "commitSent", "committed", "error", "undetermined", "rolledback"}
Phases ==
    /\ fl.pc # "idle" => errCh = "none"
    /\ flushing # Nil => gen > 0
    /\ app \in {"open", "commitFlush"} => gen <= MaxGen
    /\ app = "flush" => gen < MaxGen /\ cache = NoCache
    /\ app # "open" /\ stage # Nil => app \in {"rolledback", "rollbackWait"}
    /\ app \in {"failed"} \/ Stopped => flushing = Nil
    /\ app \in {"commitWait", "rollbackWait"} => flushing # Nil
    /\ flushing = Nil /\ app \in {"open", "flush", "commitFlush"} => gen = 0
    /\ app \in {"commitWait", "committing", "commitSent", "committed", "undetermined"} => mem = EmptyDB
    /\ creq => app \in {"commitSent", "committed", "error", "undetermined"}
    /\ res.pc # "idle" => app \in {"error", "rolledback", "committed"}

\* All flushes but the one going on have succeeded.
Intact == app \notin {"failed", "rollbackWait", "error", "rolledback"}

\* What the transaction sent: to the primary's name, within the bounds, one
\* request for a key and a generation, which is what is being flushed.
RequestsKnown ==
    /\ lo = 0 <=> hi = 0
    /\ primary # 0 => lo # 0
    /\ \A q \in reqs : /\ q.primary = primary /\ lo <= q.key /\ q.key <= hi
                       /\ q.gen = gen /\ flushing # Nil => q = Request(q.key)
                       /\ Intact /\ (q.gen < gen \/ flushing = Nil) => q \in ran
    /\ \A q, r \in reqs : q.key = r.key /\ q.gen = r.gen => q = r
    /\ gen = 0 => reqs = {}

\* What the goroutine knows of its requests.
BatchKnown ==
    /\ fl.pc = "send" =>
          \A k \in Keys : /\ k \in Mutations => lo <= k /\ k <= hi
                          /\ fl.batch[k] = "none" <=> k \notin Mutations
                          /\ fl.batch[k] = "ok" => Request(k) \in ran
                          /\ fl.batch[k] = "err" => fl.failed
    /\ (fl.pc = "end" /\ ~fl.failed) \/ errCh = "ok" => \A k \in Mutations : Request(k) \in ran

\* A lock is what the latest request that ran wrote, until the key is decided.
LocksKnown ==
    /\ \A k \in Keys : lock[k] # NoLock =>
          [key |-> k, gen |-> lock[k].gen, entry |-> lock[k].entry, primary |-> lock[k].primary] \in ran
    /\ \A k \in Keys : rec[k] # "none" => lock[k] = NoLock
    /\ \A q \in ran : q.entry = "cne" \/ rec[q.key] # "none" \/ lock[q.key].gen >= q.gen

\* The primary decides, once.
Doomed == (primary # 0 /\ rec[primary] = "rollback") \/ (~creq /\ app \in {"error", "rolledback"})
Decided ==
    /\ Committed => creq
    /\ creq => primary # 0
    /\ app \in {"error", "rolledback"} => Doomed
    /\ app = "committed" => Committed
    /\ \A k \in Keys : /\ rec[k] = "rollback" => Doomed
                       /\ rec[k] \notin {"none", "rollback"} => Committed
    /\ res.pc # "idle" => IF res.commit THEN Committed ELSE Doomed

\* What is below the memdb: being flushed, or in the store.
Below(k) == flushing # Nil /\ flushing[k] # "none"
Fresh == {"ins", "cne", "skip"}

\* The entry e of a key in a memdb and the application's last write w agree
\* with what is below the memdb.
Agrees(k, e, w) ==
    /\ e # "none" => w = e
    /\ Below(k) => /\ e = "none" => w = flushing[k]
                   /\ e \in Fresh => Absent(flushing[k])
    /\ ~Below(k) /\ rec[k] = "none" /\ Intact =>
          /\ e = "none" => Matches(Value[lock[k].entry], w)
          /\ e \in Fresh => Absent(lock[k].entry)
    /\ ~Below(k) /\ e = "none" /\ cache[k] # "unknown" /\ app = "open"
          /\ (\A j \in Keys : rec[j] # "rollback") => Matches(cache[k], w)

WritesKnown ==
    /\ \A k \in Keys : Agrees(k, mem[k], own[k])
    /\ stage # Nil => \A k \in Keys :
          /\ Agrees(k, stage[1][k], stage[2][k])
          /\ mem[k] = "none" => stage[1][k] = "none" /\ own[k] = stage[2][k]
    /\ \A k \in Keys : Below(k) /\ flushing[k] \in {"cne", "skip"} /\ rec[k] = "none" /\ Intact => Absent(lock[k].entry)
    /\ \A k \in Keys : rec[k] \notin {"none", "rollback"} => Matches(Value[rec[k]], own[k])

\* Every lock that was there when the range task began is in a part of the
\* range that is left to do.
InTasks(k) == \E t \in res.tasks : (t[1] <= k /\ k < t[2]) \/ (k = hi /\ t[2] = hi)
TasksCover ==
    /\ res.pc \in {"run", "done"} =>
          \A k \in Keys : lock[k] # NoLock => k \in res.late \/ OutsideRange(k) \/ InTasks(k)
    /\ res.pc = "done" => res.tasks = {}
    /\ \A t \in res.tasks : t[1] < t[2] /\ t[2] <= hi

PipelinedInv ==
    /\ TypeOK /\ Typed /\ FlushHandshake /\ Phases /\ RequestsKnown /\ BatchKnown
    /\ LocksKnown /\ Decided /\ WritesKnown /\ TasksCover
=============================================================================
