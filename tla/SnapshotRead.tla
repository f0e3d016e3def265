---------------------------- MODULE SnapshotRead ----------------------------
(***************************************************************************)
(* The reads of a snapshot over regions that split and merge while they    *)
(* run (txnkv/txnsnapshot): BatchGet with one worker for each batch, Get   *)
(* and the Scanner, with the snapshot's cache of results.  Which version   *)
(* of a key a snapshot sees is the subject of Percolator; here every key   *)
(* has one true entry at the snapshot's version, and may carry a lock.     *)
(*                                                                         *)
(*   borders      the start keys of the regions; a region is [s, e), the   *)
(*                empty key being 0                                        *)
(*   regionCache  the client's regions, which may be out of date           *)
(*   data, locks  the store                                                *)
(*   resolvedLocks, committedLocks  transactions whose locks the snapshot  *)
(*                passes over, or reads through                            *)
(*   cached       results of Get and BatchGet, Null for a key not found    *)
(*   todo, cur    the reads each caller has left and the one it runs       *)
(*   answer       what its last one returned                               *)
(*                                                                         *)
(* A lock says what became of its transaction: committed before the        *)
(* snapshot, later than it, or rolledBack; ttl is the number of times that *)
(* whoever meets it must wait; with memory set the store reports it for    *)
(* the whole request and not for a pair.  LocateEndKey is one step here;   *)
(* see RegionCache for what a merge between its two loads does.            *)
(***************************************************************************)
EXTENDS Integers, Sequences, FiniteSets, SequencesExt

CONSTANTS Null, N, Readers, batchGetSize, scanBatchSize, cachedSizeLimit,
          Scenes    \* what is read, over which data: see Init

Keys == 1 .. N

ASSUME BatchAssumption == batchGetSize > 0 /\ scanBatchSize > 1

VARIABLES scene, borders, regionCache, data, locks, resolvedLocks, committedLocks,
          cached, cachedSize, todo, cur, answer, changes, faults

sets == <<resolvedLocks, committedLocks>>
results == <<cached, cachedSize>>
kept == <<scene, borders, changes>>
vars == <<kept, regionCache, data, locks, sets, results, todo, cur, answer, faults>>

-----------------------------------------------------------------------------
(* Regions.                                                                *)

Holds(r, key) == r.s <= key /\ (r.e = 0 \/ key < r.e)
HoldsByEnd(r, key) == IF key = 0 THEN r.e = 0 ELSE r.s < key /\ (r.e = 0 \/ key <= r.e)

Regions ==
    LET after(b) == {c \in borders : c > b}
    IN  {[s |-> b, e |-> IF after(b) = {} THEN 0 ELSE Min(after(b))] : b \in borders \cup {0}}

Overlap(a, b) == (b.e = 0 \/ a.s < b.e) /\ (a.e = 0 \/ b.s < a.e)
WithRegion(cache, r) == {c \in cache : ~Overlap(c, r)} \cup {r}

(* The cached region of a key, or the current one when none is cached.     *)
LocateKey(cache, key) ==
    IF \E r \in cache : Holds(r, key) THEN CHOOSE r \in cache : Holds(r, key)
    ELSE CHOOSE r \in Regions : Holds(r, key)

LocateEndKey(cache, key) ==
    IF \E r \in cache : HoldsByEnd(r, key) THEN CHOOSE r \in cache : HoldsByEnd(r, key)
    ELSE CHOOSE r \in Regions : HoldsByEnd(r, key)

(* The region of each key, located one after the other in the caller's     *)
(* order, which is ascending; what is loaded replaces what it overlaps.    *)
GroupKeysByRegion(cache, keys) ==
    LET after[n \in 0 .. N] ==
            IF n = 0 THEN cache
            ELSE IF n \notin keys THEN after[n - 1]
            ELSE WithRegion(after[n - 1], LocateKey(after[n - 1], n))
    IN  [cache |-> after[N], loc |-> [k \in keys |-> LocateKey(after[k - 1], k)]]

(* A region error for an epoch that is not current invalidates the region. *)
InvalidateRegion_Kept(cache, r) == cache
InvalidateRegion(cache, r) == IF r \in Regions THEN cache ELSE cache \ {r}

(* The session's check of a request's region; a current one may be refused *)
(* too (no leader, a busy server, a region merged and split again).        *)
CheckRequestContext(r, ok) ==
    \/ ok /\ r \in Regions /\ UNCHANGED faults
    \/ ~ok /\ r \notin Regions /\ UNCHANGED faults
    \/ ~ok /\ r \in Regions /\ faults < scene.faults /\ faults' = faults + 1

-----------------------------------------------------------------------------
(* The store's reads.                                                      *)

Entry(lock) == IF lock.val = Null THEN Null ELSE [val |-> lock.val, ts |-> lock.ts]

CheckLock(key, passed, read) == locks[key] # Null /\ locks[key].txn \notin passed \cup read

getValue(key, passed, read) ==
    IF locks[key] # Null /\ locks[key].txn \in read \ passed THEN Entry(locks[key]) ELSE data[key]

(* The locks reported for the whole request.                               *)
InMemory(keys, passed, read) ==
    {k \in keys : CheckLock(k, passed, read) /\ locks[k].memory}

WithCommitTS(entry, need) == IF entry = Null \/ need THEN entry ELSE [entry EXCEPT !.ts = 0]

(* What a read of one key finds: its lock, or its entry.                   *)
GetKVPair(key) ==
    [locked |-> CheckLock(key, resolvedLocks, committedLocks),
     entry |-> getValue(key, resolvedLocks, committedLocks)]

(* The locked keys, and the pairs of those that have a value.              *)
mvccBatchGet(keys) ==
    LET locked == {k \in keys : GetKVPair(k).locked}
    IN  [locked |-> locked,
         pairs |-> [k \in {x \in keys \ locked : GetKVPair(x).entry # Null} |-> GetKVPair(k).entry]]

handleKvGet(key, need) ==
    [locked |-> GetKVPair(key).locked, entry |-> WithCommitTS(GetKVPair(key).entry, need)]

(* keyErr: the keys of the locks that are reported for the whole request.  *)
handleKvBatchGet(keys, need) ==
    LET read == mvccBatchGet(keys)
    IN  [keyErr |-> InMemory(keys, resolvedLocks, committedLocks), locked |-> read.locked,
         pairs |-> [k \in DOMAIN read.pairs |-> WithCommitTS(read.pairs[k], need)]]

KeysOf(lower, upper) == {k \in Keys : k >= lower /\ (upper = 0 \/ k < upper)}
Visible(lower, upper) ==
    {k \in KeysOf(lower, upper) : CheckLock(k, {}, {}) \/ data[k] # Null}

(* The pairs of the keys in this order, up to the limit.                   *)
Pairs(keys) ==
    [i \in 1 .. IF Len(keys) < scanBatchSize THEN Len(keys) ELSE scanBatchSize |->
        [key |-> keys[i], locked |-> CheckLock(keys[i], {}, {}),
         val |-> IF data[keys[i]] = Null THEN Null ELSE data[keys[i]].val]]

Scan(lower, upper) == Pairs(SetToSortSeq(Visible(lower, upper), <))
ReverseScan(lower, upper) == Pairs(SetToSortSeq(Visible(lower, upper), >))

(* A scan carries none of the snapshot's knowledge of transactions.        *)
handleKvScan(lower, upper, reverse) ==
    [keyErr |-> InMemory(KeysOf(lower, upper), {}, {}),
     pairs |-> IF reverse THEN ReverseScan(lower, upper) ELSE Scan(lower, upper)]

-----------------------------------------------------------------------------
(* Locks.                                                                  *)

Apply(key) ==
    /\ locks' = [locks EXCEPT ![key] = Null]
    /\ data' = IF locks[key].fate = "committed" THEN [data EXCEPT ![key] = Entry(locks[key])]
               ELSE data

(* A transaction that lives is waited for, unless its commit can be pushed *)
(* past the snapshot.                                                      *)
Waits(key) == locks[key] # Null /\ locks[key].ttl > 0 /\ locks[key].fate # "later"

(* ResolveLocksForRead of the locks found on these keys: what is learned   *)
(* of each transaction.  The locks themselves, which may be gone by now,   *)
(* are removed in the background.                                          *)
ResolveLocksForRead(keys) ==
    LET of(fates) == {scene.locks[k].txn : k \in {x \in keys : ~Waits(x) /\ scene.locks[x].fate \in fates}}
    IN  /\ resolvedLocks' = resolvedLocks \cup of({"later", "rolledBack"})
        /\ committedLocks' = committedLocks \cup of({"committed"})
        /\ locks' = [k \in Keys |-> IF k \in keys /\ Waits(k)
                                    THEN [locks[k] EXCEPT !.ttl = @ - 1] ELSE locks[k]]

(* ResolveLocks: the caller waits until the lock can be removed.           *)
ResolveLocks(key) ==
    IF locks[key] = Null THEN UNCHANGED <<locks, data>>
    ELSE IF locks[key].ttl > 0
    THEN locks' = [locks EXCEPT ![key].ttl = @ - 1] /\ UNCHANGED data
    ELSE Apply(key)

-----------------------------------------------------------------------------
(* The cache of results.  A key and a value are of size 1.                 *)

Size(entry) == IF entry = Null THEN 0 ELSE 1
SumSizes(entries, keys) == FoldSet(LAMBDA k, n : n + 1 + Size(entries[k]), 0, keys)

(* The cached entry that serves a read, in a set.                          *)
getSnapCache(key, need) ==
    IF key \notin DOMAIN cached \/ (need /\ cached[key] # Null /\ cached[key].ts = 0) THEN {}
    ELSE {WithCommitTS(cached[key], need)}

(* The keys thrown out, in any order, until the size is within the limit   *)
(* or only keys just found are left.                                       *)
Evicted(entries, size, needed) ==
    LET may == DOMAIN entries \ needed
    IN  IF size < cachedSizeLimit THEN {{}}
        ELSE {e \in SUBSET may :
                 /\ size - SumSizes(entries, e) < cachedSizeLimit \/ e = may
                 /\ e # {} => \E k \in e : size - SumSizes(entries, e \ {k}) >= cachedSizeLimit}

UpdateSnapshotCache(keys, m) ==
    LET entries == [k \in DOMAIN cached \cup keys |->
                        IF k \notin keys THEN cached[k] ELSE IF k \in DOMAIN m THEN m[k] ELSE Null]
        old(k) == IF k \in DOMAIN cached THEN Size(cached[k]) ELSE 0
        size == cachedSize + SumSizes(entries, keys) - FoldSet(LAMBDA k, n : n + old(k), 0, keys)
    IN  \E out \in Evicted(entries, size, DOMAIN m) :
            /\ cached' = [k \in DOMAIN entries \ out |-> entries[k]]
            /\ cachedSize' = size - SumSizes(entries, out)

checkCommitTSRequired(need, entries) == need /\ \E e \in entries : e # Null /\ e.ts = 0

-----------------------------------------------------------------------------
(* A read ends with an error or a value.                                   *)

Running(p, op) == cur[p] # Null /\ cur[p].op = op

Return(p, err, value) ==
    /\ answer' = [answer EXCEPT ![p] = [read |-> Head(todo[p]), err |-> err, value |-> value]]
    /\ todo' = [todo EXCEPT ![p] = Tail(@)]
    /\ cur' = [cur EXCEPT ![p] = Null]

Goto(p, c) == cur' = [cur EXCEPT ![p] = c] /\ UNCHANGED <<todo, answer>>

-----------------------------------------------------------------------------
(* BatchGet.                                                               *)

(* The batches of a group, each read by a worker.                          *)
appendBatchKeysBySize(region, keys) ==
    LET nth(k) == Cardinality({j \in keys : j < k}) \div batchGetSize
        batch(i) == {k \in keys : nth(k) = i}
    IN  {[region |-> region, keys |-> batch(i), pending |-> batch(i), async |-> FALSE,
          pc |-> "send", found |-> {}, keyErr |-> FALSE] : i \in {nth(k) : k \in keys}}

Batches(loc) ==
    UNION {appendBatchKeysBySize(r, {k \in DOMAIN loc : loc[k] = r}) :
              r \in {loc[k] : k \in DOMAIN loc}}

(* The workers that read the located keys.  A single one is not run        *)
(* through the asynchronous interface, nor are those of a retry.           *)
asyncBatchGetByRegions(batches) == {[b EXCEPT !.async = TRUE, !.pc = "async"] : b \in batches}

batchGetKeysByRegions(loc, async) ==
    IF async /\ Cardinality(Batches(loc)) > 1 THEN asyncBatchGetByRegions(Batches(loc)) ELSE Batches(loc)

BatchGet(p) ==
    /\ cur[p] = Null /\ todo[p] # <<>> /\ Head(todo[p]).op = "batch"
    /\ LET read == Head(todo[p])
           hit == {k \in read.keys : getSnapCache(k, read.need) # {}}
           entry(k) == CHOOSE e \in getSnapCache(k, read.need) : TRUE
           m == [k \in {h \in hit : entry(h) # Null} |-> entry(k)]
           g == GroupKeysByRegion(regionCache, read.keys \ hit)
       IN  IF checkCommitTSRequired(read.need, {entry(k) : k \in hit})
           THEN Return(p, TRUE, Null) /\ UNCHANGED regionCache
           ELSE IF read.keys \subseteq hit
           THEN Return(p, FALSE, m) /\ UNCHANGED regionCache
           ELSE /\ Goto(p, [op |-> "batch", keys |-> read.keys \ hit, need |-> read.need, m |-> m,
                            workers |-> batchGetKeysByRegions(g.loc, scene.async), err |-> FALSE])
                /\ regionCache' = g.cache
    /\ UNCHANGED <<kept, data, locks, sets, results, faults>>

WithWorker(p, w, new) == Goto(p, [cur[p] EXCEPT !.workers = (@ \ {w}) \cup new])

(* The values found are collected; the locks, or the region error, are     *)
(* handled in the worker's next step.                                      *)
collectBatchGetResponseData(p, w, resp) ==
    IF resp.keyErr # {}
    THEN \E k \in resp.keyErr :
            WithWorker(p, w, {[w EXCEPT !.pc = "locks", !.found = {k}, !.keyErr = TRUE]})
    ELSE Goto(p, [cur[p] EXCEPT
            !.m = resp.pairs @@ @,
            !.workers = (@ \ {w}) \cup IF resp.locked = {} THEN {}
                                       ELSE {[w EXCEPT !.pc = "locks", !.found = resp.locked]}])

SendReqCtx(p, w, ok) ==
    /\ CheckRequestContext(w.region, ok)
    /\ IF ok
       THEN /\ collectBatchGetResponseData(p, w, handleKvBatchGet(w.pending, cur[p].need))
            /\ UNCHANGED regionCache
       ELSE /\ WithWorker(p, w, {[w EXCEPT !.pc = "regionErr"]})
            /\ regionCache' = InvalidateRegion(regionCache, w.region)

(* A worker sends its pending keys.                                        *)
batchGetSingleRegion(p, ok) ==
    /\ Running(p, "batch")
    /\ \E w \in cur[p].workers : w.pc = "send" /\ SendReqCtx(p, w, ok)
    /\ UNCHANGED <<kept, data, locks, sets, results>>

(* The first request of a batch that is read asynchronously; what it does  *)
(* not settle is retried by a goroutine, as above.                         *)
tryBatchGetSingleRegionUsingAsyncAPI(p, ok) ==
    /\ Running(p, "batch")
    /\ \E w \in cur[p].workers : w.pc = "async" /\ SendReqCtx(p, w, ok)
    /\ UNCHANGED <<kept, data, locks, sets, results>>

(* The request fails in a way the sender does not retry.                   *)
BatchGetFail(p) ==
    /\ Running(p, "batch") /\ faults < scene.faults
    /\ \E w \in cur[p].workers :
          w.pc \in {"send", "async"} /\ Goto(p, [cur[p] EXCEPT !.workers = @ \ {w}, !.err = TRUE])
    /\ faults' = faults + 1
    /\ UNCHANGED <<kept, regionCache, data, locks, sets, results>>

(* The region of the batch's first key serves the batch if it holds all.   *)
relocate(w, loc) == \A k \in w.keys : Holds(loc, k)

(* The worker goes on with the region found; what is pending is spread     *)
(* over new workers when it does not hold the batch.                       *)
handleBatchGetRegionError(p) ==
    /\ Running(p, "batch")
    /\ \E w \in cur[p].workers :
          /\ w.pc = "regionErr"
          /\ LET loc == LocateKey(regionCache, Min(w.keys))
                 cache == WithRegion(regionCache, loc)
                 g == GroupKeysByRegion(cache, w.pending)
             IN  IF relocate(w, loc)
                 THEN /\ WithWorker(p, w, {[w EXCEPT !.region = loc, !.pc = "send"]})
                      /\ regionCache' = cache
                 ELSE /\ WithWorker(p, w, batchGetKeysByRegions(g.loc, FALSE))
                      /\ regionCache' = g.cache
    /\ UNCHANGED <<kept, data, locks, sets, results, faults>>

(* The keys asked for again: a lock reported for the whole request says    *)
(* nothing of the other keys.                                              *)
stillPending_LockedOnly(w) == w.found
stillPending(w) == IF w.keyErr THEN w.pending ELSE w.found

(* The asynchronous retry forgets the keys it has read; the synchronous    *)
(* one keeps them as those of its batch, which relocate looks at.          *)
retryBatchGetSingleRegionAfterAsyncAPI(w) == [w EXCEPT !.keys = stillPending(w)]

handleBatchGetLocks(p) ==
    /\ Running(p, "batch")
    /\ \E w \in cur[p].workers :
          /\ w.pc = "locks"
          /\ ResolveLocksForRead(w.found)
          /\ LET b == IF w.async THEN retryBatchGetSingleRegionAfterAsyncAPI(w) ELSE w
             IN  WithWorker(p, w, {[b EXCEPT !.pc = "send", !.pending = stillPending(w),
                                             !.found = {}, !.keyErr = FALSE]})
    /\ UNCHANGED <<kept, regionCache, data, results, faults>>

(* All the workers are done.  CheckVisibility fails when the snapshot is   *)
(* older than the safe point.                                              *)
BatchGetReturn(p, visible) ==
    /\ Running(p, "batch") /\ cur[p].workers = {}
    /\ visible \/ (faults < scene.faults /\ ~cur[p].err)
    /\ faults' = IF visible THEN faults ELSE faults + 1
    /\ IF cur[p].err \/ ~visible
          \/ checkCommitTSRequired(cur[p].need, {cur[p].m[k] : k \in DOMAIN cur[p].m})
       THEN Return(p, TRUE, Null) /\ UNCHANGED results
       ELSE Return(p, FALSE, cur[p].m) /\ UpdateSnapshotCache(cur[p].keys, cur[p].m)
    /\ UNCHANGED <<kept, regionCache, data, locks, sets>>

-----------------------------------------------------------------------------
(* Get, which the Scanner uses too for a key that is locked.               *)

Get(p) ==
    /\ cur[p] = Null /\ todo[p] # <<>> /\ Head(todo[p]).op = "get"
    /\ LET read == Head(todo[p])
           hit == getSnapCache(read.key, read.need)
       IN  IF hit # {}
           THEN \E e \in hit : IF checkCommitTSRequired(read.need, hit) THEN Return(p, TRUE, Null)
                               ELSE Return(p, FALSE, e)
           ELSE Goto(p, [op |-> "get", key |-> read.key, need |-> read.need, pc |-> "send"])
    /\ UNCHANGED <<kept, regionCache, data, locks, sets, results, faults>>

(* The cache is updated before the commit timestamp is looked at.          *)
GetDone(p, entry) ==
    /\ UpdateSnapshotCache({cur[p].key}, [k \in {cur[p].key} |-> entry])
    /\ IF checkCommitTSRequired(cur[p].need, {entry}) THEN Return(p, TRUE, Null)
       ELSE Return(p, FALSE, entry)

(* resolveCurrentLock: the pair gets the value that get reads; an empty    *)
(* one is skipped.                                                         *)
ScanFill(p, entry) ==
    /\ Goto(p, [cur[p] EXCEPT !.pc = "next",
                              !.out = IF entry = Null THEN @
                                      ELSE Append(@, [key |-> cur[p].key, val |-> entry.val])])
    /\ UNCHANGED results

Done(p, entry) == IF Running(p, "get") THEN GetDone(p, entry) ELSE ScanFill(p, entry)

(* One turn of the loop of get: the region is located and the request      *)
(* sent.  Done is what the caller does with the entry.                     *)
get(p, c, ok) ==
    LET loc == LocateKey(regionCache, c.key)
        cache == WithRegion(regionCache, loc)
        resp == handleKvGet(c.key, c.need)
    IN  /\ CheckRequestContext(loc, ok)
        /\ IF ~ok
           THEN /\ regionCache' = InvalidateRegion(cache, loc)
                /\ UNCHANGED <<cur, todo, answer, results>>
           ELSE /\ regionCache' = cache
                /\ IF resp.locked
                   THEN Goto(p, [cur[p] EXCEPT !.pc = "locks"]) /\ UNCHANGED results
                   ELSE Done(p, resp.entry)

GetStep(p, ok) ==
    /\ Running(p, "get") /\ cur[p].pc = "send"
    /\ get(p, cur[p], ok)
    /\ UNCHANGED <<kept, data, locks, sets>>

(* The request fails, or the snapshot is too old (CheckVisibility).        *)
GetFail(p) ==
    /\ Running(p, "get") /\ cur[p].pc = "send" /\ faults < scene.faults
    /\ faults' = faults + 1
    /\ Return(p, TRUE, Null)
    /\ UNCHANGED <<kept, regionCache, data, locks, sets, results>>

GetLocks(p) ==
    /\ Running(p, "get") /\ cur[p].pc = "locks"
    /\ ResolveLocksForRead({cur[p].key})
    /\ Goto(p, [cur[p] EXCEPT !.pc = "send"])
    /\ UNCHANGED <<kept, regionCache, data, results, faults>>

-----------------------------------------------------------------------------
(* The Scanner: the caller reads it to its end.  out is what it was given. *)

newScanner(p) ==
    /\ cur[p] = Null /\ todo[p] # <<>> /\ Head(todo[p]).op = "scan"
    /\ LET read == Head(todo[p])
       IN  Goto(p, [op |-> "scan", pc |-> "next", cache |-> <<>>, idx |-> 0, reverse |-> read.reverse,
                    nextStartKey |-> read.start, endKey |-> read.end, nextEndKey |-> read.end,
                    eof |-> FALSE, key |-> 0, need |-> FALSE, out |-> <<>>])
    /\ UNCHANGED <<kept, regionCache, data, locks, sets, results, faults>>

(* What Next does with the pair at idx: the scan ends past its bound, a    *)
(* lock is resolved, a value is given to the caller.                       *)
Examine(p, c) ==
    LET current == c.cache[c.idx]
    IN  IF \/ ~c.reverse /\ c.endKey # 0 /\ current.key >= c.endKey
           \/ c.reverse /\ c.nextStartKey # 0 /\ current.key < c.nextStartKey
        THEN Return(p, FALSE, c.out)
        ELSE IF current.locked THEN Goto(p, [c EXCEPT !.pc = "send", !.key = current.key])
        ELSE Goto(p, [c EXCEPT !.pc = "next",
                               !.out = Append(@, [key |-> current.key, val |-> current.val])])

ScannerNext(p) ==
    /\ Running(p, "scan") /\ cur[p].pc = "next"
    /\ LET c == [cur[p] EXCEPT !.idx = @ + 1]
       IN  IF c.idx <= Len(c.cache) THEN Examine(p, c)
           ELSE IF c.eof THEN Return(p, FALSE, c.out)
           ELSE Goto(p, [c EXCEPT !.pc = "data"])
    /\ UNCHANGED <<kept, regionCache, data, locks, sets, results, faults>>

(* The position after a response: less than a batch means that the region  *)
(* has no more.                                                            *)
afterData(c, loc, lower, pairs) ==
    IF Len(pairs) < scanBatchSize
    THEN [c EXCEPT !.cache = pairs, !.idx = 1,
                   !.nextStartKey = IF c.reverse THEN @ ELSE loc.e,
                   !.nextEndKey = IF c.reverse THEN lower ELSE @,
                   !.eof = IF c.reverse THEN loc.s = 0 \/ (c.nextStartKey # 0 /\ c.nextStartKey >= lower)
                           ELSE loc.e = 0 \/ (c.endKey # 0 /\ loc.e >= c.endKey)]
    ELSE [c EXCEPT !.cache = pairs, !.idx = 1,
                   !.nextStartKey = IF c.reverse THEN @ ELSE pairs[Len(pairs)].key + 1,
                   !.nextEndKey = IF c.reverse THEN pairs[Len(pairs)].key ELSE @]

(* One turn of the loop of getData.  A lock reported for the whole request *)
(* is resolved, and the same range asked for again.                        *)
getData(p, ok) ==
    /\ Running(p, "scan") /\ cur[p].pc = "data"
    /\ LET c == cur[p]
           loc == IF c.reverse THEN LocateEndKey(regionCache, c.nextEndKey)
                  ELSE LocateKey(regionCache, c.nextStartKey)
           cache == WithRegion(regionCache, loc)
           upper == IF c.reverse THEN c.nextEndKey
                    ELSE IF c.endKey = 0 \/ (loc.e # 0 /\ loc.e < c.endKey) THEN loc.e ELSE c.endKey
           lower == IF ~c.reverse THEN c.nextStartKey
                    ELSE IF c.nextStartKey = 0 \/ (loc.s # 0 /\ loc.s > c.nextStartKey) THEN loc.s
                    ELSE c.nextStartKey
           resp == handleKvScan(lower, upper, c.reverse)
           next == afterData(c, loc, lower, resp.pairs)
       IN  /\ CheckRequestContext(loc, ok)
           /\ IF ~ok
              THEN regionCache' = InvalidateRegion(cache, loc) /\ UNCHANGED <<cur, todo, answer>>
              ELSE /\ regionCache' = cache
                   /\ IF resp.keyErr # {}
                      THEN \E k \in resp.keyErr : Goto(p, [c EXCEPT !.pc = "keyErr", !.key = k])
                      ELSE IF next.cache = <<>> THEN Goto(p, [next EXCEPT !.pc = "next"])
                      ELSE Examine(p, next)
    /\ UNCHANGED <<kept, data, locks, sets, results>>

ScanFail(p) ==
    /\ Running(p, "scan") /\ cur[p].pc \in {"data", "send"} /\ faults < scene.faults
    /\ faults' = faults + 1
    /\ Return(p, TRUE, cur[p].out)
    /\ UNCHANGED <<kept, regionCache, data, locks, sets, results>>

ScanKeyError(p) ==
    /\ Running(p, "scan") /\ cur[p].pc = "keyErr"
    /\ ResolveLocks(cur[p].key)
    /\ Goto(p, [cur[p] EXCEPT !.pc = "data"])
    /\ UNCHANGED <<kept, regionCache, sets, results, faults>>

resolveCurrentLock(p, ok) ==
    /\ Running(p, "scan") /\ cur[p].pc = "send"
    /\ get(p, cur[p], ok)
    /\ UNCHANGED <<kept, data, locks, sets>>

ScanLocks(p) ==
    /\ Running(p, "scan") /\ cur[p].pc = "locks"
    /\ ResolveLocksForRead({cur[p].key})
    /\ Goto(p, [cur[p] EXCEPT !.pc = "send"])
    /\ UNCHANGED <<kept, regionCache, data, results, faults>>

-----------------------------------------------------------------------------
(* The store goes on by itself.                                            *)

(* A lock is committed or rolled back: in the background by a reader that  *)
(* knows its transaction's status, which does not wait for it, by another  *)
(* client or by its owner.                                                 *)
CleanLock(key) ==
    /\ locks[key] # Null
    /\ Apply(key)
    /\ UNCHANGED <<kept, regionCache, sets, results, todo, cur, answer, faults>>

(* A region is split at a key, or merged with its left neighbour.          *)
ChangeRegion(key) ==
    /\ changes < scene.changes /\ key > Min(Keys)
    /\ changes' = changes + 1
    /\ borders' = IF key \in borders THEN borders \ {key} ELSE borders \cup {key}
    /\ UNCHANGED <<scene, regionCache, data, locks, sets, results, todo, cur, answer, faults>>

Init ==
    /\ scene \in Scenes
    /\ borders = scene.borders
    /\ regionCache = Regions
    /\ data = scene.data /\ locks = scene.locks
    /\ resolvedLocks = {} /\ committedLocks = {}
    /\ cached = [k \in {} |-> Null] /\ cachedSize = 0
    /\ todo = scene.todo
    /\ cur = [p \in Readers |-> Null] /\ answer = [p \in Readers |-> Null]
    /\ changes = 0 /\ faults = 0

Client(p) ==
    \/ BatchGet(p) \/ Get(p) \/ newScanner(p) \/ ScannerNext(p)
    \/ \E ok \in BOOLEAN :
          batchGetSingleRegion(p, ok) \/ tryBatchGetSingleRegionUsingAsyncAPI(p, ok)
          \/ BatchGetReturn(p, ok) \/ GetStep(p, ok) \/ getData(p, ok) \/ resolveCurrentLock(p, ok)
    \/ BatchGetFail(p) \/ handleBatchGetRegionError(p) \/ handleBatchGetLocks(p)
    \/ GetFail(p) \/ GetLocks(p) \/ ScanFail(p) \/ ScanKeyError(p) \/ ScanLocks(p)

Next ==
    \/ \E p \in Readers : Client(p)
    \/ \E k \in Keys : CleanLock(k) \/ ChangeRegion(k)

(* Weak fairness of each caller, who can go on until it has nothing left.  *)
Idle(p) == cur[p] = Null /\ todo[p] = <<>>
Fairness == \A p \in Readers : []<>Idle(p) \/ []<><<Client(p)>>_vars

Spec == Init /\ [][Next]_vars /\ Fairness

-----------------------------------------------------------------------------
(* Properties.                                                             *)

Truth(k) ==
    IF scene.locks[k] # Null /\ scene.locks[k].fate = "committed" THEN Entry(scene.locks[k])
    ELSE scene.data[k]

(* The pairs a scan of the range gives, in its order.                      *)
Expected(read) ==
    LET keys == {k \in Keys : k >= read.start /\ (read.end = 0 \/ k < read.end) /\ Truth(k) # Null}
        seq == SetToSortSeq(keys, LAMBDA a, b : IF read.reverse THEN a > b ELSE a < b)
    IN  [i \in DOMAIN seq |-> [key |-> seq[i], val |-> Truth(seq[i]).val]]

RightAnswer(a) ==
    CASE a.read.op = "scan" -> (a.err => IsPrefix(a.value, Expected(a.read)))
                               /\ (~a.err => a.value = Expected(a.read))
      [] a.read.op = "get" -> a.err \/ a.value = WithCommitTS(Truth(a.read.key), a.read.need)
      [] OTHER -> a.err \/ a.value = [k \in {x \in a.read.keys : Truth(x) # Null} |->
                                         WithCommitTS(Truth(k), a.read.need)]

AnswersTrue ==
    \A p \in Readers : /\ answer[p] # Null => RightAnswer(answer[p])
                       /\ Running(p, "scan") => IsPrefix(cur[p].out, Expected(Head(todo[p])))

CacheTrue ==
    \A k \in DOMAIN cached : WithCommitTS(cached[k], FALSE) = WithCommitTS(Truth(k), FALSE)
                             /\ (cached[k] # Null => cached[k].ts \in {0, Truth(k).ts})

(* Every read that returns without an error returns what is true at the    *)
(* snapshot's version: no key is missed because its region was split or    *)
(* merged under the read, because another key of the request was locked,   *)
(* or because a batch ended at a border; a scan gives each key once, in    *)
(* order; and what the snapshot remembers is true, its commit timestamps   *)
(* too, however reads with and without them are mixed.                     *)
ReadsTrue == AnswersTrue /\ CacheTrue

(* Every read returns: a stale region, a lock or an empty batch never      *)
(* keeps it going for ever.                                                *)
ReadsReturn == <>(\A p \in Readers : Idle(p))
=============================================================================
