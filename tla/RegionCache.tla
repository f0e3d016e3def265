---------------------------- MODULE RegionCache ----------------------------
(***************************************************************************)
(* The index of the region cache (internal/locate/region_cache.go,         *)
(* sorted_btree.go): callers that locate a key, an end key or a region,    *)
(* load what is missing from PD and insert it; region errors that          *)
(* invalidate or replace regions; batch loading, bucket updates, the       *)
(* garbage collector and the periodic refresh, all on three maps behind    *)
(* one lock, while the cluster splits and merges regions and PD, its       *)
(* followers and the stores lag behind each other.  Peers and stores are   *)
(* the subject of RegionRequest.                                           *)
(*                                                                         *)
(* A cached region is an object: the maps, callers and the garbage         *)
(* collector share it, and a region loaded again is another object.        *)
(***************************************************************************)
EXTENDS Integers, FiniteSets, Sequences, SequencesExt

CONSTANTS
    Client,      \* callers: each locates one key and sends one request
    Scenarios,   \* what to explore: the lookup [key, end] of each caller or None,
                 \* whether the index is refreshed or collected (refresh), and the
                 \* bounds: how often a TTL passes or a selector flags a region
                 \* (expire), calls of PD fail (err), background operations start (task)
    Histories,   \* histories of the cluster to explore: sequences of sets of regions
    Copies,      \* bound: objects of one region version alive at a time
    None

VARIABLES
    Topology,\* the history of the cluster
    kv,      \* the position in Topology of the store that requests reach
    pd,      \* the position of the PD leader, told by any store
    follower,\* the position of the PD follower, or router, that is most behind
    cache,   \* obj, sorted, regions and latest: see TypeOK
    client,  \* client[c]: place, held region, loaded region, location, answer
    gc,      \* garbage collector: scanned items
    task,    \* the background operation under way
    refresh, \* the cache is configured with RegionsRefreshInterval, else with GC
    bounds   \* what is left of the budget

vars == <<Topology, kv, pd, follower, cache, client, gc, task, refresh, bounds>>
env == <<Topology, kv, pd, follower>>

Metas == UNION UNION {Range(h) : h \in Histories}   \* [id, ver, confVer, lo, hi]
Keys == UNION {m.lo .. m.hi : m \in Metas}
First == CHOOSE k \in Keys : \A j \in Keys : k <= j
Inf == CHOOSE k \in Keys : \A j \in Keys : j <= k
RegionVerID(m) == [id |-> m.id, ver |-> m.ver, confVer |-> m.confVer]
VerIDs == {RegionVerID(m) : m \in Metas}
Obj == VerIDs \X (1 .. Copies)                  \* identities of cached regions
IDs == {m.id : m \in Metas}

(* At every position of a history the regions cover the keys, each once.   *)
ASSUME HistoriesAssumption ==
    \A h \in Histories : \A i \in DOMAIN h : \A k \in Keys \ {Inf} :
        Cardinality({m \in h[i] : m.lo <= k /\ k < m.hi}) = 1

Idle == [pc |-> "idle", id |-> None, held |-> None, inv |-> TRUE, todo |-> <<>>]
Fresh(m) == [m |-> m, ok |-> TRUE, flags |-> {}]    \* newRegion: a TTL ahead, no flags

TypeOK ==
    /\ Topology \in Histories
    /\ {kv, pd, follower} \subseteq DOMAIN Topology
    /\ DOMAIN cache.obj = Obj
    /\ \A o \in Obj : cache.obj[o] # None =>
          cache.obj[o] \in [m : Metas, ok : BOOLEAN, flags : SUBSET {"reload", "pending", "ready"}]
    /\ cache.sorted \in [Keys -> Obj \cup {None}]      \* by start key
    /\ cache.regions \in [VerIDs -> Obj \cup {None}]
    /\ cache.latest \in [IDs -> VerIDs \cup {None}]
    /\ client \in [Client -> [pc : {"search", "load", "prev", "insert", "send", "sent", "answer", "build", "replace", "done", "error"},
                              ask : [key : Keys, end : BOOLEAN] \cup {None}, held : Obj \cup {None},
                              mode : {"miss", "retry", "access", "delayed"}, got : Metas \cup {None},
                              loc : Metas \cup {None}, regs : SUBSET Metas]]
    /\ gc \in [pc : {"idle", "scanned"}, expired : SUBSET Obj, check : SUBSET Obj]
    /\ task \in [pc : {"idle", "load", "insert", "swap"}, id : IDs \cup {None}, held : Obj \cup {None},
                  inv : BOOLEAN, todo : Seq(Metas)]
    /\ refresh \in BOOLEAN

Init ==
    /\ Topology \in Histories
    /\ kv = 1 /\ pd = 1 /\ follower = 1
    /\ cache = [obj |-> [o \in Obj |-> None], sorted |-> [k \in Keys |-> None],
                regions |-> [v \in VerIDs |-> None], latest |-> [i \in IDs |-> None]]
    /\ \E sc \in Scenarios :
          /\ client = [c \in Client |-> [pc |-> IF sc.ask[c] = None THEN "done" ELSE "search", ask |-> sc.ask[c],
                                         held |-> None, mode |-> "miss", got |-> None, loc |-> None, regs |-> {}]]
          /\ refresh = sc.refresh /\ bounds = sc.bounds
    /\ gc = [pc |-> "idle", expired |-> {}, check |-> {}]
    /\ task = Idle

-----------------------------------------------------------------------------
(* Objects and the three maps. *)

Indexed(x) == (Range(x.sorted) \cup Range(x.regions)) \ {None}
(* The objects held by callers and background jobs after a step in which   *)
(* only caller c, or only the task, lets go of what it holds.              *)
HeldBy(cs) == {client[c].held : c \in cs} \cup gc.expired \cup gc.check
OthersThan(c) == HeldBy(Client \ {c}) \cup {task.held}

(* The cache becomes x: what nothing refers to is freed. *)
Set(x, held) ==
    cache' = [x EXCEPT !.obj = [o \in Obj |-> IF o \in Indexed(x) \cup held THEN @[o] ELSE None]]

invalidate(x, o) == IF o = None THEN x ELSE [x EXCEPT !.obj[o].ok = FALSE]
setSyncFlags(x, o, fs) == IF o = None THEN x ELSE [x EXCEPT !.obj[o].flags = @ \cup fs]

RegionContains(m, k) == m.lo <= k /\ k < m.hi
ContainsByEnd(m, k) == m.lo < k /\ k <= m.hi
Covers(m, ask) == IF ask.end THEN ContainsByEnd(m, ask.key) ELSE RegionContains(m, ask.key)

(* SearchByKey: the last item that starts at the key or before it (for an  *)
(* end key: before it), if it contains the key.                            *)
SearchByKey(ask) ==
    LET starts == {k \in Keys : cache.sorted[k] # None /\ k <= ask.key /\ ~(ask.end /\ k = ask.key)}
        last == CHOOSE k \in starts : \A j \in starts : j <= k
    IN IF starts # {} /\ Covers(cache.obj[cache.sorted[last]].m, ask) THEN cache.sorted[last] ELSE None

(* Mutant: the versions are dropped, but not as the latest ones. *)
removeVersionFromCache_Kept(x, vs) == [x EXCEPT !.regions = [v \in VerIDs |-> IF v \in vs THEN None ELSE @[v]]]

(* removeVersionFromCache for each of the versions vs. *)
removeVersionFromCache(x, vs) ==
    [x EXCEPT !.regions = [v \in VerIDs |-> IF v \in vs THEN None ELSE @[v]],
              !.latest = [i \in IDs |-> IF @[i] \in vs THEN None ELSE @[i]]]

intersecting(x, m) == {k \in m.lo .. m.hi - 1 : x.sorted[k] # None}

(* The region is older than what is cached: under its ID, where its peers  *)
(* count too, or by an item that starts inside it.                         *)
Ahead(a, b) == a.ver > b.ver \/ a.confVer > b.confVer
staleIn(x, m) ==
    \/ x.latest[m.id] # None /\ Ahead(x.latest[m.id], m)
    \/ \E k \in intersecting(x, m) : x.obj[x.sorted[k]].m.ver > m.ver

(* insertRegionToCache for a new object of m, unless it is stale; its       *)
(* identity is not that of an object somebody holds.                       *)
insertRegionToCache(x, m, inv, held) ==
    IF staleIn(x, m) THEN x
    ELSE LET starts == intersecting(x, m)
             old == {x.sorted[k] : k \in starts}
             free == {n \in 1 .. Copies : <<RegionVerID(m), n>> \notin held}
             new == <<RegionVerID(m), CHOOSE n \in free : \A i \in free : n <= i>>
             cleared == removeVersionFromCache(x, {RegionVerID(x.obj[p].m) : p \in old})
         IN [obj |-> [p \in Obj |-> IF p = new THEN Fresh(m)
                                    ELSE IF inv /\ p \in old THEN [x.obj[p] EXCEPT !.ok = FALSE] ELSE x.obj[p]],
             sorted |-> [k \in Keys |-> IF k = m.lo THEN new ELSE IF k \in starts THEN None ELSE x.sorted[k]],
             regions |-> [cleared.regions EXCEPT ![RegionVerID(m)] = new],
             latest |-> [cleared.latest EXCEPT ![m.id] = RegionVerID(m)]]

(* The regions ms, which do not overlap, one after the other. *)
inOrder(ms) == SetToSortSeq(ms, LAMBDA a, b : a.lo < b.lo)
insertAll(x, ms, inv, held) ==
    FoldLeft(LAMBDA y, m : insertRegionToCache(y, m, inv, held), x, ms)

GetCachedRegionWithRLock(m) == cache.regions[RegionVerID(m)]
isValid(o) == o # None /\ cache.obj[o].ok /\ "reload" \notin cache.obj[o].flags

-----------------------------------------------------------------------------
(* PD and the cluster. *)

(* The store applies the next split or merge; PD may hear of it before,    *)
(* from another store, or later.                                           *)
Apply ==
    /\ kv < Len(Topology)
    /\ kv' = kv + 1
    /\ UNCHANGED <<Topology, pd, follower, cache, client, gc, task, refresh, bounds>>

Heartbeat ==
    /\ pd < Len(Topology)
    /\ pd' = pd + 1
    /\ UNCHANGED <<Topology, kv, follower, cache, client, gc, task, refresh, bounds>>

FollowerSync ==
    /\ follower < pd
    /\ follower' = follower + 1
    /\ UNCHANGED <<Topology, kv, pd, cache, client, gc, task, refresh, bounds>>

(* GetRegion, GetRegionByID and GetPrevRegion at position v.               *)
GetRegion(v, k) == CHOOSE m \in Topology[v] : RegionContains(m, k)
GetRegionByEnd(v, k) == IF k = Inf THEN CHOOSE m \in Topology[v] : m.hi = k ELSE GetRegion(v, k)
GetPrevRegion(v, k) ==
    LET before == {m \in Topology[v] : m.hi = GetRegionByEnd(v, k).lo}
    IN IF before = {} THEN None ELSE CHOOSE m \in before : TRUE

-----------------------------------------------------------------------------
(* findRegionByKey. *)

At(c, pc) == client[c].pc = pc
Go(c, pc, held, mode, got, loc) ==
    client' = [client EXCEPT ![c] = [@ EXCEPT !.pc = pc, !.held = held, !.mode = mode, !.got = got, !.loc = loc]]

(* The search under the read lock, the check of the TTL and of the flags.  *)
searchCachedRegionByKey(c) ==
    LET r == SearchByKey(client[c].ask)
        reload == cache.obj[r].flags \cap {"reload", "ready"} IN
    /\ At(c, "search")
    /\ UNCHANGED <<env, gc, task, refresh, bounds>>
    /\ \/ /\ IF r = None THEN TRUE ELSE ~cache.obj[r].ok
          /\ Go(c, "load", None, "miss", None, None)
          /\ UNCHANGED cache
       \/ /\ IF r = None THEN FALSE ELSE cache.obj[r].ok /\ reload # {}
          /\ Go(c, "load", r, IF "reload" \in reload THEN "access" ELSE "delayed", None, None)
          /\ cache' = [cache EXCEPT !.obj[r].flags = @ \ reload]
       \/ /\ IF r = None THEN FALSE ELSE cache.obj[r].ok /\ reload = {}
          /\ Go(c, "send", None, "miss", None, cache.obj[r].m)
          /\ UNCHANGED cache

(* The views PD may answer from: a follower for the first call of a miss.  *)
Views(c) == IF client[c].mode = "miss" THEN follower .. pd ELSE {pd}

(* Mutant: the region that needs a reload is loaded by its ID. *)
loadRegion_ByID(c) ==
    LET cl == client[c] IN
    /\ At(c, "load")
    /\ \E v \in Views(c) :
         LET byID == IF cl.held = None THEN {} ELSE {n \in Topology[v] : n.id = cache.obj[cl.held].m.id}
             m == IF byID = {} THEN GetRegionByEnd(v, cl.ask.key) ELSE CHOOSE n \in byID : TRUE IN
         IF byID = {} /\ cl.ask.end /\ m.lo = cl.ask.key /\ m.lo # First
         THEN Go(c, "prev", cl.held, cl.mode, None, None)
         ELSE Go(c, "insert", cl.held, cl.mode, m, None)
    /\ UNCHANGED <<env, cache, gc, task, refresh, bounds>>

(* loadRegion, first call: for an end key that is the start of the region  *)
(* PD returns, the region before it is asked for in a second call.         *)
loadRegion(c) ==
    LET cl == client[c] IN
    /\ At(c, "load")
    /\ \E v \in Views(c) :
         LET m == GetRegionByEnd(v, cl.ask.key) IN
         IF cl.ask.end /\ m.lo = cl.ask.key /\ m.lo # First
         THEN Go(c, "prev", cl.held, cl.mode, None, None)
         ELSE Go(c, "insert", cl.held, cl.mode, m, None)
    /\ UNCHANGED <<env, cache, gc, task, refresh, bounds>>

(* loadRegion, second call: only the PD leader is asked. *)
loadPrevRegion(c) ==
    LET m == GetPrevRegion(pd, client[c].ask.key) IN
    /\ At(c, "prev") /\ m # None
    /\ Go(c, "insert", client[c].held, client[c].mode, m, None)
    /\ UNCHANGED <<env, cache, gc, task, refresh, bounds>>

(* PD fails until the backoff is exhausted, or has no region before the    *)
(* key: a miss is an error of the caller, a reload falls back to the       *)
(* cached region, which is marked again.                                   *)
loadFails(c) ==
    LET cl == client[c] IN
    /\ UNCHANGED <<env, gc, task, refresh>>
    /\ \/ cl.pc \in {"load", "prev"} /\ bounds.err > 0 /\ bounds' = [bounds EXCEPT !.err = @ - 1]
       \/ At(c, "prev") /\ GetPrevRegion(pd, cl.ask.key) = None /\ UNCHANGED bounds
    /\ IF cl.held = None THEN Go(c, "error", None, "miss", None, None)
       ELSE Go(c, "send", None, "miss", None, cache.obj[cl.held].m)
    /\ Set(setSyncFlags(cache, cl.held, {"reload"}), OthersThan(c))

(* The insertion; a stale region is loaded once more from the PD leader,   *)
(* and used whether or not that one is stale too.                          *)
insertLoaded(c) ==
    LET cl == client[c] IN
    /\ At(c, "insert")
    /\ UNCHANGED <<env, gc, task, refresh, bounds>>
    /\ IF cl.mode = "miss" /\ staleIn(cache, cl.got)
       THEN Go(c, "load", None, "retry", None, None)
       ELSE Go(c, "send", None, "miss", None, cl.got)
    /\ Set(insertRegionToCache(cache, cl.got, cl.mode # "delayed", OthersThan(c)), OthersThan(c))

-----------------------------------------------------------------------------
(* A request to the located region. *)

(* getRPCContext: a region that is not cached any more, or not valid, is   *)
(* an EpochNotMatch of its own; the caller locates the key again.          *)
getRPCContext(c) ==
    /\ At(c, "send")
    /\ IF isValid(GetCachedRegionWithRLock(client[c].loc))
       THEN Go(c, "sent", None, "miss", None, client[c].loc)
       ELSE Go(c, "search", None, "miss", None, None)
    /\ UNCHANGED <<env, cache, gc, task, refresh, bounds>>

(* The store serves the request, or knows the region at another epoch, or    *)
(* not at all; it may name regions that took its place.                    *)
Serve(c) ==
    LET loc == client[c].loc
        here == {m \in Topology[kv] : m.id = loc.id}
        around == {m \in Topology[kv] : m.lo < loc.hi /\ loc.lo < m.hi} IN
    /\ At(c, "sent")
    /\ \/ /\ loc \in here
          /\ client' = [client EXCEPT ![c].pc = "done", ![c].loc = None]
       \/ /\ here # {} /\ loc \notin here
          /\ \E rs \in {{}, here, around \cup here} :
                client' = [client EXCEPT ![c].pc = "answer", ![c].regs = rs]
       \/ /\ here = {}
          /\ client' = [client EXCEPT ![c].pc = "answer", ![c].regs = {}]
    /\ UNCHANGED <<env, cache, gc, task, refresh, bounds>>

(* Mutant: an error without regions leaves the cached region alone. *)
OnRegionEpochNotMatch_Ignored(c) ==
    /\ At(c, "answer")
    /\ client' = [client EXCEPT ![c].pc = IF client[c].regs = {} THEN "search" ELSE "replace", ![c].loc = None]
    /\ UNCHANGED <<env, cache, gc, task, refresh, bounds>>

(* OnRegionEpochNotMatch up to the lookup of the cached region, and        *)
(* onRegionNotFound: no regions, invalidate; behind the cache, try again;  *)
(* else the regions of the answer are to take the place of the cached one. *)
OnRegionEpochNotMatch(c) ==
    LET cl == client[c]
        ahead == \E m \in cl.regs : m.id = cl.loc.id /\ Ahead(cl.loc, m)
        cached == GetCachedRegionWithRLock(cl.loc) IN
    /\ At(c, "answer")
    /\ UNCHANGED <<env, gc, task, refresh, bounds>>
    /\ \/ /\ cl.regs = {}
          /\ client' = [client EXCEPT ![c].pc = "search", ![c].loc = None]
          /\ cache' = invalidate(cache, cached)
       \/ /\ ahead
          /\ client' = [client EXCEPT ![c].pc = "send", ![c].regs = {}]
          /\ UNCHANGED cache
       \/ /\ cl.regs # {} /\ ~ahead
          /\ client' = [client EXCEPT ![c].pc = "build", ![c].held = cached]
          /\ UNCHANGED cache

(* The new regions are built, which fails when a store cannot be resolved; *)
(* then the region looked up before is invalidated, unless it is among     *)
(* them.                                                                   *)
buildRegions(c) ==
    LET cl == client[c] IN
    /\ At(c, "build")
    /\ UNCHANGED <<env, gc, task, refresh>>
    /\ \/ /\ bounds.err > 0 /\ bounds' = [bounds EXCEPT !.err = @ - 1]
          /\ client' = [client EXCEPT ![c].pc = "error", ![c].held = None, ![c].loc = None, ![c].regs = {}]
          /\ Set(cache, OthersThan(c))
       \/ /\ UNCHANGED bounds
          /\ client' = [client EXCEPT ![c].pc = "replace", ![c].held = None, ![c].loc = None]
          /\ Set(IF cl.loc \in cl.regs THEN cache ELSE invalidate(cache, cl.held), OthersThan(c))

replaceRegions(c) ==
    /\ At(c, "replace")
    /\ UNCHANGED <<env, gc, task, refresh, bounds>>
    /\ client' = [client EXCEPT ![c].pc = "search", ![c].regs = {}]
    /\ Set(insertAll(cache, inOrder(client[c].regs), TRUE, OthersThan(c)), OthersThan(c))

(* The store does not answer: the region is to be reloaded on access.      *)
sendFails(c) ==
    /\ At(c, "sent") /\ bounds.expire > 0
    /\ UNCHANGED <<env, gc, task, refresh>>
    /\ bounds' = [bounds EXCEPT !.expire = @ - 1]
    /\ client' = [client EXCEPT ![c].pc = "send"]
    /\ cache' = setSyncFlags(cache, GetCachedRegionWithRLock(client[c].loc), {"reload"})

(* A selector that had to avoid a store asks for a reload later.           *)
delayReload(c) ==
    /\ At(c, "sent") /\ bounds.expire > 0
    /\ UNCHANGED <<env, gc, task, refresh>>
    /\ bounds' = [bounds EXCEPT !.expire = @ - 1]
    /\ UNCHANGED client
    /\ cache' = setSyncFlags(cache, GetCachedRegionWithRLock(client[c].loc), {"pending"})

-----------------------------------------------------------------------------
(* The TTL and the garbage collector. *)

(* The TTL passes: the region was not accessed, or is to expire anyway.    *)
isCacheTTLExpired(o) ==
    /\ bounds.expire > 0 /\ o \in Indexed(cache) /\ cache.obj[o].ok
    /\ bounds' = [bounds EXCEPT !.expire = @ - 1]
    /\ cache' = invalidate(cache, o)
    /\ UNCHANGED <<env, client, gc, task, refresh>>

(* gcRoundFunc under the read lock: the expired items among those of this  *)
(* round (limit of them from a cursor on), and the regions to check.  A    *)
(* round that would change nothing is left out.                            *)
gcScan(items) ==
    /\ ~refresh /\ gc.pc = "idle"
    /\ gc' = [pc |-> "scanned", expired |-> {o \in items : ~cache.obj[o].ok},
              check |-> {o \in items : cache.obj[o].ok /\ "pending" \in cache.obj[o].flags /\ "ready" \notin cache.obj[o].flags}]
    /\ gc'.expired \cup gc'.check # {}
    /\ UNCHANGED <<env, cache, client, task, refresh, bounds>>

(* gcRoundFunc under the lock: the items with the start keys of the        *)
(* expired ones are deleted, whatever they hold by now; then the flags.    *)
gcClean ==
    LET starts == {cache.obj[o].m.lo : o \in gc.expired}
        deleted == [cache EXCEPT !.sorted = [k \in Keys |-> IF k \in starts THEN None ELSE @[k]]]
        removed == removeVersionFromCache(deleted, {RegionVerID(cache.obj[o].m) : o \in gc.expired}) IN
    /\ gc.pc = "scanned"
    /\ UNCHANGED <<env, client, task, refresh, bounds>>
    /\ gc' = [pc |-> "idle", expired |-> {}, check |-> {}]
    /\ Set([removed EXCEPT !.obj = [o \in Obj |-> IF o \in gc.check THEN [@[o] EXCEPT !.flags = @ \cup {"ready"}] ELSE @[o]]],
           {client[c].held : c \in Client} \cup {task.held})

-----------------------------------------------------------------------------
(* Background operations: they load first and insert later. *)

Start == task.pc = "idle" /\ bounds.task > 0 /\ bounds' = [bounds EXCEPT !.task = @ - 1]

(* scanRegions and batchScanRegions: some regions of one view, in order;   *)
(* those without a leader and those past the limit are missing.            *)
BatchLoadRegionsWithKeyRanges ==
    /\ Start
    /\ \E v \in follower .. pd : \E ms \in SUBSET Topology[v] :
          ms # {} /\ task' = [Idle EXCEPT !.pc = "insert", !.inv = FALSE, !.todo = inOrder(ms)]
    /\ UNCHANGED <<env, cache, client, gc, refresh>>

UpdateBucketsIfNeeded(i) ==
    /\ Start
    /\ \E v \in VerIDs : v.id = i /\ cache.regions[v] # None
    /\ task' = [Idle EXCEPT !.pc = "load", !.id = i]
    /\ UNCHANGED <<env, cache, client, gc, refresh>>

LocateRegionByID(i) ==
    LET o == IF cache.latest[i] = None THEN None ELSE cache.regions[cache.latest[i]]
        cached == IF o = None THEN FALSE ELSE cache.obj[o].ok
        reload == cache.obj[o].flags \cap {"reload", "ready"} IN
    /\ Start
    /\ UNCHANGED <<env, client, gc, refresh>>
    /\ \/ /\ ~cached
          /\ task' = [Idle EXCEPT !.pc = "load", !.id = i]
          /\ UNCHANGED cache
       \/ /\ cached
          /\ reload # {}
          /\ task' = [Idle EXCEPT !.pc = "load", !.id = i, !.held = o, !.inv = "reload" \in reload]
          /\ cache' = [cache EXCEPT !.obj[o].flags = @ \ reload]

(* loadRegionByID: without such a region the caller fails or keeps what it *)
(* has, to be reloaded.                                                    *)
loadRegionByID ==
    LET found == {m \in Topology[pd] : m.id = task.id} IN
    /\ task.pc = "load"
    /\ UNCHANGED <<env, client, gc, refresh, bounds>>
    /\ \/ /\ \E m \in found : task' = [task EXCEPT !.pc = "insert", !.held = None, !.todo = <<m>>]
          /\ Set(cache, HeldBy(Client))
       \/ /\ found = {}
          /\ task' = Idle
          /\ Set(setSyncFlags(cache, task.held, {"reload"}), HeldBy(Client))

insertTask ==
    /\ task.pc = "insert"
    /\ UNCHANGED <<env, client, gc, refresh, bounds>>
    /\ task' = Idle
    /\ Set(insertAll(cache, task.todo, task.inv, HeldBy(Client)), HeldBy(Client))

(* refreshRegionIndex: the scan, and the new index in place of the old.    *)
refreshRegionIndex ==
    /\ refresh /\ Start
    /\ \E v \in follower .. pd : task' = [Idle EXCEPT !.pc = "swap", !.todo = inOrder(Topology[v])]
    /\ UNCHANGED <<env, cache, client, gc, refresh>>

refreshSwap ==
    /\ task.pc = "swap"
    /\ UNCHANGED <<env, client, gc, refresh, bounds>>
    /\ task' = Idle
    /\ LET empty == [cache EXCEPT !.sorted = [k \in Keys |-> None], !.regions = [v \in VerIDs |-> None],
                                  !.latest = [i \in IDs |-> None]]
       IN Set(insertAll(empty, task.todo, TRUE, HeldBy(Client)), HeldBy(Client))

-----------------------------------------------------------------------------
Caller(c) ==
    \/ searchCachedRegionByKey(c) \/ loadRegion(c) \/ loadPrevRegion(c) \/ loadFails(c)
    \/ insertLoaded(c) \/ getRPCContext(c) \/ OnRegionEpochNotMatch(c) \/ buildRegions(c) \/ replaceRegions(c)
    \/ sendFails(c) \/ delayReload(c) \/ Serve(c)

Background ==
    \/ gcClean \/ loadRegionByID \/ insertTask \/ refreshRegionIndex \/ refreshSwap
    \/ BatchLoadRegionsWithKeyRanges
    \/ \E items \in SUBSET (Range(cache.sorted) \ {None}) : gcScan(items)
    \/ \E o \in Obj : isCacheTTLExpired(o)
    \/ \E i \in IDs : UpdateBucketsIfNeeded(i) \/ LocateRegionByID(i)

Cluster == Heartbeat \/ FollowerSync \/ Apply

Next == Background \/ Cluster \/ \E c \in Client : Caller(c)

(* Weak fairness of Caller(c), written out: a caller has a step to take    *)
(* until it is finished, and only its own steps change client[c].          *)
Runs(c) == []<>(client[c].pc \in {"done", "error"}) \/ []<><<client'[c] # client[c]>>_vars

(* Callers run, PD hears of what stores applied, and stores apply what the *)
(* cluster decided.  Nothing is assumed of the background jobs.            *)
Spec ==
    /\ Init /\ [][Next]_vars
    /\ WF_vars(Cluster)
    /\ \A c \in Client : Runs(c)

-----------------------------------------------------------------------------
(* Properties. *)

(* The maps agree whatever callers, the garbage collector and background   *)
(* loads do between their critical sections: an item of the tree is the    *)
(* region under its own version, a latest version is there ("should not    *)
(* happen" otherwise, searchCachedRegionByID), and none is later.          *)
IndexesAgree ==
    /\ TypeOK
    /\ \A k \in Keys : cache.sorted[k] # None =>
          /\ cache.obj[cache.sorted[k]].m.lo = k
          /\ cache.regions[RegionVerID(cache.obj[cache.sorted[k]].m)] = cache.sorted[k]
    /\ \A i \in IDs : cache.latest[i] # None =>
          /\ cache.regions[cache.latest[i]] # None
          /\ \A v \in VerIDs : v.id = i /\ cache.regions[v] # None => ~Ahead(v, cache.latest[i])

(* LocateKey: the location that a caller gets contains the key, also when  *)
(* the region was flagged and reloaded while the cluster split or merged   *)
(* it.                                                                     *)
LocatedContainsKey ==
    \A c \in Client : client[c].loc # None /\ ~client[c].ask.end => RegionContains(client[c].loc, client[c].ask.key)

(* LocateEndKey: "start key of a region is exclusive and end key is        *)
(* inclusive", for the location that a caller gets.                        *)
LocatedContainsEndKey ==
    \A c \in Client : client[c].loc # None /\ client[c].ask.end => ContainsByEnd(client[c].loc, client[c].ask.key)

(* However stale the cache becomes, a request gets through (or PD fails)   *)
(* once the cluster is at rest: no region that every store refuses stays   *)
(* in the cache.                                                           *)
RequestsSettle == \A c \in Client : <>(client[c].pc \in {"done", "error"})
=============================================================================
