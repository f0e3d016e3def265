--------------------------- MODULE RegionRequest ---------------------------
(***************************************************************************)
(* Sending a request to a region (internal/locate/region_request.go,       *)
(* replica_selector.go) and what the senders share: the cached region,     *)
(* with its work peer and proxy, and the stores (store_cache.go), with     *)
(* their epoch, liveness and resolve state.  Requests of several kinds run *)
(* against a region whose leader moves, whose stores crash or are cut off, *)
(* and which answers with region errors.  Peer i of the region is on store *)
(* i.  Versions and ranges of regions are the subject of RegionCache.      *)
(*                                                                         *)
(* An epoch matters only when it is compared with a snapshot of it, and is *)
(* never seen twice: a snapshot is therefore the Boolean "still equal".    *)
(* Slowness, load and labels of stores decide among candidates; slow and   *)
(* loaded stores are chosen anew at each selection.                        *)
(***************************************************************************)
EXTENDS Integers, FiniteSets, Sequences

CONSTANTS
    Request,    \* requests, one per sender
    N,          \* stores
    Scenarios,  \* what to explore: the kind of each request (ask), the number of peers
                \* of the region (peers), whether requests may be forwarded (forward),
                \* the region errors that stores answer with (errs), the stores
                \* that may fail (victims), and how often they crash (crash) or are
                \* cut off from the client (cut),
                \* leaders move (move), and errors or stale hints happen (err)
    MaxAttempt, \* bound: maxReplicaAttempt
    None

Store == 1 .. N

\* maxReplicaAttempt is 10: a leader that was exhausted keeps one try.
ASSUME PeersAssumption == N \in Nat \ {0, 1} /\ MaxAttempt \in Nat \ {0, 1}

(* Reads of any type, writes at the leader.  A stale read is made by       *)
(* EnableStaleWithMixedReplicaRead.                                        *)
Types == {"leader", "follower", "mixed", "preferLeader"}
Asks ==
    {a \in [read : BOOLEAN, type : Types, busy : BOOLEAN, labels : SUBSET Store, timeout : BOOLEAN, stale : BOOLEAN] :
        (~a.read => a.type = "leader" /\ ~a.stale) /\ (a.stale => a.type = "mixed")}
RegionErrors ==
    {"Retry", "Reload", "StoreNotMatch", "Deadline", "FlashbackInProgress", "Busy", "BusyNoWait", "DataIsNotReady",
     "RegionNotFound"}
ASSUME ScenariosAssumption ==
    /\ IsFiniteSet(Request)
    /\ \A sc \in Scenarios :
          /\ sc.forward \in BOOLEAN /\ sc.peers \in 1 .. N /\ sc.errs \subseteq RegionErrors /\ sc.victims \subseteq Store
          /\ \A r \in Request : sc.ask[r] = None \/ sc.ask[r] \in Asks

Regions == [ok : BOOLEAN, reload : BOOLEAN, work : Store, proxy : Store \cup {None}, fresh : [Store -> BOOLEAN]]
ASSUME NoneAssumption == None \notin Int /\ None \notin Regions

VARIABLES
    leader,  \* the peer that leads the region
    up,      \* the stores that run
    cut,     \* the stores that the client cannot reach
    store,   \* store[s]: liveness, health check loop, resolve state
    region,  \* region[o]: cached regions and those that selectors still hold
    cached,  \* the one in the cache
    sel,     \* sel[r]: place, request and selector
    conf,    \* peers, forward, errs and victims of the scenario
    bounds   \* what is left of the budget

vars == <<leader, up, cut, store, region, cached, sel, conf, bounds>>
env == <<leader, up, cut, conf>>

Peers == 1 .. conf.peers

Object == 1 .. Cardinality(Request) + 1
Flags == {"deadline", "notReady", "notLeader", "busy"}
Fresh(l) == [ok |-> TRUE, reload |-> FALSE, work |-> l, proxy |-> None, fresh |-> [s \in Store |-> TRUE]]

(* A request before it is sent: NewReplicaReadRequest and                  *)
(* EnableStaleWithMixedReplicaRead.                                        *)
NewRequest(a) ==
    [pc |-> "locate", read |-> a.read, type |-> a.type, busy |-> a.busy, labels |-> a.labels, timeout |-> a.timeout,
     staleRead |-> a.stale, replicaRead |-> a.type # "leader" /\ ~a.stale,
     obj |-> None, rt |-> a.type, isStale |-> FALSE, prefer |-> FALSE, attempts |-> 0, target |-> None, proxy |-> None,
     again |-> FALSE, rep |-> [s \in Store |-> [fresh |-> TRUE, att |-> 0, flags |-> {}]], got |-> None]

TypeOK ==
    /\ leader \in Store /\ up \subseteq Store /\ cut \subseteq Store
    /\ store \in [Store -> [live : {"reachable", "unreachable", "unknown"}, loop : BOOLEAN, resolve : {"resolved", "needCheck"}]]
    /\ DOMAIN region = Object /\ cached \in Object \cup {None}
    /\ \A o \in Object : region[o] # None =>
          /\ region[o].work \in Store /\ region[o].proxy \in Store \cup {None}
          /\ region[o].fresh \in [Store -> BOOLEAN]
    /\ \A r \in Request :
          /\ sel[r].pc \in {"locate", "select", "build", "sent", "failed", "mark", "invalidate", "answer", "done", "error"}
          /\ sel[r].obj \in Object \cup {None} /\ sel[r].target \in Store \cup {None} /\ sel[r].proxy \in Store \cup {None}
          /\ \A s \in Store : sel[r].rep[s].att \in 0 .. MaxAttempt + N /\ sel[r].rep[s].flags \subseteq Flags

Init ==
    \E sc \in Scenarios :
       /\ leader = 1 /\ up = Store /\ cut = {}
       /\ store = [s \in Store |-> [live |-> "reachable", loop |-> FALSE, resolve |-> "resolved"]]
       /\ region = [o \in Object |-> IF o = 1 THEN Fresh(1) ELSE None] /\ cached = 1
       /\ sel = [r \in Request |-> IF sc.ask[r] = None THEN [NewRequest([read |-> TRUE, type |-> "leader", busy |-> FALSE,
                                          labels |-> {}, timeout |-> FALSE, stale |-> FALSE]) EXCEPT !.pc = "done"]
                                   ELSE NewRequest(sc.ask[r])]
       /\ conf = [forward |-> sc.forward, peers |-> sc.peers, errs |-> sc.errs, victims |-> sc.victims] /\ bounds = sc.bounds

-----------------------------------------------------------------------------
(* The cluster. *)

Spend(b) == bounds[b] > 0 /\ bounds' = [bounds EXCEPT ![b] = @ - 1]
Reach(s) == s \in up /\ s \notin cut

(* At most one store is down at a time: the region keeps its quorum.       *)
Crash(s) ==
    /\ Spend("crash") /\ up = Store /\ s \in conf.victims
    /\ up' = up \ {s}
    /\ UNCHANGED <<leader, cut, store, region, cached, sel, conf>>
Restart ==
    /\ up # Store
    /\ up' = Store
    /\ UNCHANGED <<leader, cut, store, region, cached, sel, conf, bounds>>
Cut(s) ==
    /\ Spend("cut") /\ cut = {} /\ s \in conf.victims
    /\ cut' = {s}
    /\ UNCHANGED <<leader, up, store, region, cached, sel, conf>>
Heal ==
    /\ cut # {}
    /\ cut' = {}
    /\ UNCHANGED <<leader, up, store, region, cached, sel, conf, bounds>>
Transfer ==
    /\ Spend("move") /\ leader \in up
    /\ leader' \in (up \cap Peers) \ {leader}
    /\ UNCHANGED <<up, cut, store, region, cached, sel, conf>>
Elect ==
    /\ leader \notin up
    /\ leader' \in up \cap Peers
    /\ UNCHANGED <<up, cut, store, region, cached, sel, conf, bounds>>

-----------------------------------------------------------------------------
(* Regions and stores. *)

isValid(o) == region[o].ok /\ ~region[o].reload
invalidate(rg, o) == [rg EXCEPT ![o].ok = FALSE]

(* Every snapshot of the epoch of s, in regions and selectors, is stale.   *)
staleRegions(s) == [o \in Object |-> IF region[o] = None THEN None ELSE [region[o] EXCEPT !.fresh[s] = FALSE]]
staleSelectors(s) == [r \in Request |-> [sel[r] EXCEPT !.rep[s].fresh = FALSE]]

(* switchWorkLeaderToPeer: the epoch of the store is read again.           *)
switchWorkLeaderToPeer(rg, o, s) ==
    IF rg[o].work = s THEN rg ELSE [rg EXCEPT ![o].work = s, ![o].fresh[s] = TRUE]

(* The health service of a store serves, or does not answer. *)
requestLiveness(s) ==
    IF store[s].resolve # "resolved" THEN {"unknown"} ELSE IF Reach(s) THEN {"reachable"} ELSE {"unreachable"}

markStoreNeedCheck(s) == [store EXCEPT ![s].resolve = "needCheck"]

(* Mutant: the loop ends after one tick. *)
HealthCheck_Once(s) ==
    /\ store[s].loop
    /\ \E l \in requestLiveness(s) :
          store' = [store EXCEPT ![s].live = l, ![s].loop = FALSE]
    /\ UNCHANGED <<env, region, cached, sel, bounds>>

(* One tick of the health check loop of a store. *)
HealthCheck(s) ==
    /\ store[s].loop
    /\ \E l \in requestLiveness(s) :
          store' = [store EXCEPT ![s].live = l, ![s].loop = l # "reachable"]
    /\ UNCHANGED <<env, region, cached, sel, bounds>>

(* checkAndResolve, triggered by an event or by its tick. *)
reResolve(s) ==
    /\ store[s].resolve = "needCheck"
    /\ store' = [store EXCEPT ![s].resolve = "resolved"]
    /\ UNCHANGED <<env, region, cached, sel, bounds>>

-----------------------------------------------------------------------------
(* Locating the region and creating the selector. *)

At(r, pc) == sel[r].pc = pc
(* The selectors after a step of r; what no selector holds is freed. *)
Step(r, new) == sel' = [sel EXCEPT ![r] = new]
Goto(r, pc) == Step(r, [sel[r] EXCEPT !.pc = pc])
Held(r) == {sel[q].obj : q \in Request \ {r}}

(* The region error goes to the caller, which locates the region again and *)
(* sends the same request.                                                 *)
Retry(r) == [sel[r] EXCEPT !.pc = "locate", !.obj = None, !.isStale = FALSE, !.prefer = FALSE, !.attempts = 0,
                           !.target = None, !.proxy = None, !.again = FALSE, !.got = None,
                           !.rep = [s \in Store |-> [fresh |-> TRUE, att |-> 0, flags |-> {}]], !.rt = sel[r].type]
Free(rg, o, held) == IF o = None \/ o \in held THEN rg ELSE [rg EXCEPT ![o] = None]
RegionError(r, rg) ==
    /\ Step(r, Retry(r))
    /\ region' = Free(rg, sel[r].obj, Held(r) \cup {cached})

(* newReplicaSelector, on the region o as rg has it. *)
newReplicaSelector(r, rg, o) ==
    LET q == sel[r] IN
    Step(r, [q EXCEPT !.pc = "select", !.obj = o, !.rt = q.type, !.isStale = q.staleRead, !.prefer = q.type = "preferLeader",
                      !.rep = [s \in Store |-> [fresh |-> rg[o].fresh[s], att |-> 0, flags |-> {}]]])

(* LocateKey finds a valid region, or loads one with the leader that PD     *)
(* knows of.                                                               *)
LocateKey(r) ==
    LET free == Object \ (Held(r) \cup {cached})
        new == CHOOSE o \in free : \A p \in free : o <= p IN
    /\ At(r, "locate")
    /\ \/ /\ isValid(cached)
          /\ newReplicaSelector(r, region, cached)
          /\ UNCHANGED <<region, cached, bounds>>
       \/ /\ ~isValid(cached)
          /\ cached' = new
          /\ \E l \in Peers :
               /\ \/ l = leader /\ UNCHANGED bounds
                  \/ l # leader /\ Spend("err")
               /\ region' = [Free(invalidate(region, cached), cached, Held(r)) EXCEPT ![new] = Fresh(l)]
               /\ newReplicaSelector(r, region', new)
    /\ UNCHANGED <<env, store>>

-----------------------------------------------------------------------------
(* Selection. *)

isExhausted(r, s, n) == sel[r].rep[s].att >= n
hasFlag(r, s, f) == f \in sel[r].rep[s].flags
isEpochStale(r, s) == ~sel[r].rep[s].fresh
work(r) == region[sel[r].obj].work

isLeaderCandidate(r, s) ==
    /\ store[s].live = "reachable"
    /\ ~isExhausted(r, s, MaxAttempt)
    /\ sel[r].rep[s].flags \cap {"deadline", "notLeader"} = {}
    /\ ~isEpochStale(r, s)

(* ReplicaSelectMixedStrategy: candidates and the choice of one with the   *)
(* highest score, or none.  opt: tryLeader, prefer, busy (busyThreshold).  *)
isCandidate(r, s, opt, slow, loaded) ==
    /\ ~isEpochStale(r, s)
    /\ store[s].live # "unreachable"
    /\ ~isExhausted(r, s, IF hasFlag(r, s, "notReady") /\ s # work(r) THEN 2 ELSE 1)
    /\ opt.busy => s \notin loaded /\ ~hasFlag(r, s, "busy") /\ s # work(r)
    /\ opt.prefer /\ s \in slow => s = work(r)

(* The leader's strategy hands no labels to the choice of another peer.     *)
calculateScore(r, s, opt, slow) ==
    LET bit(b, w) == IF b THEN w ELSE 0
        isLeader == s = work(r)
        labels == IF sel[r].rt = "leader" THEN {} ELSE sel[r].labels IN
      bit(s \notin slow, 16)
    + bit(labels = {} \/ s \in labels, 8)
    + bit(isLeader /\ (IF opt.prefer THEN s \notin slow ELSE opt.tryLeader /\ labels # {}), 4)
    + bit(IF isLeader THEN IF opt.prefer THEN s \in slow ELSE opt.tryLeader /\ labels = {} ELSE TRUE, 2)
    + bit(sel[r].rep[s].att = 0, 1)

Mixed(r, opt, loaded) ==
    UNION {LET all == {s \in Peers : isCandidate(r, s, opt, slow, loaded)}
               score == [s \in all |-> calculateScore(r, s, opt, slow)]
           IN IF all = {} THEN {None} ELSE {s \in all : \A p \in all : score[p] <= score[s]} : slow \in SUBSET Peers}

NoOption == [tryLeader |-> FALSE, prefer |-> FALSE, busy |-> FALSE]
hasDeadlineExceededError(r) == \E s \in Store : hasFlag(r, s, "deadline")

(* The outcome of a selection: target, flags of the request, threshold.    *)
Pick(r, t) == [target |-> t, staleRead |-> sel[r].staleRead, replicaRead |-> sel[r].replicaRead, busy |-> sel[r].busy]

(* Mutant: any request may try other peers. *)
nextForReplicaReadLeader_AnyRequest(r) ==
    LET l == work(r) IN
    IF ~isLeaderCandidate(r, l)
    THEN {[Pick(r, t) EXCEPT !.replicaRead = TRUE, !.staleRead = FALSE] : t \in Mixed(r, NoOption, {})}
    ELSE {Pick(r, l)}

(* nextForReplicaReadLeader without a proxy: the leader; another peer when *)
(* it is too busy, or cannot be tried.                                     *)
nextForReplicaReadLeader(r) ==
    LET q == sel[r]  l == work(r)
        avoid(loaded) == q.busy /\ q.read /\ (l \in loaded \/ hasFlag(r, l, "busy"))
        idle(loaded) == {IF t = None THEN [Pick(r, l) EXCEPT !.busy = FALSE, !.replicaRead = FALSE]
                                     ELSE [Pick(r, t) EXCEPT !.replicaRead = TRUE] :
                         t \in Mixed(r, [NoOption EXCEPT !.busy = TRUE], loaded)}
        others == {IF t # None /\ q.read /\ hasFlag(r, l, "deadline")
                   THEN [Pick(r, t) EXCEPT !.replicaRead = TRUE, !.staleRead = FALSE] ELSE Pick(r, t) :
                   t \in Mixed(r, NoOption, {})} IN
    IF ~isLeaderCandidate(r, l) THEN others
    ELSE UNION {IF avoid(loaded) THEN idle(loaded) ELSE {Pick(r, l)} : loaded \in IF q.busy THEN SUBSET Peers ELSE {{}}}

(* nextForReplicaReadMixed; canSendReplicaRead is inlined.                 *)
nextForReplicaReadMixed(r, attempts) ==
    LET q == sel[r]  l == work(r)
        opt == [tryLeader |-> q.type \in {"mixed", "preferLeader"}, prefer |-> q.prefer, busy |-> FALSE]
        canSendReplicaRead == q.rep[l].att > 0 /\ q.rep[l].flags \cap {"deadline", "busy"} = {}
        fallback(t) == (attempts # 1 \/ ((q.labels # {} /\ t \notin q.labels) /\ t # l)) /\ canSendReplicaRead IN
    IF q.isStale /\ attempts = 2 /\ isLeaderCandidate(r, l) /\ ~isExhausted(r, l, 1)
    THEN {[Pick(r, l) EXCEPT !.staleRead = FALSE, !.replicaRead = FALSE]}
    ELSE {IF t = None THEN Pick(r, t)
          ELSE IF q.isStale THEN [Pick(r, t) EXCEPT !.staleRead = ~fallback(t), !.replicaRead = fallback(t)]
          ELSE [Pick(r, t) EXCEPT !.staleRead = FALSE, !.replicaRead = q.read /\ t # l] : t \in Mixed(r, opt, {})}

(* The proxies that ReplicaSelectLeaderWithProxyStrategy may return: none  *)
(* are needed, or the one the region remembers, or the first candidate.    *)
needsProxy(r) ==
    conf.forward /\ sel[r].rt = "leader" /\ store[work(r)].live # "reachable" /\ ~hasFlag(r, work(r), "notLeader")
proxyCandidates(r) ==
    {s \in Peers \ {work(r)} : ~isExhausted(r, s, 1) /\ store[s].live = "reachable" /\ ~isEpochStale(r, s)}
proxyFor(r) ==
    LET all == proxyCandidates(r)
        last == region[sel[r].obj].proxy
    IN IF last \in all THEN last ELSE CHOOSE s \in all : \A p \in all : s <= p

canSelect(r) == At(r, "select") /\ (sel[r].again \/ isValid(sel[r].obj))
attempt(r) == IF sel[r].attempts < 3 THEN sel[r].attempts + 1 ELSE 3    \* first, second, later

(* The selector's region is not valid any more. *)
invalidSelector(r) ==
    /\ At(r, "select") /\ ~canSelect(r)
    /\ RegionError(r, region)
    /\ UNCHANGED <<env, store, cached, bounds>>

(* next: the target, with no candidate the region is invalidated, unless a *)
(* read timed out.                                                         *)
next(r) ==
    LET q == sel[r]
        choices == IF q.rt = "leader" THEN nextForReplicaReadLeader(r) ELSE nextForReplicaReadMixed(r, attempt(r))
        unset == IF conf.forward /\ q.rt = "leader" THEN [region EXCEPT ![q.obj].proxy = None] ELSE region IN
    /\ canSelect(r) /\ ~needsProxy(r)
    /\ \E ch \in choices :
         /\ Step(r, [q EXCEPT !.pc = "build", !.again = FALSE, !.attempts = attempt(r), !.target = ch.target, !.proxy = None,
                              !.staleRead = ch.staleRead, !.replicaRead = ch.replicaRead, !.busy = ch.busy])
         /\ region' = IF ch.target = None /\ ~hasDeadlineExceededError(r) THEN invalidate(unset, q.obj) ELSE unset
    /\ UNCHANGED <<env, store, cached, bounds>>

nextProxy(r) ==
    /\ canSelect(r) /\ needsProxy(r) /\ proxyCandidates(r) # {}
    /\ Step(r, [sel[r] EXCEPT !.pc = "build", !.again = FALSE, !.attempts = attempt(r), !.target = work(r), !.proxy = proxyFor(r)])
    /\ UNCHANGED <<env, store, region, cached, bounds>>

(* All followers were tried as proxy: the store of the leader is marked,   *)
(* the region is to be reloaded, and the caller gets a region error.       *)
nextNoProxy(r) ==
    LET l == work(r)
        stale == IF isEpochStale(r, l) THEN region ELSE staleRegions(l) IN
    /\ canSelect(r) /\ needsProxy(r) /\ proxyCandidates(r) = {}
    /\ sel' = [(IF isEpochStale(r, l) THEN sel ELSE staleSelectors(l)) EXCEPT ![r] = Retry(r)]
    /\ region' = Free([stale EXCEPT ![sel[r].obj].reload = TRUE], sel[r].obj, Held(r) \cup {cached})
    /\ store' = IF isEpochStale(r, l) THEN store ELSE markStoreNeedCheck(l)
    /\ UNCHANGED <<env, cached, bounds>>

(* buildRPCContext: the epochs are checked again. *)
buildRPCContext(r) ==
    LET q == sel[r]
        used == {q.target, q.proxy} \ {None} IN
    /\ At(r, "build")
    /\ UNCHANGED <<env, store, cached, bounds>>
    /\ \/ /\ q.target = None
          /\ RegionError(r, region)
       \/ /\ q.target # None /\ \E s \in used : isEpochStale(r, s)
          /\ RegionError(r, invalidate(region, q.obj))
       \/ /\ q.target # None /\ \A s \in used : ~isEpochStale(r, s)
          /\ Step(r, [q EXCEPT !.pc = "sent", !.rep = [s \in Store |-> IF s \in used THEN [q.rep[s] EXCEPT !.att = @ + 1] ELSE q.rep[s]]])
          /\ UNCHANGED region

-----------------------------------------------------------------------------
(* What comes back. *)

Reached(r) == IF sel[r].proxy = None THEN Reach(sel[r].target) ELSE Reach(sel[r].proxy) /\ sel[r].target \in up
Served(r) == sel[r].staleRead \/ sel[r].replicaRead \/ sel[r].target = leader

(* The request is served: onSendSuccess. *)
onSendSuccess(r) ==
    LET q == sel[r]
        proxied == IF q.proxy = None THEN region ELSE [region EXCEPT ![q.obj].proxy = q.proxy]
        moved == IF q.staleRead \/ q.replicaRead THEN proxied ELSE switchWorkLeaderToPeer(proxied, q.obj, q.target) IN
    /\ At(r, "sent") /\ Reached(r) /\ Served(r)
    /\ Step(r, [Retry(r) EXCEPT !.pc = "done"])
    /\ region' = Free(moved, q.obj, Held(r) \cup {cached})
    /\ UNCHANGED <<env, store, cached, bounds>>

(* The peer does not lead: it names the leader; or none, when there is     *)
(* none or it has not heard of it; or one that does not lead any more.     *)
answerNotLeader(r) ==
    /\ At(r, "sent") /\ Reached(r) /\ ~Served(r)
    /\ \E hint \in Peers \cup {None} :
         /\ hint # sel[r].target
         /\ \/ hint = (IF leader \in up THEN leader ELSE None) /\ UNCHANGED bounds
            \/ hint # (IF leader \in up THEN leader ELSE None) /\ Spend("err")
         /\ Step(r, [sel[r] EXCEPT !.pc = "answer", !.got = [err |-> "NotLeader", leader |-> hint]])
    /\ UNCHANGED <<env, store, region, cached>>

(* The store answers with another region error.                           *)
answerError(r) ==
    /\ At(r, "sent") /\ Reached(r) /\ Spend("err")
    /\ \E e \in conf.errs :
         /\ e = "DataIsNotReady" => sel[r].staleRead /\ sel[r].target # leader
         /\ Step(r, [sel[r] EXCEPT !.pc = "answer", !.got = [err |-> e]])
    /\ UNCHANGED <<env, store, region, cached>>

(* No answer: the store cannot be reached, or the call timed out.          *)
sendFails(r) ==
    /\ At(r, "sent")
    /\ \/ ~Reached(r) /\ UNCHANGED bounds
       \/ Reached(r) /\ Spend("err")
    /\ Goto(r, "failed")
    /\ UNCHANGED <<env, store, region, cached>>

-----------------------------------------------------------------------------
(* Region errors. *)

addFlag(r, f) == [sel[r] EXCEPT !.pc = "select", !.rep[sel[r].target].flags = @ \cup {f}]
Error(r, e) == At(r, "answer") /\ sel[r].got.err = e

(* The replica that leads now gets another chance.                         *)
onUpdateLeader(q, l) ==
    LET old == q.rep[l] IN
    [q EXCEPT !.rep[l] = [old EXCEPT !.flags = @ \ {"notLeader"},
                                     !.att = IF @ >= MaxAttempt THEN MaxAttempt - 1 ELSE @]]

(* updateLeader takes the leader of the answer only if it is reachable.    *)
updateLeader(l) == l # None /\ store[l].live = "reachable"

(* A reachable leader becomes the work peer of the cached region, and the  *)
(* request becomes a leader read if that leader may still be tried.        *)
onNotLeader(r) ==
    LET q == addFlag(r, "notLeader")
        l == sel[r].got.leader
        chance == onUpdateLeader(q, l)
        candidate == chance.rep[l].fresh /\ "deadline" \notin chance.rep[l].flags IN
    /\ Error(r, "NotLeader")
    /\ IF updateLeader(l)
         THEN /\ Step(r, IF candidate THEN [chance EXCEPT !.rt = "leader"] ELSE chance)
              /\ region' = switchWorkLeaderToPeer(region, q.obj, l)
         ELSE Step(r, q) /\ UNCHANGED region
    /\ UNCHANGED <<env, store, cached, bounds>>

(* The leader was not tried yet: it is, though the region is invalidated   *)
(* for everybody else.                                                     *)
onRegionNotFound(r) ==
    LET q == sel[r] IN
    /\ Error(r, "RegionNotFound")
    /\ \/ /\ ~isExhausted(r, work(r), 1)
          /\ Step(r, [q EXCEPT !.pc = "select", !.rt = "leader", !.type = "leader", !.replicaRead = FALSE, !.again = TRUE])
          /\ region' = invalidate(region, cached)
       \/ /\ isExhausted(r, work(r), 1)
          /\ RegionError(r, invalidate(region, cached))
    /\ UNCHANGED <<env, store, cached, bounds>>

(* onServerIsBusy, with an estimated wait time or without.  canFastRetry   *)
(* marks the peer too, and the request backs off later.                    *)
canFastRetry(r) == ~(sel[r].rt = "leader" /\ isLeaderCandidate(r, work(r)) /\ ~hasFlag(r, work(r), "busy"))
onServerIsBusy(r) ==
    /\ \/ Error(r, "Busy") \/ Error(r, "BusyNoWait")
    /\ LET counted == sel[r].got.err = "Busy" /\ sel[r].busy /\ sel[r].read
       IN IF counted \/ canFastRetry(r) THEN Step(r, addFlag(r, "busy")) ELSE Goto(r, "select")
    /\ UNCHANGED <<env, store, region, cached, bounds>>

(* onReadReqConfigurableTimeout: of a busy store, or of a send that failed. *)
onReadReqConfigurableTimeout(r) ==
    /\ Error(r, "Deadline") \/ At(r, "failed")
    /\ sel[r].read /\ sel[r].timeout
    /\ Step(r, addFlag(r, "deadline"))
    /\ UNCHANGED <<env, store, region, cached, bounds>>

onDataIsNotReady(r) ==
    /\ Error(r, "DataIsNotReady")
    /\ Step(r, addFlag(r, "notReady"))
    /\ UNCHANGED <<env, store, region, cached, bounds>>

onFlashbackInProgress(r) ==
    LET q == sel[r] IN
    /\ Error(r, "FlashbackInProgress")
    /\ \/ /\ q.replicaRead /\ q.target # work(r)
          /\ Step(r, [q EXCEPT !.pc = "select", !.busy = FALSE, !.rt = "leader", !.type = "leader", !.replicaRead = FALSE])
          /\ UNCHANGED region
       \/ /\ ~(q.replicaRead /\ q.target # work(r))
          /\ Step(r, [Retry(r) EXCEPT !.pc = "error"])
          /\ region' = Free(region, q.obj, Held(r) \cup {cached})
    /\ UNCHANGED <<env, store, cached, bounds>>

(* onRegionError, the rest: the next peer is tried, after a backoff or at  *)
(* once; or the cached region and the selector's are invalidated; or, for  *)
(* StoreNotMatch, the store is resolved again, too.                        *)
retryNextPeer(r) ==
    /\ Error(r, "Retry") \/ (Error(r, "Deadline") /\ ~(sel[r].read /\ sel[r].timeout))
    /\ Goto(r, "select")
    /\ UNCHANGED <<env, store, region, cached, bounds>>
reloadRegion(r) ==
    /\ Error(r, "Reload")
    /\ RegionError(r, invalidate(invalidate(region, cached), sel[r].obj))
    /\ UNCHANGED <<env, store, cached, bounds>>
onStoreNotMatch(r) ==
    /\ Error(r, "StoreNotMatch")
    /\ RegionError(r, invalidate(region, cached))
    /\ store' = markStoreNeedCheck(sel[r].target)
    /\ UNCHANGED <<env, cached, bounds>>

-----------------------------------------------------------------------------
(* Sends that fail. *)

Failed(r) == IF sel[r].proxy = None THEN sel[r].target ELSE sel[r].proxy

(* onSendFailure, when the failure is not the deadline of a timed read: the *)
(* liveness is requested ... *)
checkLiveness(r) ==
    /\ At(r, "failed")
    /\ \E l \in requestLiveness(Failed(r)) :
          Step(r, [sel[r] EXCEPT !.pc = IF l = "reachable" THEN "select" ELSE "mark", !.got = IF l = "reachable" THEN None ELSE [live |-> l]])
    /\ UNCHANGED <<env, store, region, cached, bounds>>

(* Mutant: the loop is started only for an unreachable store. *)
startHealthCheckLoop_Unreachable(r) ==
    LET s == Failed(r)  l == sel[r].got.live
        useProxy == conf.forward /\ sel[r].rt = "leader" /\ sel[r].proxy = None /\ sel[r].target = work(r) /\ l = "unreachable" IN
    /\ At(r, "mark")
    /\ store' = IF store[s].live = "reachable" THEN [store EXCEPT ![s].live = l, ![s].loop = l = "unreachable"] ELSE store
    /\ Step(r, [sel[r] EXCEPT !.pc = IF useProxy THEN "select" ELSE "invalidate", !.got = None])
    /\ UNCHANGED <<env, region, cached, bounds>>

(* ... the first to find the store not reachable starts its loop; with     *)
(* forwarding an unreachable leader is reached through a proxy ...         *)
startHealthCheckLoop(r) ==
    LET s == Failed(r)  l == sel[r].got.live
        useProxy == conf.forward /\ sel[r].rt = "leader" /\ sel[r].proxy = None /\ sel[r].target = work(r) /\ l = "unreachable" IN
    /\ At(r, "mark")
    /\ store' = IF store[s].live = "reachable" THEN [store EXCEPT ![s].live = l, ![s].loop = TRUE] ELSE store
    /\ Step(r, [sel[r] EXCEPT !.pc = IF useProxy THEN "select" ELSE "invalidate", !.got = None])
    /\ UNCHANGED <<env, region, cached, bounds>>

(* ... and all regions of the store become stale, once.                    *)
invalidateReplicaStore(r) ==
    LET s == Failed(r) IN
    /\ At(r, "invalidate")
    /\ \/ /\ isEpochStale(r, s)
          /\ Goto(r, "select")
          /\ UNCHANGED <<store, region>>
       \/ /\ ~isEpochStale(r, s)
          /\ sel' = [staleSelectors(s) EXCEPT ![r].pc = "select"]
          /\ region' = staleRegions(s)
          /\ store' = markStoreNeedCheck(s)
    /\ UNCHANGED <<env, cached, bounds>>

-----------------------------------------------------------------------------
getRPCContext(r) ==
    LocateKey(r) \/ invalidSelector(r) \/ next(r) \/ nextProxy(r) \/ nextNoProxy(r) \/ buildRPCContext(r)
send(r) == onSendSuccess(r) \/ answerNotLeader(r) \/ answerError(r) \/ sendFails(r)
onSendFail(r) == checkLiveness(r) \/ startHealthCheckLoop(r) \/ invalidateReplicaStore(r)
onRegionError(r) ==
    \/ onNotLeader(r) \/ onRegionNotFound(r) \/ onServerIsBusy(r) \/ onReadReqConfigurableTimeout(r) \/ onDataIsNotReady(r)
    \/ onFlashbackInProgress(r) \/ retryNextPeer(r) \/ reloadRegion(r) \/ onStoreNotMatch(r)

(* sendReqState.next: the steps of the retry loop. *)
Sender(r) == getRPCContext(r) \/ send(r) \/ onSendFail(r) \/ onRegionError(r)

Cluster == Restart \/ Heal \/ Transfer \/ \E s \in Store : Crash(s) \/ Cut(s)

Next ==
    \/ Cluster \/ Elect
    \/ \E s \in Store : HealthCheck(s) \/ reResolve(s)
    \/ \E r \in Request : Sender(r)

Finished(r) == sel[r].pc \in {"done", "error"}
(* Weak fairness of Sender(r), written out: until it is finished a request *)
(* has a step to take.                                                     *)
Runs(r) == []<>Finished(r) \/ []<><<sel'[r] # sel[r]>>_vars

(* Requests, health check loops and the resolver run, a region with a      *)
(* quorum elects a leader.  Stores may stay down and the network broken.   *)
Spec ==
    /\ Init /\ [][Next]_vars
    /\ \A r \in Request : Runs(r)
    /\ WF_vars(Elect)
    /\ \A s \in Store : WF_vars(HealthCheck(s)) /\ WF_vars(reResolve(s))

-----------------------------------------------------------------------------
(* Properties. *)

(* The flags that a request carries when it is sent, after any number of   *)
(* retries: a write is neither a stale nor a replica read, and a read is   *)
(* not both.                                                               *)
FlagsHonest ==
    /\ TypeOK
    /\ \A r \in Request : At(r, "sent") =>
          /\ ~sel[r].read => ~sel[r].staleRead /\ ~sel[r].replicaRead
          /\ ~(sel[r].staleRead /\ sel[r].replicaRead)

(* A store that the client can reach again is used again. *)
StoresRecover == \A s \in Store : <>[](Reach(s)) => <>[](store[s].live = "reachable")

(* Whatever the cache, the stores' states and the flags have become, a     *)
(* request is served once the cluster is at rest, unless the client is     *)
(* cut off from the leader and requests are not forwarded.                 *)
RequestsServed == \A r \in Request : <>Finished(r) \/ (~conf.forward /\ []<>(cut # {}))

-----------------------------------------------------------------------------
(* The inductive invariant of requests of which no stale read has a busy   *)
(* threshold.                                                              *)

OneReadMode == \A sc \in Scenarios, r \in Request : sc.ask[r] # None /\ sc.ask[r].stale => ~sc.ask[r].busy

Active == {"select", "build", "sent", "failed", "mark", "invalidate", "answer"}
Failures == [live : {"unreachable", "unknown"}]
Answers == [err : {"NotLeader"}, leader : Store \cup {None}] \cup [err : RegionErrors]
Selectors ==
    [pc : Active \cup {"locate", "done", "error"}, read : BOOLEAN, type : Types, busy : BOOLEAN, labels : SUBSET Store,
     timeout : BOOLEAN, staleRead : BOOLEAN, replicaRead : BOOLEAN, obj : Object \cup {None}, rt : Types,
     isStale : BOOLEAN, prefer : BOOLEAN, attempts : Nat, target : Store \cup {None}, proxy : Store \cup {None},
     again : BOOLEAN, rep : [Store -> [fresh : BOOLEAN, att : Nat, flags : SUBSET Flags]],
     got : {None} \cup Failures \cup Answers]

\* Where a request is says what it knows; who was selected may be tried.
Placed(q) ==
    /\ q.pc \in Active => q.obj \in Object
    /\ q.pc \in Active \ {"select", "build"} => q.target \in Store
    /\ q.pc = "build" /\ q.target # None =>
          IF q.proxy = None THEN q.rep[q.target].att < MaxAttempt ELSE q.proxy # q.target /\ q.rep[q.proxy].att = 0
    /\ q.pc = "mark" => q.got \in Failures
    /\ q.pc = "answer" => q.got \in Answers

\* What a request reads, and how.
Honest(q) ==
    /\ ~q.read => q.type = "leader" /\ q.rt = "leader" /\ ~q.staleRead /\ ~q.replicaRead /\ ~q.isStale
    /\ ~(q.staleRead /\ q.replicaRead)
    /\ q.staleRead \/ q.isStale => ~q.busy

\* A peer is tried more often than MaxAttempt only through proxies, each of
\* which is tried once.
Tried(q) == {p \in Store : q.rep[p].att > 0}
Bounded(q) == \A s \in Store : q.rep[s].att <= MaxAttempt + Cardinality(Tried(q) \ {s})

RequestInv ==
    /\ leader \in Store /\ up \subseteq Store /\ cut \subseteq Store
    /\ store \in [Store -> [live : {"reachable", "unreachable", "unknown"}, loop : BOOLEAN, resolve : {"resolved", "needCheck"}]]
    /\ conf \in [forward : BOOLEAN, peers : 1 .. N, errs : SUBSET RegionErrors, victims : SUBSET Store]
    /\ region \in [Object -> Regions \cup {None}] /\ cached \in Object /\ region[cached] # None
    /\ sel \in [Request -> Selectors]
    /\ \A r \in Request :
          /\ Placed(sel[r]) /\ Honest(sel[r]) /\ Bounded(sel[r])
          /\ sel[r].pc \in Active => region[sel[r].obj] # None
=============================================================================
