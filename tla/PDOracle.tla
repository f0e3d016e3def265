------------------------------ MODULE PDOracle ------------------------------
(***************************************************************************)
(* The timestamp oracle (oracle/oracles/pd.go).  Callers fetch timestamps  *)
(* from PD, read the newest one cached for a transaction scope, and have   *)
(* read timestamps validated against it or, when it is too old, against a  *)
(* fetch that concurrent validations of the scope share.  A goroutine      *)
(* refreshes the cache, on a ticker whose interval shrinks when stale      *)
(* reads ask for fresher data and grows back when they stop.               *)
(*                                                                         *)
(* A process that fetches a timestamp (a caller, the shared fetch of a     *)
(* scope, the goroutine) goes through the steps of GetTimestamp: asked,    *)
(* answered or failed, stamped with its arrival, cached pointer loaded,    *)
(* compared and swapped.  Times are in units of the local clock, which PD  *)
(* shares.                                                                 *)
(***************************************************************************)
EXTENDS Integers, FiniteSets

CONSTANTS
    Client,      \* callers
    Scopes,      \* transaction scopes; Global is cached from the start
    Global, Updater, None,
    Logical,     \* timestamps of one physical time unit
    minAllowed,          \* minAllowedAdaptiveUpdateTSInterval
    ShrinkingPreserve,   \* adaptiveUpdateTSIntervalShrinkingPreserve
    BlockThreshold,      \* adaptiveUpdateTSIntervalBlockRecoverThreshold
    RecoverPerUnit,      \* adaptiveUpdateTSIntervalRecoverPerSecond
    DelayBeforeRecovering, \* adaptiveUpdateTSIntervalDelayBeforeRecovering
    Scenarios    \* what to explore: the callers (clients), the calls they make (calls)
                 \* and their scopes (scopes), the intervals that may be configured, the
                 \* first at the start (confs), the last time (time), and how many
                 \* calls are made (n), requests to PD fail (fail), intervals are set (set)
                 \* and timestamps go to others (other)

VARIABLES
    now,         \* the clock
    allocated,   \* the last timestamp PD gave out
    lastTSMap,   \* per scope: the newest timestamp with its arrival, or None
    getter,      \* per process: its GetTimestamp
    flight,      \* per scope: the callers that share tsForValidation's fetch, or None
    call,        \* per caller: its call
    interval,    \* configured, adaptive, state, last short staleness read, last tick
    updater,     \* the goroutine: place, ticker interval and deadline, scopes to do
    shrinkCh,    \* shrinkIntervalCh: the staleness required, or None
    scenario, bounds

vars == <<now, allocated, lastTSMap, getter, flight, call, interval, updater,
          shrinkCh, scenario, bounds>>

ASSUME ConstantsAssumption ==
    /\ Global \in Scopes
    /\ {Logical, minAllowed, ShrinkingPreserve, RecoverPerUnit} \subseteq Nat \ {0}
    /\ {BlockThreshold, DelayBeforeRecovering} \subseteq Nat
    /\ Client \cap Scopes = {} /\ Updater \notin Client \cup Scopes

ASSUME ScenariosAssumption ==
    \A sc \in Scenarios :
        /\ sc.scopes \subseteq Scopes /\ sc.reads \subseteq Int /\ sc.staleness \subseteq Nat
        /\ sc.stale \subseteq BOOLEAN /\ sc.conf \in Nat \ {0} /\ sc.confs \subseteq Nat \ {0}
        /\ {sc.n, sc.fail, sc.set, sc.other, sc.time} \subseteq Nat

(* lastTSO, and the states of a process that fetches and of a call.        *)
LastTSO == [tso : Nat, arrival : Nat]
GetterState ==
    [st : {"idle", "asked", "failed", "answered", "stamped", "loaded", "done"},
     scope : Scopes, ts : Nat, arrival : Nat, seen : LastTSO \cup {None}]
CallState ==
    [pc : {"idle", "get", "stale", "failed", "check", "wait", "fetched", "ok", "future"},
     readTS : Int, stale : BOOLEAN, scope : Scopes, retrying : BOOLEAN,
     current : Nat \cup {None}, started : Nat, prev : Nat]
IntervalState ==
    [configured : Nat \ {0}, adaptive : Int,
     state : {"none", "normal", "adapting", "recovering", "unadjustable"},
     lastShort : Int, lastTick : Int]
UpdaterState ==
    [pc : {"select", "update", "closed"}, cur : Int, next : Int, deadline : Int,
     todo : SUBSET Scopes]

ASSUME NoneAssumption ==
    None \notin LastTSO /\ None \notin Nat /\ \A cs \in SUBSET Client : None # cs

Getters == Client \cup Scopes \cup {Updater}
Max2(a, b) == IF a >= b THEN a ELSE b
Min2(a, b) == IF a <= b THEN a ELSE b

ComposeTS(physical, logical) == physical * Logical + logical
ExtractPhysical(ts) == ts \div Logical

-----------------------------------------------------------------------------
(* The steps of getTimestamp and setLastTS, for any process.               *)

NotFetching == [st |-> "idle", scope |-> Global, ts |-> 0, arrival |-> 0, seen |-> None]
Fetching(s) == [NotFetching EXCEPT !.st = "asked", !.scope = s]
Done(x) == getter[x].st \in {"done", "failed"}
getOf(x, g) == getter' = [getter EXCEPT ![x] = g]

(* PD gives out a timestamp at its physical time, above all before.  When  *)
(* it has no more logical ones it waits for its clock.                     *)
Allocate ==
    /\ allocated' = Max2(allocated + 1, ComposeTS(now, 0))
    /\ ExtractPhysical(allocated') <= now

getTimestamp(x) ==
    /\ getter[x].st = "asked"
    /\ Allocate
    /\ getOf(x, [getter[x] EXCEPT !.st = "answered", !.ts = allocated'])
    /\ UNCHANGED <<lastTSMap, bounds>>

getTimestampFails(x) ==
    /\ getter[x].st = "asked"
    /\ bounds.fail > 0
    /\ bounds' = [bounds EXCEPT !.fail = @ - 1]
    /\ getOf(x, [getter[x] EXCEPT !.st = "failed"])
    /\ UNCHANGED <<allocated, lastTSMap>>

setLastTS(x) ==
    /\ getter[x].st = "answered"
    /\ getOf(x, [getter[x] EXCEPT !.st = "stamped", !.arrival = now])
    /\ UNCHANGED <<allocated, lastTSMap, bounds>>

(* LoadOrStore of the scope's pointer, then a load through it.             *)
setLastTS_Load(x) ==
    LET g == getter[x]
        last == lastTSMap[g.scope]
        current == [tso |-> g.ts, arrival |-> g.arrival]
    IN  /\ g.st = "stamped"
        /\ \/ /\ last = None
              /\ lastTSMap' = [lastTSMap EXCEPT ![g.scope] = current]
              /\ getOf(x, [g EXCEPT !.st = "done"])
           \/ /\ last # None
              /\ getOf(x, IF g.ts <= last.tso THEN [g EXCEPT !.st = "done"]
                          ELSE [g EXCEPT !.st = "loaded", !.seen = last,
                                         !.arrival = Max2(@, last.arrival)])
              /\ UNCHANGED lastTSMap
        /\ UNCHANGED <<allocated, bounds>>

(* Stores without comparing.                                               *)
setLastTS_CAS_Blind(x) ==
    LET g == getter[x]
    IN  /\ g.st = "loaded"
        /\ getOf(x, [g EXCEPT !.st = "done", !.seen = None])
        /\ lastTSMap' = [lastTSMap EXCEPT ![g.scope] = [tso |-> g.ts, arrival |-> g.arrival]]
        /\ UNCHANGED <<allocated, bounds>>

setLastTS_CAS(x) ==
    LET g == getter[x]
        swap == lastTSMap[g.scope] = g.seen
    IN  /\ g.st = "loaded"
        /\ getOf(x, [g EXCEPT !.st = IF swap THEN "done" ELSE "stamped", !.seen = None])
        /\ lastTSMap' = IF swap
                        THEN [lastTSMap EXCEPT ![g.scope] = [tso |-> g.ts, arrival |-> g.arrival]]
                        ELSE lastTSMap
        /\ UNCHANGED <<allocated, bounds>>

GetTimestamp(x) ==
    /\ getTimestamp(x) \/ getTimestampFails(x) \/ setLastTS(x)
       \/ setLastTS_Load(x) \/ setLastTS_CAS(x)
    /\ UNCHANGED <<now, flight, call, interval, updater, shrinkCh, scenario>>

-----------------------------------------------------------------------------
(* The update interval.                                                    *)

(* The first check that applies decides; a request to shrink tries only    *)
(* the first two.                                                          *)
nextUpdateInterval(required) ==
    LET conf == interval.configured
        cur == interval.adaptive
        recent == now - interval.lastShort < DelayBeforeRecovering
        grown == Min2(conf, cur + RecoverPerUnit * (now - interval.lastTick))
        to(state, new) == [interval EXCEPT !.state = state, !.adaptive = new]
    IN  IF conf <= minAllowed THEN to("unadjustable", conf)
        ELSE IF required # 0 /\ required < cur /\ cur > minAllowed
        THEN to("adapting", Max2(required - ShrinkingPreserve, minAllowed))
        ELSE IF cur # conf /\ recent THEN to("adapting", cur)
        ELSE IF required # 0 THEN interval
        ELSE IF cur = conf THEN to("normal", cur)
        ELSE to(IF grown = conf THEN "normal" ELSE "recovering", grown)

SetLowResolutionTimestampUpdateInterval(new) ==
    /\ new # interval.configured
    /\ bounds.set > 0
    /\ bounds' = [bounds EXCEPT !.set = @ - 1]
    /\ interval' = [interval EXCEPT
            !.configured = new,
            !.adaptive = IF @ = interval.configured \/ new < @ THEN new ELSE @]
    /\ UNCHANGED <<now, allocated, lastTSMap, getter, flight, call, updater, shrinkCh,
                   scenario>>

(* A stale read of staleness required is noted when it is close to the     *)
(* interval, and asks for a shorter one when it is within it, unless       *)
(* another read's request still waits in the channel.                      *)
adjustUpdateLowResolutionTSInterval(readTS, currentTS) ==
    LET required == ExtractPhysical(currentTS) - ExtractPhysical(readTS)
        cur == interval.adaptive
    IN  /\ interval' = IF required <= cur + BlockThreshold /\ interval.lastShort < now
                       THEN [interval EXCEPT !.lastShort = now] ELSE interval
        /\ shrinkCh' = IF required <= cur /\ cur > minAllowed /\ shrinkCh = None
                       THEN Max2(required, 1) ELSE shrinkCh

-----------------------------------------------------------------------------
(* The refreshing goroutine.                                               *)

Known == {s \in Scopes : lastTSMap[s] # None}

updateTS_Tick ==
    /\ updater.pc = "select"
    /\ updater.deadline <= now
    /\ interval' = nextUpdateInterval(0)
    /\ updater' = [updater EXCEPT !.pc = "update", !.todo = Known,
                                  !.next = interval'.adaptive]
    /\ UNCHANGED <<getter, shrinkCh>>

(* Restarts the ticker, however old the cached timestamp is.               *)
updateTS_Shrink_NoRefresh ==
    /\ updater.pc = "select"
    /\ shrinkCh # None
    /\ interval' = nextUpdateInterval(shrinkCh)
    /\ updater' = IF interval'.adaptive = updater.cur THEN updater
                  ELSE [updater EXCEPT !.cur = interval'.adaptive, !.next = interval'.adaptive,
                                       !.deadline = now + interval'.adaptive]
    /\ shrinkCh' = None
    /\ UNCHANGED getter

updateTS_Shrink ==
    /\ updater.pc = "select"
    /\ shrinkCh # None
    /\ interval' = nextUpdateInterval(shrinkCh)
    /\ LET new == interval'.adaptive
       IN  updater' = IF new = updater.cur THEN updater
                      ELSE IF now - interval.lastTick >= new
                      THEN [updater EXCEPT !.pc = "update", !.todo = Known, !.next = new]
                      ELSE [updater EXCEPT !.cur = new, !.next = new, !.deadline = now + new]
    /\ shrinkCh' = None
    /\ UNCHANGED getter

doUpdate_Scope(s) ==
    /\ updater.pc = "update"
    /\ getter[Updater].st = "idle"
    /\ s \in updater.todo
    /\ getOf(Updater, Fetching(s))
    /\ updater' = [updater EXCEPT !.todo = @ \ {s}]
    /\ UNCHANGED <<interval, shrinkCh>>

doUpdate_Next ==
    /\ updater.pc = "update"
    /\ Done(Updater)
    /\ getOf(Updater, NotFetching)
    /\ UNCHANGED <<updater, interval, shrinkCh>>

(* The end of doUpdate, and the ticker's reset.                            *)
doUpdate_End ==
    /\ updater.pc = "update"
    /\ updater.todo = {} /\ getter[Updater].st = "idle"
    /\ interval' = [interval EXCEPT !.lastTick = now]
    /\ updater' = [updater EXCEPT !.pc = "select", !.cur = updater.next,
                                  !.deadline = now + updater.next]
    /\ UNCHANGED <<getter, shrinkCh>>

Close ==
    /\ scenario.close
    /\ updater.pc = "select"
    /\ updater' = [updater EXCEPT !.pc = "closed"]
    /\ UNCHANGED <<getter, interval, shrinkCh>>

updateTS ==
    /\ \/ updateTS_Tick \/ updateTS_Shrink \/ doUpdate_Next \/ doUpdate_End \/ Close
       \/ \E s \in Scopes : doUpdate_Scope(s)
    /\ UNCHANGED <<now, allocated, lastTSMap, flight, call, scenario, bounds>>

-----------------------------------------------------------------------------
(* Callers.                                                                *)

NoCall == [pc |-> "idle", readTS |-> 0, stale |-> FALSE, scope |-> Global,
           retrying |-> FALSE, current |-> None, started |-> 0, prev |-> 0]
callOf(c, r) == call' = [call EXCEPT ![c] = r]
free == <<now, allocated, lastTSMap, updater, scenario>>

MayCall(c, kind) ==
    /\ c \in scenario.clients /\ kind \in scenario.calls
    /\ call[c].pc \in {"idle", "ok", "future", "failed", "stale"}
    /\ ~Done(c) /\ getter[c].st = "idle"
    /\ bounds.n > 0
    /\ bounds' = [bounds EXCEPT !.n = @ - 1]

(* GetTimestamp, or GetTimestampAsync and its future's Wait.               *)
CallGetTimestamp(c, s) ==
    /\ MayCall(c, "get")
    /\ getOf(c, Fetching(s))
    /\ callOf(c, [NoCall EXCEPT !.pc = "get"])
    /\ UNCHANGED <<free, flight, interval, shrinkCh>>

CallReturns(c) ==
    /\ call[c].pc = "get"
    /\ Done(c)
    /\ getOf(c, NotFetching)
    /\ callOf(c, NoCall)
    /\ UNCHANGED <<free, flight, interval, shrinkCh, bounds>>

getStaleTimestampWithLastTS(last, prev) ==
    ComposeTS(ExtractPhysical(last.tso) + now - prev - last.arrival, 0)

(* A scope without a timestamp yet is given one, and the call fails.       *)
GetStaleTimestamp(c, s, prev) ==
    LET last == lastTSMap[s]
    IN  /\ MayCall(c, "stale")
        /\ \/ /\ last = None
              /\ getOf(c, Fetching(s))
              /\ callOf(c, [NoCall EXCEPT !.pc = "get"])
           \/ /\ last # None
              /\ callOf(c, [NoCall EXCEPT
                    !.pc = IF ExtractPhysical(last.tso) <= prev THEN "failed" ELSE "stale",
                    !.readTS = getStaleTimestampWithLastTS(last, prev),
                    !.prev = prev, !.started = now])
              /\ UNCHANGED getter
        /\ UNCHANGED <<free, flight, interval, shrinkCh>>

ValidateReadTS(c, readTS, stale, s) ==
    /\ MayCall(c, "validate")
    /\ callOf(c, [NoCall EXCEPT !.pc = "check", !.readTS = readTS, !.stale = stale,
                                !.scope = s, !.started = allocated])
    /\ UNCHANGED <<free, getter, flight, interval, shrinkCh>>

(* The cached timestamp covers the read: accepted.                         *)
ValidateReadTS_Cached(c) ==
    LET r == call[c]
        last == lastTSMap[r.scope]
    IN  /\ r.pc = "check"
        /\ last # None
        /\ r.readTS <= last.tso
        /\ IF r.stale /\ ~r.retrying /\ ExtractPhysical(last.tso) > 0
           THEN adjustUpdateLowResolutionTSInterval(r.readTS,
                    getStaleTimestampWithLastTS(last, 0))
           ELSE UNCHANGED <<interval, shrinkCh>>
        /\ callOf(c, [r EXCEPT !.pc = "ok"])
        /\ UNCHANGED <<free, getter, flight, bounds>>

(* Otherwise the scope's fetch is started, or joined if it has not         *)
(* delivered yet.                                                          *)
getCurrentTSForValidation(c) ==
    LET r == call[c]
        last == lastTSMap[r.scope]
        joins == flight[r.scope] # None
    IN  /\ r.pc = "check"
        /\ last = None \/ (last # None /\ r.readTS > last.tso)
        /\ flight' = [flight EXCEPT ![r.scope] = IF joins THEN @ \cup {c} ELSE {c}]
        /\ getter' = IF joins THEN getter ELSE [getter EXCEPT ![r.scope] = Fetching(r.scope)]
        /\ callOf(c, [r EXCEPT !.pc = "wait"])
        /\ UNCHANGED <<free, interval, shrinkCh, bounds>>

(* A caller whose context ends leaves; the fetch goes on for the others.   *)
ContextDone(c) ==
    /\ call[c].pc = "wait"
    /\ scenario.cancel
    /\ callOf(c, [call[c] EXCEPT !.pc = "failed"])
    /\ flight' = [flight EXCEPT ![call[c].scope] = @ \ {c}]
    /\ UNCHANGED <<free, getter, interval, shrinkCh, bounds>>

(* singleflight: the key is forgotten as the result goes to all callers.   *)
DoChan(s) ==
    LET g == getter[s]
    IN  /\ flight[s] # None
        /\ Done(s)
        /\ call' = [c \in Client |->
                IF c \notin flight[s] THEN call[c]
                ELSE IF g.st = "failed" THEN [call[c] EXCEPT !.pc = "failed"]
                ELSE [call[c] EXCEPT !.pc = "fetched", !.current = g.ts]]
        /\ flight' = [flight EXCEPT ![s] = None]
        /\ getOf(s, NotFetching)
        /\ UNCHANGED <<free, interval, shrinkCh, bounds>>

(* Takes the first answer for the last.                                    *)
ValidateReadTS_Fetched_Once(c) ==
    LET r == call[c]
    IN  /\ r.pc = "fetched"
        /\ UNCHANGED <<interval, shrinkCh>>
        /\ callOf(c, [r EXCEPT !.pc = IF r.readTS <= r.current THEN "ok" ELSE "future"])
        /\ UNCHANGED <<free, getter, flight, bounds>>

(* The fetched timestamp decides, the second time: the first may be that   *)
(* of a fetch that began before this call.                                 *)
ValidateReadTS_Fetched(c) ==
    LET r == call[c]
    IN  /\ r.pc = "fetched"
        /\ IF r.stale /\ ~r.retrying
           THEN adjustUpdateLowResolutionTSInterval(r.readTS, r.current)
           ELSE UNCHANGED <<interval, shrinkCh>>
        /\ callOf(c, IF r.readTS <= r.current THEN [r EXCEPT !.pc = "ok"]
                     ELSE IF r.retrying THEN [r EXCEPT !.pc = "future"]
                     ELSE [r EXCEPT !.pc = "check", !.retrying = TRUE, !.current = None])
        /\ UNCHANGED <<free, getter, flight, bounds>>

ReadTSs == {Max2(1, allocated + d) : d \in scenario.reads}
           \cup {Max2(1, ComposeTS(now - d, 0)) : d \in scenario.staleness}

Caller(c) ==
    \/ CallReturns(c) \/ ContextDone(c) \/ getCurrentTSForValidation(c)
    \/ ValidateReadTS_Cached(c) \/ ValidateReadTS_Fetched(c)
    \/ \E s \in scenario.scopes :
          \/ CallGetTimestamp(c, s)
          \/ \E prev \in scenario.staleness : GetStaleTimestamp(c, s, prev)
          \/ \E ts \in ReadTSs, stale \in scenario.stale : ValidateReadTS(c, ts, stale, s)

-----------------------------------------------------------------------------
(* PD gives another client of the cluster a timestamp, which reaches the   *)
(* callers here as a read timestamp.                                       *)
OthersGetTimestamp ==
    /\ bounds.other > 0
    /\ bounds' = [bounds EXCEPT !.other = @ - 1]
    /\ Allocate
    /\ UNCHANGED <<now, lastTSMap, getter, flight, call, interval, updater, shrinkCh, scenario>>

(* The clock.  The goroutine takes its ticks and requests, and has PD's    *)
(* answers, within a unit of time.                                         *)

Advance ==
    /\ now < scenario.time
    /\ updater.pc = "select" /\ now < updater.deadline /\ shrinkCh = None
    /\ now' = now + 1
    /\ UNCHANGED <<allocated, lastTSMap, getter, flight, call, interval, updater, shrinkCh,
                   scenario, bounds>>

Init ==
    /\ scenario \in Scenarios
    /\ now = 1
    /\ allocated = ComposeTS(1, 0)
    /\ lastTSMap = [s \in Scopes |-> IF s = Global THEN [tso |-> allocated, arrival |-> 1]
                                                   ELSE None]
    /\ getter = [x \in Getters |-> NotFetching]
    /\ flight = [s \in Scopes |-> None]
    /\ call = [c \in Client |-> NoCall]
    /\ interval = [configured |-> scenario.conf, adaptive |-> scenario.conf,
                   state |-> "none", lastShort |-> -DelayBeforeRecovering, lastTick |-> 1]
    /\ updater = [pc |-> "select", cur |-> scenario.conf, next |-> scenario.conf,
                  deadline |-> 1 + scenario.conf, todo |-> {}]
    /\ shrinkCh = None
    /\ bounds = [n |-> scenario.n, fail |-> scenario.fail, set |-> scenario.set,
                 other |-> scenario.other]

Next ==
    \/ Advance
    \/ OthersGetTimestamp
    \/ updateTS
    \/ \E x \in Getters : GetTimestamp(x)
    \/ \E s \in Scopes : DoChan(s)
    \/ \E c \in Client : Caller(c)
    \/ \E new \in scenario.confs : SetLowResolutionTimestampUpdateInterval(new)

Spec == Init /\ [][Next]_vars

-----------------------------------------------------------------------------
(* Properties.                                                             *)

TypeOK ==
    /\ \A s \in Scopes : lastTSMap[s] # None => lastTSMap[s].tso \in 1 .. allocated
    /\ \A s \in Scopes : flight[s] # None => flight[s] \subseteq Client
    /\ interval.state \in {"none", "normal", "adapting", "recovering", "unadjustable"}
    /\ updater.pc \in {"select", "update", "closed"}
    /\ updater.todo \subseteq Scopes

(* ValidateReadTS accepts no timestamp that PD has not given out, and      *)
(* calls none a future read that PD had given out, to anyone, before the   *)
(* call: though the cached timestamp is older, and the fetch that decides  *)
(* may be shared with validations that began earlier (pd.go, retrying).    *)
ReadTSValidated ==
    \A c \in Client :
        /\ call[c].pc = "ok" => call[c].readTS <= allocated
        /\ call[c].pc = "future" => call[c].readTS > call[c].started

(* GetStaleTimestamp's estimate of the time prev ago is never later than   *)
(* that: the cached timestamp is counted from an arrival that is not       *)
(* before PD gave it out, whichever update stored it.                      *)
StaleTimestampNotAhead ==
    \A c \in Client : call[c].pc = "stale" =>
        ExtractPhysical(call[c].readTS) <= call[c].started - call[c].prev

TimestampsHonest == TypeOK /\ ReadTSValidated /\ StaleTimestampNotAhead

(* Concurrent setLastTS never move a scope's timestamp, or its arrival     *)
(* time, backwards, and a GetTimestamp that returned is in the cache.      *)
LastTSAdvances ==
    [][/\ \A s \in Scopes : lastTSMap[s] # None =>
            /\ lastTSMap'[s].tso >= lastTSMap[s].tso
            /\ lastTSMap'[s].arrival >= lastTSMap[s].arrival
       /\ \A x \in Getters : getter'[x].st = "done" =>
            lastTSMap'[getter'[x].scope].tso >= getter'[x].ts]_vars

(* While the oracle is open: the adaptive interval stays between the least *)
(* allowed and the configured one; the next refresh is less than two       *)
(* intervals after the last, however often requests reset the ticker; and  *)
(* once no read asks for fresh data, the interval grows back at the set    *)
(* rate, through any change of the configuration.                          *)
RefreshKeepsUp ==
    LET least == Min2(minAllowed, interval.configured)
        quiet == interval.lastTick - interval.lastShort - DelayBeforeRecovering
    IN  updater.pc # "closed" =>
        /\ interval.adaptive \in least .. interval.configured
        /\ updater.deadline < interval.lastTick + 2 * updater.cur
        /\ updater.pc = "select" /\ quiet >= 0 =>
              interval.adaptive >= Min2(interval.configured, least + RecoverPerUnit * quiet)

-----------------------------------------------------------------------------
(* The inductive invariants: OracleInv behind TimestampsHonest and         *)
(* LastTSAdvances, and RefreshInv behind RefreshKeepsUp.                   *)

Types ==
    /\ TypeOK /\ scenario \in Scenarios
    /\ now \in Nat \ {0} /\ allocated \in Nat \ {0} /\ ExtractPhysical(allocated) <= now
    /\ lastTSMap \in [Scopes -> LastTSO \cup {None}]
    /\ getter \in [Getters -> GetterState]
    /\ flight \in [Scopes -> (SUBSET Client) \cup {None}]
    /\ call \in [Client -> CallState]
    /\ interval \in IntervalState /\ updater \in UpdaterState /\ shrinkCh \in Nat \cup {None}

(* A cached timestamp arrived when PD's clock was past its physical time.  *)
CacheHonest ==
    \A s \in Scopes : lastTSMap[s] # None =>
        /\ ExtractPhysical(lastTSMap[s].tso) <= lastTSMap[s].arrival
        /\ lastTSMap[s].arrival <= now

(* What a process that fetches holds: a timestamp PD gave out, its time of *)
(* arrival, the older entry it is to replace; it ends with its timestamp,  *)
(* or a newer one, in the cache.                                           *)
GetterOK(g) ==
    /\ g.st \in {"answered", "stamped", "loaded", "done"} =>
          g.ts \in 1 .. allocated /\ ExtractPhysical(g.ts) <= now
    /\ g.st \in {"stamped", "loaded"} => ExtractPhysical(g.ts) <= g.arrival /\ g.arrival <= now
    /\ g.st = "loaded" => g.seen # None /\ g.seen.tso < g.ts /\ g.seen.arrival <= g.arrival
    /\ g.st = "done" => lastTSMap[g.scope] # None /\ g.ts <= lastTSMap[g.scope].tso
GettersHonest == \A x \in Getters : GetterOK(getter[x])

FlightsMatch ==
    \A c \in Client, s \in Scopes :
        (flight[s] # None /\ c \in flight[s]) <=> (call[c].pc = "wait" /\ call[c].scope = s)

(* The fetch of the scope of r, if any, gives a timestamp above all that   *)
(* were given out when r began.                                            *)
Fresh(r) ==
    flight[r.scope] # None =>
        getter[r.scope].st \in {"asked", "failed"} \/ getter[r.scope].ts > r.started

(* A call that was answered once only meets fetches younger than itself.   *)
CallOK(r) ==
    /\ r.pc \in {"check", "wait", "fetched"} => r.started <= allocated
    /\ r.pc = "fetched" \/ (r.retrying /\ r.pc \in {"check", "wait"}) => Fresh(r)
    /\ r.pc = "fetched" => /\ r.current \in Nat /\ r.current <= allocated
                           /\ r.retrying => r.current > r.started
    /\ r.pc = "ok" => r.readTS <= allocated
    /\ r.pc = "future" => r.readTS > r.started
    /\ r.pc = "stale" => ExtractPhysical(r.readTS) <= r.started - r.prev
CallsHonest == \A c \in Client : CallOK(call[c])

OracleInv == Types /\ CacheHonest /\ GettersHonest /\ FlightsMatch /\ CallsHonest

(* A read that wants the interval shrunk was noted, and time waits for the *)
(* goroutine; during an update, the interval has grown up to now.          *)
RefreshInv ==
    LET conf == interval.configured
        least == Min2(minAllowed, conf)
        since == IF updater.pc = "update" THEN now ELSE interval.lastTick
        quiet == since - interval.lastShort - DelayBeforeRecovering
    IN  /\ interval.lastTick <= now
        /\ shrinkCh # None => interval.lastShort >= now
        /\ least <= interval.adaptive /\ interval.adaptive <= conf
        /\ updater.cur >= 1 /\ updater.next >= 1
        /\ updater.deadline < interval.lastTick + 2 * updater.cur
        /\ quiet >= 0 => interval.adaptive >= Min2(conf, least + RecoverPerUnit * quiet)
=============================================================================
