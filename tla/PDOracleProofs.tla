--------------------------- MODULE PDOracleProofs ---------------------------
(***************************************************************************)
(* Proofs about the timestamp oracle, for any callers, scopes, calls and   *)
(* intervals: validation is right, estimates are not ahead, the cache only *)
(* advances, and the refreshes keep up.                                    *)
(*                                                                         *)
(* OracleInv follows a timestamp from PD into the cache and to the calls   *)
(* that wait for it.  A step changes one process that fetches (FetchStep)  *)
(* or one call (CallStep), or hands a shared fetch to its callers.         *)
(***************************************************************************)
EXTENDS PDOracle, TLAPS

USE ConstantsAssumption, NoneAssumption

-----------------------------------------------------------------------------
(* Timestamps and arithmetic. *)

LEMMA Physical ==
    ASSUME NEW p \in Int
    PROVE  ComposeTS(p, 0) \in Int /\ ExtractPhysical(ComposeTS(p, 0)) = p
<1>1. Logical \in Nat \ {0}
  OBVIOUS
<1>2. p * Logical \in Int /\ (p * Logical) \div Logical = p
  BY <1>1
<1> QED BY <1>1, <1>2 DEF ComposeTS, ExtractPhysical

LEMMA PhysicalType ==
    ASSUME NEW ts \in Int
    PROVE  ExtractPhysical(ts) \in Int
<1>1. Logical \in Nat \ {0}
  OBVIOUS
<1> QED BY <1>1 DEF ExtractPhysical

LEMMA Growth ==
    ASSUME NEW a \in Nat, NEW b \in Nat, a <= b, NEW r \in Nat
    PROVE  r * a \in Nat /\ r * b \in Nat /\ r * a <= r * b /\ r * (a + b) = r * a + r * b
  OBVIOUS

-----------------------------------------------------------------------------
(* What the parts of OracleInv rest on. *)

LEMMA Facts ==
    ASSUME OracleInv
    PROVE  /\ now \in Nat \ {0} /\ allocated \in Nat \ {0} /\ ExtractPhysical(allocated) <= now
           /\ lastTSMap \in [Scopes -> LastTSO \cup {None}] /\ getter \in [Getters -> GetterState]
           /\ flight \in [Scopes -> (SUBSET Client) \cup {None}] /\ call \in [Client -> CallState]
           /\ interval \in IntervalState /\ updater \in UpdaterState /\ shrinkCh \in Nat \cup {None}
           /\ scenario \in Scenarios
           /\ \A s \in Scopes : lastTSMap[s] # None =>
                 /\ lastTSMap[s] \in LastTSO /\ lastTSMap[s].tso \in 1 .. allocated
                 /\ ExtractPhysical(lastTSMap[s].tso) <= lastTSMap[s].arrival
                 /\ lastTSMap[s].arrival <= now
           /\ \A x \in Getters : GetterOK(getter[x])
           /\ \A c \in Client : CallOK(call[c])
           /\ Client \subseteq Getters /\ Scopes \subseteq Getters /\ Updater \in Getters
  BY DEF OracleInv, Types, TypeOK, CacheHonest, GettersHonest, CallsHonest, Getters

(* The cache moves forward.                                                *)
CacheAdvances ==
    \A s \in Scopes : lastTSMap[s] # None =>
        /\ lastTSMap'[s] # None
        /\ lastTSMap[s].tso <= lastTSMap'[s].tso
        /\ lastTSMap[s].arrival <= lastTSMap'[s].arrival

(* Time and timestamps that PD gives out do no harm to what a process that *)
(* fetches holds.                                                          *)
LEMMA GetterKept ==
    ASSUME NEW g \in GetterState, GetterOK(g), CacheAdvances,
           now \in Nat, now' \in Nat, now <= now',
           allocated \in Nat, allocated' \in Nat, allocated <= allocated',
           lastTSMap \in [Scopes -> LastTSO \cup {None}],
           lastTSMap' \in [Scopes -> LastTSO \cup {None}]
    PROVE  GetterOK(g)'
<1>0. /\ g.ts \in Nat /\ g.arrival \in Nat /\ g.scope \in Scopes /\ ExtractPhysical(g.ts) \in Int
      /\ g.seen \in LastTSO \cup {None}
  BY PhysicalType DEF GetterState
<1>1. g.st \in {"answered", "stamped", "loaded", "done"} =>
          g.ts \in 1 .. allocated' /\ ExtractPhysical(g.ts) <= now'
  BY <1>0 DEF GetterOK
<1>2. g.st \in {"stamped", "loaded"} => ExtractPhysical(g.ts) <= g.arrival /\ g.arrival <= now'
  BY <1>0 DEF GetterOK
<1>3. g.st = "loaded" => g.seen # None /\ g.seen.tso < g.ts /\ g.seen.arrival <= g.arrival
  BY DEF GetterOK
<1>4. g.st = "done" => lastTSMap'[g.scope] # None /\ g.ts <= lastTSMap'[g.scope].tso
  <2> SUFFICES ASSUME g.st = "done"
               PROVE  lastTSMap'[g.scope] # None /\ g.ts <= lastTSMap'[g.scope].tso
    OBVIOUS
  <2>1. lastTSMap[g.scope] # None /\ g.ts <= lastTSMap[g.scope].tso
    BY DEF GetterOK
  <2>2. lastTSMap'[g.scope] # None /\ lastTSMap[g.scope].tso <= lastTSMap'[g.scope].tso
    BY <1>0, <2>1 DEF CacheAdvances
  <2>3. lastTSMap[g.scope] \in LastTSO /\ lastTSMap'[g.scope] \in LastTSO
    BY <1>0, <2>1, <2>2
  <2>4. lastTSMap[g.scope].tso \in Nat /\ lastTSMap'[g.scope].tso \in Nat
    BY <2>3 DEF LastTSO
  <2> QED BY <1>0, <2>1, <2>2, <2>4
<1> QED BY <1>1, <1>2, <1>3, <1>4 DEF GetterOK

(* A call keeps what it knows while the fetch of its scope goes on, ends,  *)
(* or begins anew.                                                         *)
FetchesGoOn ==
    \A s \in Scopes : flight'[s] # None =>
        \/ getter'[s].st = "asked"
        \/ /\ flight[s] # None
           /\ getter[s].st \in {"asked", "failed"} =>
                 getter'[s].st \in {"asked", "failed"} \/ getter'[s].ts > allocated
           /\ getter[s].st \notin {"asked", "failed"} => getter'[s].ts = getter[s].ts

LEMMA CallKept ==
    ASSUME NEW r \in CallState, CallOK(r), FetchesGoOn,
           allocated \in Nat, allocated' \in Nat, allocated <= allocated',
           getter' \in [Getters -> GetterState]
    PROVE  CallOK(r)'
<1>0. /\ r.scope \in Scopes /\ r.started \in Nat /\ r.readTS \in Int /\ r.current \in Nat \cup {None}
      /\ r.scope \in Getters
  BY DEF CallState, Getters
<1>1. r.pc \in {"check", "wait", "fetched"} => r.started <= allocated'
  BY <1>0 DEF CallOK
<1>2. ASSUME r.pc = "fetched" \/ (r.retrying /\ r.pc \in {"check", "wait"}) PROVE Fresh(r)'
  <2>1. r.started <= allocated /\ Fresh(r)
    BY <1>2 DEF CallOK
  <2>2. getter'[r.scope].ts \in Nat
    BY <1>0 DEF GetterState
  <2> SUFFICES ASSUME flight'[r.scope] # None
               PROVE  getter'[r.scope].st \in {"asked", "failed"} \/ getter'[r.scope].ts > r.started
    BY DEF Fresh
  <2>3. \/ getter'[r.scope].st = "asked"
        \/ /\ flight[r.scope] # None
           /\ getter[r.scope].st \in {"asked", "failed"} =>
                 getter'[r.scope].st \in {"asked", "failed"} \/ getter'[r.scope].ts > allocated
           /\ getter[r.scope].st \notin {"asked", "failed"} => getter'[r.scope].ts = getter[r.scope].ts
    BY <1>0 DEF FetchesGoOn
  <2>4. flight[r.scope] # None /\ getter[r.scope].st \notin {"asked", "failed"}
           => getter[r.scope].ts > r.started
    BY <2>1 DEF Fresh
  <2> QED BY <1>0, <2>1, <2>2, <2>3, <2>4
<1>3. r.pc = "fetched" => /\ r.current \in Nat /\ r.current <= allocated'
                          /\ r.retrying => r.current > r.started
  BY <1>0 DEF CallOK
<1>4. r.pc = "ok" => r.readTS <= allocated'
  BY <1>0 DEF CallOK
<1>5. /\ r.pc = "future" => r.readTS > r.started
      /\ r.pc = "stale" => ExtractPhysical(r.readTS) <= r.started - r.prev
  BY DEF CallOK
<1> QED BY <1>1, <1>2, <1>3, <1>4, <1>5 DEF CallOK

-----------------------------------------------------------------------------
(* The steps of GetTimestamp. *)

LEMMA Allocated ==
    ASSUME OracleInv, Allocate
    PROVE  \E a \in Nat \ {0} : /\ allocated' = a /\ a > allocated /\ ExtractPhysical(a) <= now
<1>1. PICK b \in Nat \ {0} : b = allocated
  BY Facts
<1>2. PICK t \in Int : t = ComposeTS(now, 0)
  BY Facts, Physical
<1>3. allocated' = Max2(b + 1, t) /\ ExtractPhysical(allocated') <= now
  BY <1>1, <1>2 DEF Allocate
<1>4. PICK a \in Nat \ {0} : a = Max2(b + 1, t) /\ a > b
  BY DEF Max2
<1> QED BY <1>1, <1>3, <1>4

(* A step of process x leaves h for it.                                    *)
LEMMA FetchStep ==
    ASSUME OracleInv, NEW x \in Getters, NEW h \in GetterState, getter' = [getter EXCEPT ![x] = h],
           GetterOK(h)', allocated' \in Nat \ {0}, allocated <= allocated',
           ExtractPhysical(allocated') <= now,
           lastTSMap' \in [Scopes -> LastTSO \cup {None}], CacheAdvances, CacheHonest',
           \A s \in Scopes : lastTSMap'[s] # None => lastTSMap'[s].tso \in 1 .. allocated',
           \/ getter[x].st \in {"asked", "failed"} /\ (h.st \in {"asked", "failed"} \/ h.ts > allocated)
           \/ getter[x].st \notin {"asked", "failed"} /\ h.ts = getter[x].ts,
           UNCHANGED <<now, flight, call, interval, updater, shrinkCh, scenario>>
    PROVE  OracleInv'
<1>1. /\ getter' \in [Getters -> GetterState] /\ getter'[x] = h
      /\ \A y \in Getters : y # x => getter'[y] = getter[y]
  BY Facts
<1>2. Types'
  BY <1>1 DEF OracleInv, Types, TypeOK
<1>3. GettersHonest'
  <2>1. ASSUME NEW y \in Getters, y # x PROVE GetterOK(getter[y])'
    <3>1. PICK g \in GetterState : g = getter[y] /\ GetterOK(g)
      BY Facts
    <3>2. GetterOK(g)'
      BY <3>1, Facts, GetterKept
    <3>3. getter'[y] = g
      BY <1>1, <2>1, <3>1
    <3> QED BY <3>2, <3>3 DEF GetterOK
  <2>2. GetterOK(getter[x])'
    BY <1>1 DEF GetterOK
  <2> QED BY <2>1, <2>2 DEF GettersHonest
<1>4. FlightsMatch'
  BY DEF OracleInv, FlightsMatch
<1>5. FetchesGoOn
  BY <1>1, Facts DEF FetchesGoOn
<1>6. CallsHonest'
  <2> SUFFICES ASSUME NEW c \in Client PROVE CallOK(call[c])'
    BY DEF CallsHonest
  <2>1. PICK r \in CallState : r = call[c] /\ CallOK(r)
    BY Facts
  <2>2. CallOK(r)'
    BY <1>1, <1>5, <2>1, Facts, CallKept
  <2> QED BY <2>1, <2>2
<1> QED BY <1>2, <1>3, <1>4, <1>6 DEF OracleInv

(* getTimestamp and setLastTS keep OracleInv, and move the cache forward.  *)
LEMMA GetTimestampStep ==
    ASSUME OracleInv, NEW x \in Getters, GetTimestamp(x)
    PROVE  OracleInv' /\ CacheAdvances
<1>0. UNCHANGED <<now, flight, call, interval, updater, shrinkCh, scenario>>
  BY DEF GetTimestamp
<1>1. PICK g \in GetterState : g = getter[x] /\ GetterOK(g)
  BY Facts
<1>2. /\ g.ts \in Nat /\ g.arrival \in Nat /\ g.scope \in Scopes /\ g.seen \in LastTSO \cup {None}
      /\ ExtractPhysical(g.ts) \in Int
  BY PhysicalType DEF GetterState
<1>3. ASSUME UNCHANGED lastTSMap, allocated' \in Nat, allocated <= allocated'
      PROVE  /\ CacheAdvances /\ CacheHonest' /\ lastTSMap' \in [Scopes -> LastTSO \cup {None}]
             /\ \A s \in Scopes : lastTSMap'[s] # None => lastTSMap'[s].tso \in 1 .. allocated'
  <2>1. \A s \in Scopes : lastTSMap[s] # None => lastTSMap[s].tso \in Nat /\ lastTSMap[s].arrival \in Nat
    BY Facts DEF LastTSO
  <2>2. CacheAdvances
    BY <1>3, <2>1 DEF CacheAdvances
  <2>3. CacheHonest'
    BY <1>0, <1>3 DEF OracleInv, CacheHonest
  <2>4. \A s \in Scopes : lastTSMap[s] # None => lastTSMap[s].tso \in 1 .. allocated'
    BY <1>3, <2>1, Facts
  <2> QED BY <1>3, <2>2, <2>3, <2>4, Facts
<1>4. CASE getTimestamp(x)
  <2>1. PICK a \in Nat \ {0} : allocated' = a /\ a > allocated /\ ExtractPhysical(a) <= now
    BY <1>4, Allocated DEF getTimestamp
  <2> DEFINE h == [g EXCEPT !.st = "answered", !.ts = a]
  <2>2. /\ g.st = "asked" /\ getter' = [getter EXCEPT ![x] = h] /\ UNCHANGED lastTSMap
    BY <1>1, <1>4, <2>1 DEF getTimestamp, getOf
  <2>3. h \in GetterState /\ h.st = "answered" /\ h.ts = a
    BY DEF GetterState
  <2> HIDE DEF h
  <2>4. GetterOK(h)'
    BY <1>0, <2>1, <2>3 DEF GetterOK
  <2>5. allocated <= allocated' /\ allocated' \in Nat \ {0} /\ ExtractPhysical(allocated') <= now
    BY <2>1, Facts
  <2>6. getter[x].st \in {"asked", "failed"} /\ h.ts > allocated
    BY <1>1, <2>1, <2>2, <2>3
  <2> QED BY <1>0, <1>3, <2>2, <2>3, <2>4, <2>5, <2>6, FetchStep
<1>5. ASSUME UNCHANGED <<allocated, lastTSMap>>, NEW h \in GetterState, getter' = [getter EXCEPT ![x] = h],
             GetterOK(h)', h.ts = g.ts, g.st = "asked" => h.st = "failed", g.st # "failed"
      PROVE  OracleInv' /\ CacheAdvances
  <2>1. allocated <= allocated' /\ allocated' \in Nat \ {0} /\ ExtractPhysical(allocated') <= now
    BY <1>5, Facts
  <2>2. \/ getter[x].st \in {"asked", "failed"} /\ h.st \in {"asked", "failed"}
        \/ getter[x].st \notin {"asked", "failed"} /\ h.ts = getter[x].ts
    BY <1>1, <1>5
  <2> QED BY <1>0, <1>3, <1>5, <2>1, <2>2, FetchStep
<1>6. CASE getTimestampFails(x)
  <2> DEFINE h == [g EXCEPT !.st = "failed"]
  <2>1. g.st = "asked" /\ getter' = [getter EXCEPT ![x] = h] /\ UNCHANGED <<allocated, lastTSMap>>
    BY <1>1, <1>6 DEF getTimestampFails, getOf
  <2>2. h \in GetterState /\ h.st = "failed" /\ h.ts = g.ts
    BY DEF GetterState
  <2> HIDE DEF h
  <2>3. GetterOK(h)'
    BY <2>2 DEF GetterOK
  <2> QED BY <1>5, <2>1, <2>2, <2>3
<1>7. CASE setLastTS(x)
  <2>0. PICK n \in Nat : n = now
    BY Facts
  <2> DEFINE h == [g EXCEPT !.st = "stamped", !.arrival = n]
  <2>1. g.st = "answered" /\ getter' = [getter EXCEPT ![x] = h] /\ UNCHANGED <<allocated, lastTSMap>>
    BY <1>1, <1>7, <2>0 DEF setLastTS, getOf
  <2>2. h \in GetterState /\ h.st = "stamped" /\ h.ts = g.ts /\ h.arrival = n
    BY DEF GetterState
  <2> HIDE DEF h
  <2>3. g.ts \in 1 .. allocated /\ ExtractPhysical(g.ts) <= now
    BY <1>1, <2>1 DEF GetterOK
  <2>4. GetterOK(h)'
    BY <1>0, <2>0, <2>1, <2>2, <2>3 DEF GetterOK
  <2> QED BY <1>5, <2>1, <2>2, <2>4
(* Storing g's timestamp over nothing, or over an older one.               *)
<1>8. ASSUME UNCHANGED allocated, NEW h \in GetterState, getter' = [getter EXCEPT ![x] = h],
             h.st = "done", h.ts = g.ts, h.scope = g.scope, g.st \in {"stamped", "loaded"},
             lastTSMap' = [lastTSMap EXCEPT ![g.scope] = [tso |-> g.ts, arrival |-> g.arrival]],
             \/ lastTSMap[g.scope] = None
             \/ lastTSMap[g.scope].tso < g.ts /\ lastTSMap[g.scope].arrival <= g.arrival
      PROVE  OracleInv' /\ CacheAdvances
  <2> DEFINE e == [tso |-> g.ts, arrival |-> g.arrival]
  <2>1. /\ g.ts \in 1 .. allocated /\ ExtractPhysical(g.ts) <= g.arrival /\ g.arrival <= now
        /\ ExtractPhysical(g.ts) <= now
    BY <1>1, <1>8 DEF GetterOK
  <2>2. e \in LastTSO /\ e.tso = g.ts /\ e.arrival = g.arrival /\ e # None
    BY <1>2 DEF LastTSO
  <2>3. /\ lastTSMap' \in [Scopes -> LastTSO \cup {None}] /\ lastTSMap'[g.scope] = e
        /\ \A s \in Scopes : s # g.scope => lastTSMap'[s] = lastTSMap[s]
    <3> HIDE DEF e
    <3>1. lastTSMap' = [lastTSMap EXCEPT ![g.scope] = e]
      BY <1>8 DEF e
    <3> QED BY <1>2, <2>2, <3>1, Facts
  <2> HIDE DEF e
  <2>4. \A s \in Scopes : lastTSMap[s] # None => lastTSMap[s].tso \in Nat /\ lastTSMap[s].arrival \in Nat
    BY Facts DEF LastTSO
  <2>5. CacheAdvances
    <3> SUFFICES ASSUME NEW s \in Scopes, lastTSMap[s] # None
                 PROVE  /\ lastTSMap'[s] # None
                        /\ lastTSMap[s].tso <= lastTSMap'[s].tso
                        /\ lastTSMap[s].arrival <= lastTSMap'[s].arrival
      BY DEF CacheAdvances
    <3>1. CASE s = g.scope
      BY <1>2, <1>8, <2>2, <2>3, <2>4, <3>1
    <3>2. CASE s # g.scope
      BY <2>3, <2>4, <3>2
    <3> QED BY <3>1, <3>2
  <2>6. CacheHonest'
    <3> SUFFICES ASSUME NEW s \in Scopes, lastTSMap'[s] # None
                 PROVE  /\ ExtractPhysical(lastTSMap'[s].tso) <= lastTSMap'[s].arrival
                        /\ lastTSMap'[s].arrival <= now
      BY <1>0 DEF CacheHonest
    <3>1. CASE s = g.scope
      BY <2>1, <2>2, <2>3, <3>1
    <3>2. CASE s # g.scope
      BY <2>3, <3>2, Facts
    <3> QED BY <3>1, <3>2
  <2>7. \A s \in Scopes : lastTSMap'[s] # None => lastTSMap'[s].tso \in 1 .. allocated
    BY <2>1, <2>2, <2>3, Facts
  <2>8. GetterOK(h)'
    BY <1>0, <1>2, <1>8, <2>1, <2>2, <2>3 DEF GetterOK
  <2>9. allocated <= allocated' /\ allocated' \in Nat \ {0} /\ ExtractPhysical(allocated') <= now
    BY <1>8, Facts
  <2>10. getter[x].st \notin {"asked", "failed"} /\ h.ts = getter[x].ts
    BY <1>1, <1>8
  <2> QED BY <1>0, <1>8, <2>3, <2>5, <2>6, <2>7, <2>8, <2>9, <2>10, FetchStep
<1>9. CASE setLastTS_Load(x)
  <2>0. g.st = "stamped" /\ UNCHANGED allocated
    BY <1>1, <1>9 DEF setLastTS_Load
  <2>1. /\ g.ts \in 1 .. allocated /\ ExtractPhysical(g.ts) <= g.arrival /\ g.arrival <= now
        /\ ExtractPhysical(g.ts) <= now
    BY <1>1, <2>0 DEF GetterOK
  <2> DEFINE d == [g EXCEPT !.st = "done"]
  <2>2. d \in GetterState /\ d.st = "done" /\ d.ts = g.ts /\ d.scope = g.scope
    BY DEF GetterState
  <2>3. CASE lastTSMap[g.scope] = None
    <3>1. /\ lastTSMap' = [lastTSMap EXCEPT ![g.scope] = [tso |-> g.ts, arrival |-> g.arrival]]
          /\ getter' = [getter EXCEPT ![x] = d]
      BY <1>1, <1>9, <2>3 DEF setLastTS_Load, getOf
    <3> QED BY <1>8, <2>0, <2>2, <2>3, <3>1
  <2>4. CASE lastTSMap[g.scope] # None
    <3>1. PICK last \in LastTSO : last = lastTSMap[g.scope]
      BY <1>2, <2>4, Facts
    <3>2. last.tso \in Nat /\ last.arrival \in Nat /\ last.arrival <= now /\ last # None
      BY <1>2, <2>4, <3>1, Facts DEF LastTSO
    <3>3. UNCHANGED lastTSMap
      BY <1>1, <1>9, <2>4 DEF setLastTS_Load
    <3>4. CASE g.ts <= last.tso
      <4>1. getter' = [getter EXCEPT ![x] = d]
        BY <1>1, <1>9, <2>4, <3>1, <3>4 DEF setLastTS_Load, getOf
      <4> HIDE DEF d
      <4>2. GetterOK(d)'
        BY <1>0, <2>0, <2>1, <2>2, <2>4, <3>1, <3>3, <3>4 DEF GetterOK
      <4> QED BY <1>5, <2>0, <2>2, <3>3, <4>1, <4>2
    <3>5. CASE ~(g.ts <= last.tso)
      <4> DEFINE m == Max2(g.arrival, last.arrival)
                 h == [g EXCEPT !.st = "loaded", !.seen = last, !.arrival = m]
      <4>1. getter' = [getter EXCEPT ![x] = h]
        BY <1>1, <1>9, <2>4, <3>1, <3>5 DEF setLastTS_Load, getOf
      <4>2. m \in Nat /\ g.arrival <= m /\ last.arrival <= m /\ m <= now
        BY <1>2, <2>1, <3>2, Facts DEF Max2
      <4> HIDE DEF m
      <4>3. h \in GetterState /\ h.st = "loaded" /\ h.ts = g.ts /\ h.arrival = m /\ h.seen = last
        BY <4>2 DEF GetterState
      <4> HIDE DEF h
      <4>4. ExtractPhysical(g.ts) <= m /\ last.tso < g.ts
        BY <1>2, <2>1, <3>2, <3>5, <4>2
      <4>5. GetterOK(h)'
        BY <1>0, <2>0, <2>1, <3>2, <4>2, <4>3, <4>4 DEF GetterOK
      <4> QED BY <1>5, <2>0, <3>3, <4>1, <4>3, <4>5
    <3> QED BY <3>4, <3>5
  <2> QED BY <2>3, <2>4
<1>10. CASE setLastTS_CAS(x)
  <2>0. g.st = "loaded" /\ UNCHANGED allocated
    BY <1>1, <1>10 DEF setLastTS_CAS
  <2>1. /\ g.ts \in 1 .. allocated /\ ExtractPhysical(g.ts) <= g.arrival /\ g.arrival <= now
        /\ ExtractPhysical(g.ts) <= now /\ g.seen # None
        /\ g.seen.tso < g.ts /\ g.seen.arrival <= g.arrival
    BY <1>1, <2>0 DEF GetterOK
  <2>2. CASE lastTSMap[g.scope] = g.seen
    <3> DEFINE h == [g EXCEPT !.st = "done", !.seen = None]
    <3>1. /\ getter' = [getter EXCEPT ![x] = h]
          /\ lastTSMap' = [lastTSMap EXCEPT ![g.scope] = [tso |-> g.ts, arrival |-> g.arrival]]
      BY <1>1, <1>10, <2>2 DEF setLastTS_CAS, getOf
    <3>2. h \in GetterState /\ h.st = "done" /\ h.ts = g.ts /\ h.scope = g.scope
      BY DEF GetterState
    <3> HIDE DEF h
    <3> QED BY <1>8, <2>0, <2>1, <2>2, <3>1, <3>2
  <2>3. CASE lastTSMap[g.scope] # g.seen
    <3> DEFINE h == [g EXCEPT !.st = "stamped", !.seen = None]
    <3>1. getter' = [getter EXCEPT ![x] = h] /\ UNCHANGED lastTSMap
      BY <1>1, <1>10, <2>3 DEF setLastTS_CAS, getOf
    <3>2. h \in GetterState /\ h.st = "stamped" /\ h.ts = g.ts /\ h.arrival = g.arrival
      BY DEF GetterState
    <3> HIDE DEF h
    <3>3. GetterOK(h)'
      BY <1>0, <2>0, <2>1, <3>2 DEF GetterOK
    <3> QED BY <1>5, <2>0, <3>1, <3>2, <3>3
  <2> QED BY <2>2, <2>3
<1> QED BY <1>4, <1>6, <1>7, <1>9, <1>10 DEF GetTimestamp

-----------------------------------------------------------------------------
(* The callers. *)

LEMMA CallStep ==
    ASSUME OracleInv, NEW c \in Client, NEW r \in CallState, call' = [call EXCEPT ![c] = r], CallOK(r)',
           UNCHANGED <<now, allocated, lastTSMap, updater, scenario>>,
           interval' \in IntervalState, shrinkCh' \in Nat \cup {None},
           getter' \in [Getters -> GetterState], GettersHonest',
           flight' \in [Scopes -> (SUBSET Client) \cup {None}], FlightsMatch', FetchesGoOn
    PROVE  OracleInv'
<1>1. /\ call' \in [Client -> CallState] /\ call'[c] = r
      /\ \A d \in Client : d # c => call'[d] = call[d]
  BY Facts
<1>2. TypeOK'
  <2>1. \A s \in Scopes : flight'[s] # None => flight'[s] \subseteq Client
    BY DEF Types
  <2>2. interval'.state \in {"none", "normal", "adapting", "recovering", "unadjustable"}
    BY DEF IntervalState
  <2> QED BY <2>1, <2>2 DEF OracleInv, Types, TypeOK
<1>3. Types'
  BY <1>1, <1>2 DEF OracleInv, Types
<1>4. CacheHonest'
  BY DEF OracleInv, CacheHonest
<1>5. CallsHonest'
  <2> SUFFICES ASSUME NEW d \in Client PROVE CallOK(call[d])'
    BY DEF CallsHonest
  <2>1. CASE d = c
    BY <1>1, <2>1 DEF CallOK, Fresh
  <2>2. CASE d # c
    <3>1. PICK q \in CallState : q = call[d] /\ CallOK(q)
      BY Facts
    <3>2. allocated \in Nat /\ allocated' \in Nat /\ allocated <= allocated'
      BY Facts
    <3>3. CallOK(q)'
      BY <3>1, <3>2, CallKept
    <3>4. call'[d] = q
      BY <1>1, <2>2, <3>1
    <3> QED BY <3>3, <3>4 DEF CallOK, Fresh
  <2> QED BY <2>1, <2>2
<1> QED BY <1>3, <1>4, <1>5 DEF OracleInv

LEMMA Begins ==
    ASSUME NEW s \in Scopes
    PROVE  /\ NotFetching \in GetterState /\ Fetching(s) \in GetterState
           /\ NotFetching.st = "idle" /\ Fetching(s).st = "asked"
<1>1. NotFetching \in GetterState /\ NotFetching.st = "idle"
  BY DEF NotFetching, GetterState
<1>2. Fetching(s) \in GetterState /\ Fetching(s).st = "asked"
  BY <1>1 DEF Fetching, GetterState
<1> QED BY <1>1, <1>2

(* A process that begins or ends fetching has nothing to account for.      *)
LEMMA GettersBegin ==
    ASSUME OracleInv, NEW x \in Getters, NEW g \in GetterState, g.st \in {"idle", "asked"},
           getter' = [getter EXCEPT ![x] = g], UNCHANGED <<now, allocated, lastTSMap>>
    PROVE  getter' \in [Getters -> GetterState] /\ GettersHonest'
<1>1. /\ getter' \in [Getters -> GetterState] /\ getter'[x] = g
      /\ \A y \in Getters : y # x => getter'[y] = getter[y]
  BY Facts
<1>2. GetterOK(getter[x])'
  BY <1>1 DEF GetterOK
<1>3. ASSUME NEW y \in Getters, y # x PROVE GetterOK(getter[y])'
  <2>1. getter'[y] = getter[y] /\ GetterOK(getter[y])
    BY <1>1, <1>3, Facts
  <2> QED BY <2>1 DEF GetterOK
<1> QED BY <1>1, <1>2, <1>3 DEF GettersHonest

(* A call that neither waits for a shared fetch nor begins to.             *)
LEMMA PlainCall ==
    ASSUME OracleInv, NEW c \in Client, NEW r \in CallState, call' = [call EXCEPT ![c] = r], CallOK(r)',
           call[c].pc # "wait", r.pc # "wait",
           UNCHANGED <<now, allocated, lastTSMap, updater, scenario, flight>>,
           interval' \in IntervalState, shrinkCh' \in Nat \cup {None},
           \/ UNCHANGED getter
           \/ \E g \in GetterState : g.st \in {"idle", "asked"} /\ getter' = [getter EXCEPT ![c] = g]
    PROVE  OracleInv'
<1>1. getter' \in [Getters -> GetterState] /\ GettersHonest'
  <2>1. CASE UNCHANGED getter
    <3>1. \A x \in Getters : GetterOK(getter[x])'
      BY <2>1, Facts DEF GetterOK
    <3> QED BY <2>1, <3>1, Facts DEF GettersHonest
  <2>2. CASE \E g \in GetterState : g.st \in {"idle", "asked"} /\ getter' = [getter EXCEPT ![c] = g]
    BY <2>2, Facts, GettersBegin
  <2> QED BY <2>1, <2>2
<1>2. \A s \in Scopes : getter'[s] = getter[s]
  BY Facts DEF Getters
<1>3. FetchesGoOn
  BY <1>2, Facts DEF FetchesGoOn
<1>4. FlightsMatch'
  <2>1. /\ call'[c] = r /\ \A d \in Client : d # c => call'[d] = call[d]
    BY Facts
  <2>2. \A s \in Scopes : ~(flight[s] # None /\ c \in flight[s])
    BY DEF OracleInv, FlightsMatch
  <2>3. ASSUME NEW d \in Client, NEW s \in Scopes, d # c
        PROVE  (flight[s] # None /\ d \in flight[s]) <=> (call'[d].pc = "wait" /\ call'[d].scope = s)
    BY <2>1, <2>3 DEF OracleInv, FlightsMatch
  <2> QED BY <2>1, <2>2, <2>3 DEF FlightsMatch
<1> QED BY <1>1, <1>3, <1>4, Facts, CallStep

(* adjustUpdateLowResolutionTSInterval: the read is noted, and whoever     *)
(* asks for a shorter interval has been noted.                             *)
Noted ==
    /\ interval' \in IntervalState /\ shrinkCh' \in Nat \cup {None}
    /\ \/ interval' = interval
       \/ interval' = [interval EXCEPT !.lastShort = now]
    /\ shrinkCh' = shrinkCh \/ interval'.lastShort >= now

LEMMA Adjusts ==
    ASSUME OracleInv, NEW readTS \in Int, NEW currentTS \in Int,
           adjustUpdateLowResolutionTSInterval(readTS, currentTS)
    PROVE  Noted
<1>0. PICK n \in Nat, i \in IntervalState : n = now /\ i = interval
  BY Facts
<1>1. PICK required \in Int : required = ExtractPhysical(currentTS) - ExtractPhysical(readTS)
  BY PhysicalType
<1>2. PICK cur \in Int, short \in Int : cur = i.adaptive /\ short = i.lastShort
  BY DEF IntervalState
<1> DEFINE j == [i EXCEPT !.lastShort = n]
<1>3. /\ interval' = (IF required <= cur + BlockThreshold /\ short < n THEN j ELSE i)
      /\ shrinkCh' = IF required <= cur /\ cur > minAllowed /\ shrinkCh = None
                     THEN Max2(required, 1) ELSE shrinkCh
  BY <1>0, <1>1, <1>2 DEF adjustUpdateLowResolutionTSInterval
<1>4. j \in IntervalState /\ j.lastShort = n
  BY DEF IntervalState
<1> HIDE DEF j
<1>5. Max2(required, 1) \in Nat
  BY DEF Max2
<1>6. shrinkCh' \in Nat \cup {None}
  BY <1>3, <1>5, Facts
<1>7. interval' \in IntervalState /\ (interval' = interval \/ interval' = [interval EXCEPT !.lastShort = now])
  BY <1>0, <1>3, <1>4 DEF j
<1>8. shrinkCh' = shrinkCh \/ interval'.lastShort >= now
  <2>1. CASE required <= cur
    <3>1. required <= cur + BlockThreshold
      BY <2>1
    <3>2. interval' = (IF short < n THEN j ELSE i)
      BY <1>3, <3>1
    <3> QED BY <1>0, <1>2, <1>4, <3>2
  <2>2. CASE ~(required <= cur)
    BY <1>3, <2>2
  <2> QED BY <2>1, <2>2
<1> QED BY <1>6, <1>7, <1>8 DEF Noted

LEMMA NotNoted ==
    ASSUME OracleInv, UNCHANGED <<interval, shrinkCh>>
    PROVE  Noted
  BY Facts DEF Noted

LEMMA ScenarioFacts ==
    ASSUME OracleInv
    PROVE  /\ scenario.scopes \subseteq Scopes /\ scenario.reads \subseteq Int
           /\ scenario.staleness \subseteq Nat /\ scenario.stale \subseteq BOOLEAN
           /\ scenario.confs \subseteq Nat \ {0}
           /\ \A ts \in ReadTSs : ts \in Int
<1>1. /\ scenario.scopes \subseteq Scopes /\ scenario.reads \subseteq Int
      /\ scenario.staleness \subseteq Nat /\ scenario.stale \subseteq BOOLEAN
      /\ scenario.confs \subseteq Nat \ {0}
  BY Facts, ScenariosAssumption
<1>2. ASSUME NEW d \in scenario.reads PROVE Max2(1, allocated + d) \in Int
  BY <1>1, Facts DEF Max2
<1>3. ASSUME NEW d \in scenario.staleness PROVE Max2(1, ComposeTS(now - d, 0)) \in Int
  <2>1. now - d \in Int
    BY <1>1, Facts
  <2>2. ComposeTS(now - d, 0) \in Int
    BY <2>1, Physical
  <2> QED BY <2>2 DEF Max2
<1>4. ASSUME NEW ts \in ReadTSs PROVE ts \in Int
  BY <1>2, <1>3 DEF ReadTSs
<1> QED BY <1>1, <1>4

LEMMA NoCallOK ==
    /\ NoCall \in CallState /\ NoCall.pc = "idle"
    /\ [NoCall EXCEPT !.pc = "get"] \in CallState /\ [NoCall EXCEPT !.pc = "get"].pc = "get"
<1>1. NoCall \in CallState /\ NoCall.pc = "idle"
  BY DEF NoCall, CallState
<1>2. [NoCall EXCEPT !.pc = "get"] \in CallState /\ [NoCall EXCEPT !.pc = "get"].pc = "get"
  BY <1>1 DEF CallState
<1> QED BY <1>1, <1>2

LEMMA StaleEstimate ==
    ASSUME OracleInv, NEW s \in Scopes, lastTSMap[s] # None, NEW prev \in Nat
    PROVE  LET ts == getStaleTimestampWithLastTS(lastTSMap[s], prev)
           IN  ts \in Int /\ ExtractPhysical(ts) <= now - prev
<1>1. PICK last \in LastTSO : last = lastTSMap[s]
  BY Facts
<1>2. PICK p \in Int : p = ExtractPhysical(last.tso)
  BY PhysicalType DEF LastTSO
<1>3. PICK a \in Nat, n \in Nat : a = last.arrival /\ n = now /\ p <= a
  BY <1>1, <1>2, Facts DEF LastTSO
<1>4. PICK q \in Int : q = p + n - prev - a /\ q <= n - prev
  BY <1>3
<1>5. getStaleTimestampWithLastTS(lastTSMap[s], prev) = ComposeTS(q, 0)
  BY <1>1, <1>2, <1>3, <1>4 DEF getStaleTimestampWithLastTS
<1>6. ComposeTS(q, 0) \in Int /\ ExtractPhysical(ComposeTS(q, 0)) = q
  BY Physical
<1> QED BY <1>3, <1>4, <1>5, <1>6

(* Every action of a caller that does not wait.                            *)
LEMMA PlainCallSteps ==
    ASSUME OracleInv, NEW c \in Client, Caller(c), ~ContextDone(c), ~getCurrentTSForValidation(c)
    PROVE  OracleInv' /\ Noted
<1>0. PICK r \in CallState : r = call[c] /\ CallOK(r)
  BY Facts
<1>00. /\ r.readTS \in Int /\ r.stale \in BOOLEAN /\ r.scope \in Scopes /\ r.retrying \in BOOLEAN
       /\ r.current \in Nat \cup {None} /\ r.started \in Nat /\ r.prev \in Nat
  BY DEF CallState
(* Calls that fetch a timestamp for themselves, or return it.              *)
<1>1. ASSUME NEW q \in CallState, q.pc \in {"idle", "get"}, NEW g \in GetterState,
             g.st \in {"idle", "asked"}, call' = [call EXCEPT ![c] = q], getter' = [getter EXCEPT ![c] = g],
             r.pc # "wait", UNCHANGED <<free, flight, interval, shrinkCh>>
      PROVE  OracleInv' /\ Noted
  <2>2. CallOK(q)'
    BY <1>1 DEF CallOK
  <2>3. UNCHANGED <<now, allocated, lastTSMap, updater, scenario, flight, interval, shrinkCh>>
    BY <1>1 DEF free
  <2>4. interval' \in IntervalState /\ shrinkCh' \in Nat \cup {None}
    BY <2>3, Facts
  <2>6. call[c].pc # "wait" /\ q.pc # "wait"
    BY <1>0, <1>1
  <2>7. \E f \in GetterState : f.st \in {"idle", "asked"} /\ getter' = [getter EXCEPT ![c] = f]
    BY <1>1
  <2>8. OracleInv'
    BY <1>1, <2>2, <2>3, <2>4, <2>6, <2>7, PlainCall
  <2> QED BY <2>3, <2>8, NotNoted
(* Calls that only change their own state, to q.                           *)
<1>2. ASSUME NEW q \in CallState, call' = [call EXCEPT ![c] = q], CallOK(q)', q.pc # "wait", r.pc # "wait",
             UNCHANGED <<free, flight, getter>>, Noted
      PROVE  OracleInv'
  <2>1. UNCHANGED <<now, allocated, lastTSMap, updater, scenario, flight, getter>>
    BY <1>2 DEF free
  <2>2. interval' \in IntervalState /\ shrinkCh' \in Nat \cup {None}
    BY <1>2 DEF Noted
  <2> QED BY <1>0, <1>2, <2>1, <2>2, PlainCall
<1>3. CASE \E s \in scenario.scopes : CallGetTimestamp(c, s)
  <2>1. PICK s \in Scopes : CallGetTimestamp(c, s)
    BY <1>3, ScenarioFacts
  <2>2. /\ getter' = [getter EXCEPT ![c] = Fetching(s)] /\ call' = [call EXCEPT ![c] = [NoCall EXCEPT !.pc = "get"]]
        /\ r.pc # "wait" /\ UNCHANGED <<free, flight, interval, shrinkCh>>
    BY <1>0, <2>1 DEF CallGetTimestamp, MayCall, getOf, callOf
  <2> QED BY <1>1, <2>2, Begins, NoCallOK
<1>4. CASE CallReturns(c)
  <2>1. /\ getter' = [getter EXCEPT ![c] = NotFetching] /\ call' = [call EXCEPT ![c] = NoCall]
        /\ r.pc # "wait" /\ UNCHANGED <<free, flight, interval, shrinkCh>>
    BY <1>0, <1>4 DEF CallReturns, getOf, callOf
  <2> QED BY <1>1, <2>1, Begins, NoCallOK
<1>5. CASE \E s \in scenario.scopes, prev \in scenario.staleness : GetStaleTimestamp(c, s, prev)
  <2>1. PICK s \in Scopes, prev \in Nat : GetStaleTimestamp(c, s, prev)
    BY <1>5, ScenarioFacts
  <2>2. r.pc # "wait" /\ UNCHANGED <<free, flight, interval, shrinkCh>>
    BY <1>0, <2>1 DEF GetStaleTimestamp, MayCall
  <2>3. CASE lastTSMap[s] = None
    <3>1. getter' = [getter EXCEPT ![c] = Fetching(s)] /\ call' = [call EXCEPT ![c] = [NoCall EXCEPT !.pc = "get"]]
      BY <2>1, <2>3 DEF GetStaleTimestamp, getOf, callOf
    <3> QED BY <1>1, <2>2, <3>1, Begins, NoCallOK
  <2>4. CASE lastTSMap[s] # None
    <3>1. PICK ts \in Int : ts = getStaleTimestampWithLastTS(lastTSMap[s], prev) /\ ExtractPhysical(ts) <= now - prev
      BY <2>4, StaleEstimate
    <3>2. PICK n \in Nat : n = now
      BY Facts
    <3>3. PICK pc \in {"failed", "stale"} :
            pc = IF ExtractPhysical(lastTSMap[s].tso) <= prev THEN "failed" ELSE "stale"
      OBVIOUS
    <3> DEFINE q == [NoCall EXCEPT !.pc = pc, !.readTS = ts, !.prev = prev, !.started = n]
    <3>4. call' = [call EXCEPT ![c] = q] /\ UNCHANGED getter
      BY <2>1, <2>4, <3>1, <3>2, <3>3 DEF GetStaleTimestamp, callOf
    <3>5. q \in CallState /\ q.pc = pc /\ q.readTS = ts /\ q.started = n /\ q.prev = prev
      BY DEF NoCall, CallState
    <3> HIDE DEF q
    <3>6. ExtractPhysical(ts) <= n - prev
      BY <3>1, <3>2
    <3>7. CallOK(q)'
      BY <3>5, <3>6 DEF CallOK
    <3>8. Noted
      BY <2>2, NotNoted
    <3>9. q.pc # "wait"
      BY <3>5
    <3> QED BY <1>2, <2>2, <3>4, <3>5, <3>7, <3>8, <3>9
  <2> QED BY <2>3, <2>4
<1>6. CASE \E s \in scenario.scopes, ts \in ReadTSs, stale \in scenario.stale : ValidateReadTS(c, ts, stale, s)
  <2>1. PICK s \in Scopes, ts \in Int, stale \in BOOLEAN : ValidateReadTS(c, ts, stale, s)
    BY <1>6, ScenarioFacts
  <2>2. PICK a \in Nat : a = allocated
    BY Facts
  <2> DEFINE q == [NoCall EXCEPT !.pc = "check", !.readTS = ts, !.stale = stale, !.scope = s, !.started = a]
  <2>3. /\ call' = [call EXCEPT ![c] = q] /\ r.pc # "wait"
        /\ UNCHANGED <<free, getter, flight, interval, shrinkCh>>
    BY <1>0, <2>1, <2>2 DEF ValidateReadTS, MayCall, callOf
  <2>4. q \in CallState /\ q.pc = "check" /\ q.started = a /\ q.retrying = FALSE
    BY DEF NoCall, CallState
  <2> HIDE DEF q
  <2>5. allocated' = a
    BY <2>2, <2>3 DEF free
  <2>6. CallOK(q)'
    BY <2>4, <2>5 DEF CallOK
  <2>7. Noted
    BY <2>3, NotNoted
  <2> QED BY <1>2, <2>3, <2>4, <2>6, <2>7
<1>7. CASE ValidateReadTS_Cached(c)
  <2> DEFINE q == [r EXCEPT !.pc = "ok"]
             last == lastTSMap[r.scope]
  <2>1. /\ r.pc = "check" /\ last # None /\ r.readTS <= last.tso
        /\ call' = [call EXCEPT ![c] = q] /\ UNCHANGED <<free, getter, flight>>
        /\ \/ adjustUpdateLowResolutionTSInterval(r.readTS, getStaleTimestampWithLastTS(last, 0))
           \/ UNCHANGED <<interval, shrinkCh>>
    BY <1>0, <1>7 DEF ValidateReadTS_Cached, callOf
  <2>2. q \in CallState /\ q.pc = "ok" /\ q.readTS = r.readTS
    BY DEF CallState
  <2>3. r.readTS <= allocated
    <3>1. last.tso \in Nat /\ last.tso <= allocated
      BY <1>00, <2>1, Facts
    <3> QED BY <1>00, <2>1, <3>1, Facts
  <2>4. Noted
    <3>1. getStaleTimestampWithLastTS(last, 0) \in Int
      BY <1>00, <2>1, StaleEstimate
    <3>2. PICK cts \in Int : cts = getStaleTimestampWithLastTS(last, 0)
      BY <3>1
    <3> QED BY <1>00, <2>1, <3>2, Adjusts, NotNoted
  <2> HIDE DEF q
  <2>5. allocated' = allocated
    BY <2>1 DEF free
  <2>6. CallOK(q)'
    BY <2>2, <2>3, <2>5 DEF CallOK
  <2> QED BY <1>2, <2>1, <2>2, <2>4, <2>6
<1>8. CASE ValidateReadTS_Fetched(c)
  <2>1. PICK q : /\ q = (IF r.readTS <= r.current THEN [r EXCEPT !.pc = "ok"]
                         ELSE IF r.retrying THEN [r EXCEPT !.pc = "future"]
                         ELSE [r EXCEPT !.pc = "check", !.retrying = TRUE, !.current = None])
                 /\ call' = [call EXCEPT ![c] = q]
    BY <1>0, <1>8 DEF ValidateReadTS_Fetched, callOf
  <2>2. /\ r.pc = "fetched" /\ UNCHANGED <<free, getter, flight>>
        /\ \/ adjustUpdateLowResolutionTSInterval(r.readTS, r.current)
           \/ UNCHANGED <<interval, shrinkCh>>
    BY <1>0, <1>8 DEF ValidateReadTS_Fetched
  <2>3. /\ r.current \in Nat /\ r.current <= allocated /\ (r.retrying => r.current > r.started)
        /\ Fresh(r) /\ r.started <= allocated
    BY <1>0, <2>2 DEF CallOK
  <2>4. Noted
    <3>1. r.current \in Int
      BY <2>3
    <3> QED BY <1>00, <2>2, <3>1, Adjusts, NotNoted
  <2>5. UNCHANGED <<allocated, getter, flight>>
    BY <2>2 DEF free
  <2>6. q \in CallState /\ q.pc # "wait" /\ CallOK(q)'
    <3>1. CASE r.readTS <= r.current
      <4>1. q \in CallState /\ q.pc = "ok" /\ q.readTS = r.readTS
        BY <2>1, <3>1 DEF CallState
      <4>2. r.readTS <= allocated
        BY <1>00, <2>3, <3>1, Facts
      <4> QED BY <2>5, <4>1, <4>2 DEF CallOK
    <3>2. CASE ~(r.readTS <= r.current) /\ r.retrying
      <4>1. q \in CallState /\ q.pc = "future" /\ q.readTS = r.readTS /\ q.started = r.started
        BY <2>1, <3>2 DEF CallState
      <4>2. r.readTS > r.started
        BY <1>00, <2>3, <3>2
      <4> QED BY <4>1, <4>2 DEF CallOK
    <3>3. CASE ~(r.readTS <= r.current) /\ ~r.retrying
      <4>1. q \in CallState /\ q.pc = "check" /\ q.scope = r.scope /\ q.started = r.started
        BY <2>1, <3>3 DEF CallState
      <4>2. Fresh(q)'
        BY <2>3, <2>5, <4>1 DEF Fresh
      <4> QED BY <2>3, <2>5, <4>1, <4>2 DEF CallOK
    <3> QED BY <3>1, <3>2, <3>3
  <2>7. r.pc # "wait"
    BY <2>2
  <2> QED BY <1>2, <2>1, <2>2, <2>4, <2>6, <2>7
<1> QED BY <1>3, <1>4, <1>5, <1>6, <1>7, <1>8 DEF Caller

(* The steps of a caller around a shared fetch.                            *)
LEMMA WaitSteps ==
    ASSUME OracleInv, NEW c \in Client, ContextDone(c) \/ getCurrentTSForValidation(c)
    PROVE  OracleInv' /\ Noted
<1>0. PICK r \in CallState : r = call[c] /\ CallOK(r)
  BY Facts
<1>1. PICK s0 \in Scopes : s0 = r.scope
  BY DEF CallState
<1>2. UNCHANGED <<now, allocated, lastTSMap, updater, scenario, interval, shrinkCh>>
  BY DEF ContextDone, getCurrentTSForValidation, free
<1>3. Noted /\ interval' \in IntervalState /\ shrinkCh' \in Nat \cup {None}
  BY <1>2, NotNoted, Facts
<1>4. PICK w : w = flight[s0]
  OBVIOUS
<1>5. w \in (SUBSET Client) \cup {None}
  BY <1>4, Facts
<1>6. \A d \in Client : (w # None /\ d \in w) <=> (call[d].pc = "wait" /\ call[d].scope = s0)
  BY <1>4 DEF OracleInv, FlightsMatch
<1>7. \A d \in Client, s \in Scopes :
         (flight[s] # None /\ d \in flight[s]) <=> (call[d].pc = "wait" /\ call[d].scope = s)
  BY DEF OracleInv, FlightsMatch
<1>8. CASE ContextDone(c)
  <2> DEFINE q == [r EXCEPT !.pc = "failed"]
  <2>1. /\ r.pc = "wait" /\ call' = [call EXCEPT ![c] = q] /\ UNCHANGED getter
        /\ flight' = [flight EXCEPT ![s0] = w \ {c}]
    BY <1>0, <1>1, <1>4, <1>8 DEF ContextDone, callOf
  <2>2. q \in CallState /\ q.pc = "failed"
    BY DEF CallState
  <2> HIDE DEF q
  <2>3. CallOK(q)'
    BY <2>2 DEF CallOK
  <2>4. w # None /\ w \in SUBSET Client
    BY <1>0, <1>1, <1>5, <1>6, <2>1
  <2>5. w \ {c} \in SUBSET Client /\ w \ {c} # None
    BY <2>4
  <2>6. /\ flight' \in [Scopes -> (SUBSET Client) \cup {None}] /\ flight'[s0] = w \ {c}
        /\ \A s \in Scopes : s # s0 => flight'[s] = flight[s]
    BY <2>1, <2>5, Facts
  <2>7. /\ call'[c] = q /\ \A d \in Client : d # c => call'[d] = call[d]
    BY <2>1, Facts
  <2>8. FlightsMatch'
    <3> SUFFICES ASSUME NEW d \in Client, NEW s \in Scopes
                 PROVE  (flight'[s] # None /\ d \in flight'[s])
                            <=> (call'[d].pc = "wait" /\ call'[d].scope = s)
      BY DEF FlightsMatch
    <3>1. CASE d = c
      <4>1. call'[d].pc # "wait"
        BY <2>2, <2>7, <3>1
      <4>2. s # s0 => ~(flight[s] # None /\ c \in flight[s])
        BY <1>0, <1>1, <1>7
      <4> QED BY <2>6, <3>1, <4>1, <4>2
    <3>2. CASE d # c
      <4>1. call'[d] = call[d]
        BY <2>7, <3>2
      <4>2. CASE s = s0
        BY <1>6, <2>4, <2>5, <2>6, <3>2, <4>1, <4>2
      <4>3. CASE s # s0
        BY <1>7, <2>6, <4>1, <4>3
      <4> QED BY <4>2, <4>3
    <3> QED BY <3>1, <3>2
  <2>9. FetchesGoOn
    BY <1>4, <2>1, <2>4, <2>6, Facts DEF FetchesGoOn
  <2>10. getter' \in [Getters -> GetterState] /\ GettersHonest'
    BY <1>2, <2>1, Facts DEF GettersHonest, GetterOK
  <2> QED BY <1>2, <1>3, <2>1, <2>2, <2>3, <2>6, <2>8, <2>9, <2>10, CallStep
<1>9. CASE getCurrentTSForValidation(c)
  <2> DEFINE q == [r EXCEPT !.pc = "wait"]
  <2>1. /\ r.pc = "check" /\ call' = [call EXCEPT ![c] = q]
        /\ flight' = [flight EXCEPT ![s0] = IF w # None THEN w \cup {c} ELSE {c}]
        /\ getter' = IF w # None THEN getter ELSE [getter EXCEPT ![s0] = Fetching(s0)]
    BY <1>0, <1>1, <1>4, <1>9 DEF getCurrentTSForValidation, callOf
  <2>2. /\ q \in CallState /\ q.pc = "wait" /\ q.scope = s0 /\ q.started = r.started
        /\ q.retrying = r.retrying
    BY <1>1 DEF CallState
  <2> HIDE DEF q
  <2>3. PICK v \in SUBSET Client : v = IF w # None THEN w \cup {c} ELSE {c}
    BY <1>5
  <2>4. v # None
    OBVIOUS
  <2>5. /\ flight' \in [Scopes -> (SUBSET Client) \cup {None}] /\ flight'[s0] = v
        /\ \A s \in Scopes : s # s0 => flight'[s] = flight[s]
    BY <2>1, <2>3, Facts
  <2>6. /\ call'[c] = q /\ \A d \in Client : d # c => call'[d] = call[d]
    BY <2>1, Facts
  <2>7. FlightsMatch'
    <3> SUFFICES ASSUME NEW d \in Client, NEW s \in Scopes
                 PROVE  (flight'[s] # None /\ d \in flight'[s])
                            <=> (call'[d].pc = "wait" /\ call'[d].scope = s)
      BY DEF FlightsMatch
    <3>1. CASE d = c
      <4>1. call'[d].pc = "wait" /\ call'[d].scope = s0
        BY <2>2, <2>6, <3>1
      <4>2. ~(flight[s] # None /\ c \in flight[s])
        BY <1>0, <1>7, <2>1
      <4>3. c \in v
        BY <2>3
      <4> QED BY <2>4, <2>5, <3>1, <4>1, <4>2, <4>3
    <3>2. CASE d # c
      <4>1. call'[d] = call[d]
        BY <2>6, <3>2
      <4>2. d \in v <=> (w # None /\ d \in w)
        BY <2>3, <3>2
      <4>3. CASE s = s0
        BY <1>6, <2>4, <2>5, <4>1, <4>2, <4>3
      <4>4. CASE s # s0
        BY <1>7, <2>5, <4>1, <4>4
      <4> QED BY <4>3, <4>4
    <3> QED BY <3>1, <3>2
  <2>8. /\ getter' \in [Getters -> GetterState] /\ GettersHonest' /\ FetchesGoOn
        /\ r.retrying => Fresh(q)'
    <3>1. CASE w # None
      <4>1. UNCHANGED getter
        BY <2>1, <3>1
      <4>2. getter' \in [Getters -> GetterState] /\ GettersHonest'
        BY <1>2, <4>1, Facts DEF GettersHonest, GetterOK
      <4>3. FetchesGoOn
        BY <1>4, <2>5, <3>1, <4>1 DEF FetchesGoOn
      <4>4. r.retrying => Fresh(r)
        BY <1>0, <2>1 DEF CallOK
      <4>5. ASSUME r.retrying PROVE Fresh(q)'
        BY <1>1, <1>4, <2>2, <3>1, <4>1, <4>4, <4>5 DEF Fresh
      <4> QED BY <4>2, <4>3, <4>5
    <3>2. CASE w = None
      <4>1. getter' = [getter EXCEPT ![s0] = Fetching(s0)]
        BY <2>1, <3>2
      <4>2. s0 \in Getters /\ Fetching(s0) \in GetterState /\ Fetching(s0).st = "asked"
        BY Begins DEF Getters
      <4>3. getter' \in [Getters -> GetterState] /\ GettersHonest'
        BY <1>2, <4>1, <4>2, GettersBegin
      <4>4. getter'[s0].st = "asked" /\ \A s \in Scopes : s # s0 => getter'[s] = getter[s]
        BY <4>1, <4>2, Facts
      <4>5. FetchesGoOn
        BY <2>5, <4>4 DEF FetchesGoOn
      <4>6. Fresh(q)'
        BY <2>2, <4>4 DEF Fresh
      <4> QED BY <4>3, <4>5, <4>6
    <3> QED BY <3>1, <3>2
  <2>9. CallOK(q)'
    <3>1. r.started <= allocated
      BY <1>0, <2>1 DEF CallOK
    <3> QED BY <1>2, <2>2, <2>8, <3>1 DEF CallOK
  <2> QED BY <1>2, <1>3, <2>1, <2>2, <2>5, <2>7, <2>8, <2>9, CallStep
<1> QED BY <1>8, <1>9

(* A shared fetch ends, and its callers have the answer.                   *)
LEMMA DoChanStep ==
    ASSUME OracleInv, NEW s \in Scopes, DoChan(s)
    PROVE  OracleInv' /\ Noted
<1>0. UNCHANGED <<now, allocated, lastTSMap, updater, scenario, interval, shrinkCh>>
  BY Zenon DEF DoChan, free
<1>1. PICK g \in GetterState : g = getter[s] /\ GetterOK(g)
  BY Facts
<1>01. /\ flight[s] # None /\ Done(s) /\ getter' = [getter EXCEPT ![s] = NotFetching]
       /\ flight' = [flight EXCEPT ![s] = None]
  BY Zenon DEF DoChan, getOf
<1>2. PICK w \in SUBSET Client : w = flight[s]
  BY <1>01, Facts
<1>3. /\ w # None /\ g.st \in {"done", "failed"} /\ getter' = [getter EXCEPT ![s] = NotFetching]
      /\ flight' = [flight EXCEPT ![s] = None]
  BY <1>01, <1>1, <1>2 DEF Done
<1>03. call' = [c \in Client |->
                  IF c \notin w THEN call[c]
                  ELSE IF g.st = "failed" THEN [call[c] EXCEPT !.pc = "failed"]
                  ELSE [call[c] EXCEPT !.pc = "fetched", !.current = g.ts]]
  BY Zenon, <1>1, <1>2 DEF DoChan
<1>4. /\ flight' \in [Scopes -> (SUBSET Client) \cup {None}] /\ flight'[s] = None
      /\ \A u \in Scopes : u # s => flight'[u] = flight[u]
  BY <1>3, Facts
<1>5. \A d \in Client, u \in Scopes :
         (flight[u] # None /\ d \in flight[u]) <=> (call[d].pc = "wait" /\ call[d].scope = u)
  BY DEF OracleInv, FlightsMatch
<1>6. \A d \in Client : d \in w <=> (call[d].pc = "wait" /\ call[d].scope = s)
  BY <1>2, <1>3, <1>5
<1>7. getter' \in [Getters -> GetterState] /\ GettersHonest'
  <2>1. s \in Getters /\ NotFetching \in GetterState /\ NotFetching.st = "idle"
    BY Begins DEF Getters
  <2> QED BY <1>0, <1>3, <2>1, GettersBegin
<1>8. FetchesGoOn
  <2>1. \A u \in Scopes : u # s => getter'[u] = getter[u]
    BY <1>3, Facts
  <2> QED BY <1>4, <2>1 DEF FetchesGoOn
<1>9. ASSUME NEW d \in Client
      PROVE  \E r \in CallState : /\ call'[d] = r /\ CallOK(r)'
                                  /\ d \notin w => r = call[d]
                                  /\ d \in w => r.pc # "wait"
  <2>1. PICK r \in CallState : r = call[d] /\ CallOK(r)
    BY Facts
  <2>2. CASE d \notin w
    <3>1. call'[d] = r
      BY Zenon, <1>03, <2>1, <2>2
    <3>2. allocated \in Nat /\ allocated' \in Nat /\ allocated <= allocated'
      BY <1>0, Facts
    <3>3. CallOK(r)'
      BY <1>7, <1>8, <2>1, <3>2, CallKept
    <3> QED BY <2>1, <2>2, <3>1, <3>3
  <2>3. CASE d \in w /\ g.st = "failed"
    <3> DEFINE q == [r EXCEPT !.pc = "failed"]
    <3>1. call'[d] = q
      BY Zenon, <1>03, <2>1, <2>3
    <3>2. q \in CallState /\ q.pc = "failed"
      BY DEF CallState
    <3> HIDE DEF q
    <3>3. CallOK(q)'
      BY <3>2 DEF CallOK
    <3> QED BY <2>3, <3>1, <3>2, <3>3
  <2>4. CASE d \in w /\ g.st = "done"
    <3> DEFINE q == [r EXCEPT !.pc = "fetched", !.current = g.ts]
    <3>1. call'[d] = q
      <4>1. g.st # "failed"
        BY <2>4
      <4> QED BY Zenon, <4>1, <1>03, <2>1, <2>4
    <3>2. g.ts \in Nat /\ g.ts <= allocated
      BY <1>1, <2>4 DEF GetterOK
    <3>3. /\ q \in CallState /\ q.pc = "fetched" /\ q.current = g.ts /\ q.scope = r.scope
          /\ q.started = r.started /\ q.retrying = r.retrying
      BY <3>2 DEF CallState
    <3> HIDE DEF q
    <3>4. r.pc = "wait" /\ r.scope = s
      BY <1>6, <2>1, <2>4
    <3>5. r.started <= allocated /\ (r.retrying => Fresh(r))
      BY <2>1, <3>4 DEF CallOK
    <3>6. r.retrying => g.ts > r.started
      BY <1>1, <1>2, <1>3, <2>4, <3>4, <3>5 DEF Fresh
    <3>7. Fresh(q)'
      BY <1>4, <3>3, <3>4 DEF Fresh
    <3>8. CallOK(q)'
      BY <1>0, <3>2, <3>3, <3>5, <3>6, <3>7 DEF CallOK
    <3>9. q.pc # "wait"
      BY <3>3
    <3> QED BY <2>4, <3>1, <3>3, <3>8, <3>9
  <2> QED BY <1>3, <2>2, <2>3, <2>4
<1>10. call' \in [Client -> CallState]
  <2>1. call' = [c \in Client |-> call'[c]]
    BY Zenon, <1>03
  <2>2. \A c \in Client : call'[c] \in CallState
    BY <1>9
  <2> QED BY <2>1, <2>2
<1>11. CallsHonest'
  <2> SUFFICES ASSUME NEW d \in Client PROVE CallOK(call[d])'
    BY DEF CallsHonest
  <2>1. PICK r \in CallState : call'[d] = r /\ CallOK(r)'
    BY <1>9
  <2> QED BY <2>1 DEF CallOK, Fresh
<1>12. FlightsMatch'
  <2> SUFFICES ASSUME NEW d \in Client, NEW u \in Scopes
               PROVE  (flight'[u] # None /\ d \in flight'[u])
                          <=> (call'[d].pc = "wait" /\ call'[d].scope = u)
    BY DEF FlightsMatch
  <2>1. CASE d \in w
    <3>1. call'[d].pc # "wait"
      BY <1>9, <2>1
    <3>2. u # s => ~(flight[u] # None /\ d \in flight[u])
      BY <1>5, <1>6, <2>1
    <3> QED BY <1>4, <3>1, <3>2
  <2>2. CASE d \notin w
    <3>1. call'[d] = call[d]
      BY <1>9, <2>2
    <3>2. CASE u = s
      BY <1>4, <1>6, <2>2, <3>1, <3>2
    <3>3. CASE u # s
      BY <1>4, <1>5, <3>1, <3>3
    <3> QED BY <3>2, <3>3
  <2> QED BY <2>1, <2>2
<1>13. Types'
  <2>1. \A u \in Scopes : flight'[u] # None => flight'[u] \subseteq Client
    BY <1>4
  <2>2. TypeOK'
    BY <1>0, <2>1 DEF OracleInv, Types, TypeOK
  <2> QED BY <1>0, <1>4, <1>7, <1>10, <2>2 DEF OracleInv, Types
<1>14. CacheHonest'
  BY <1>0 DEF OracleInv, CacheHonest
<1>15. Noted
  BY <1>0, NotNoted
<1> QED BY <1>7, <1>11, <1>12, <1>13, <1>14, <1>15 DEF OracleInv

-----------------------------------------------------------------------------
(* The goroutine, the clock, and the rest of the cluster. *)

LEMMA BackgroundStep ==
    ASSUME OracleInv, UNCHANGED <<lastTSMap, flight, call, scenario>>,
           now' \in Nat \ {0}, now <= now', allocated' \in Nat \ {0}, allocated <= allocated',
           ExtractPhysical(allocated') <= now',
           interval' \in IntervalState, updater' \in UpdaterState, shrinkCh' \in Nat \cup {None},
           \/ UNCHANGED getter
           \/ \E g \in GetterState :
                 g.st \in {"idle", "asked"} /\ getter' = [getter EXCEPT ![Updater] = g]
    PROVE  OracleInv' /\ CacheAdvances
<1>1. \A s \in Scopes : lastTSMap[s] # None => lastTSMap[s].tso \in Nat /\ lastTSMap[s].arrival \in Nat
  BY Facts DEF LastTSO
<1>2. CacheAdvances
  BY <1>1 DEF CacheAdvances
<1>3. /\ getter' \in [Getters -> GetterState]
      /\ \A x \in Getters : getter'[x] = getter[x] \/ getter'[x].st \in {"idle", "asked"}
      /\ \A s \in Scopes : getter'[s] = getter[s]
  BY Facts DEF Getters
<1>4. GettersHonest'
  <2> SUFFICES ASSUME NEW x \in Getters PROVE GetterOK(getter[x])'
    BY DEF GettersHonest
  <2>1. PICK g \in GetterState : g = getter'[x]
    BY <1>3
  <2>2. GetterOK(g)'
    <3>1. CASE g = getter[x]
      BY <1>2, <3>1, Facts, GetterKept
    <3>2. CASE g.st \in {"idle", "asked"}
      BY <3>2 DEF GetterOK
    <3> QED BY <1>3, <2>1, <3>1, <3>2
  <2> QED BY <2>1, <2>2 DEF GetterOK
<1>5. CacheHonest'
  BY <1>1, Facts DEF CacheHonest
<1>6. FetchesGoOn
  BY <1>3 DEF FetchesGoOn
<1>7. CallsHonest'
  <2> SUFFICES ASSUME NEW c \in Client PROVE CallOK(call[c])'
    BY DEF CallsHonest
  <2>1. PICK r \in CallState : r = call[c] /\ CallOK(r)
    BY Facts
  <2>2. CallOK(r)'
    BY <1>3, <1>6, <2>1, Facts, CallKept
  <2> QED BY <2>1, <2>2
<1>8. FlightsMatch'
  BY DEF OracleInv, FlightsMatch
<1>9. TypeOK'
  <2>1. \A s \in Scopes : lastTSMap'[s] # None => lastTSMap'[s].tso \in 1 .. allocated'
    BY <1>1, Facts
  <2>2. /\ interval'.state \in {"none", "normal", "adapting", "recovering", "unadjustable"}
        /\ updater'.pc \in {"select", "update", "closed"} /\ updater'.todo \subseteq Scopes
    BY DEF IntervalState, UpdaterState
  <2>3. \A s \in Scopes : flight'[s] # None => flight'[s] \subseteq Client
    BY Facts
  <2> QED BY <2>1, <2>2, <2>3 DEF TypeOK
<1>10. Types'
  BY <1>3, <1>9, Facts DEF Types
<1> QED BY <1>2, <1>4, <1>5, <1>7, <1>8, <1>10 DEF OracleInv

(* What nextUpdateInterval does to the interval i at time n.               *)
Adjusted(i, j, n, required) ==
    /\ j.configured = i.configured /\ j.lastShort = i.lastShort /\ j.lastTick = i.lastTick
    /\ \/ i.configured <= minAllowed /\ j.adaptive = i.configured
       \/ /\ i.configured > minAllowed
          /\ \/ /\ required # 0 /\ required < i.adaptive
                /\ j.adaptive = Max2(required - ShrinkingPreserve, minAllowed)
             \/ /\ required # 0 \/ i.adaptive = i.configured
                                \/ n - i.lastShort < DelayBeforeRecovering
                /\ j.adaptive = i.adaptive
             \/ j.adaptive = Min2(i.configured, i.adaptive + RecoverPerUnit * (n - i.lastTick))

LEMMA NextInterval ==
    ASSUME OracleInv, NEW required \in Nat
    PROVE  nextUpdateInterval(required) \in IntervalState
           /\ Adjusted(interval, nextUpdateInterval(required), now, required)
<1>1. PICK i \in IntervalState, n \in Nat : i = interval /\ n = now
  BY Facts
<1>2. PICK conf \in Nat \ {0}, cur \in Int, short \in Int, tick \in Int :
         conf = i.configured /\ cur = i.adaptive /\ short = i.lastShort /\ tick = i.lastTick
  BY DEF IntervalState
<1> DEFINE to(state, new) == [i EXCEPT !.state = state, !.adaptive = new]
           States == {"none", "normal", "adapting", "recovering", "unadjustable"}
<1>3. ASSUME NEW state \in States, NEW new \in Int
      PROVE  /\ to(state, new) \in IntervalState /\ to(state, new).adaptive = new
             /\ to(state, new).configured = conf /\ to(state, new).lastShort = short
             /\ to(state, new).lastTick = tick
  BY <1>2 DEF IntervalState
<1>4. PICK grown \in Int : grown = Min2(conf, cur + RecoverPerUnit * (n - tick))
  BY DEF Min2
<1>5. PICK shrunk \in Int : shrunk = Max2(required - ShrinkingPreserve, minAllowed)
  BY DEF Max2
<1>6. nextUpdateInterval(required) =
         IF conf <= minAllowed THEN to("unadjustable", conf)
         ELSE IF required # 0 /\ required < cur /\ cur > minAllowed THEN to("adapting", shrunk)
         ELSE IF cur # conf /\ n - short < DelayBeforeRecovering THEN to("adapting", cur)
         ELSE IF required # 0 THEN i
         ELSE IF cur = conf THEN to("normal", cur)
         ELSE to(IF grown = conf THEN "normal" ELSE "recovering", grown)
  BY Zenon, <1>1, <1>2, <1>4, <1>5 DEF nextUpdateInterval
<1> HIDE DEF to
<1>7. PICK j \in IntervalState : /\ j = nextUpdateInterval(required)
                                 /\ j.configured = conf /\ j.lastShort = short /\ j.lastTick = tick
                                 /\ \/ conf <= minAllowed /\ j.adaptive = conf
                                    \/ conf > minAllowed /\ required # 0 /\ required < cur /\ j.adaptive = shrunk
                                    \/ /\ conf > minAllowed
                                       /\ required # 0 \/ cur = conf \/ n - short < DelayBeforeRecovering
                                       /\ j.adaptive = cur
                                    \/ conf > minAllowed /\ j.adaptive = grown
  <2>1. CASE conf <= minAllowed
    <3>1. nextUpdateInterval(required) = to("unadjustable", conf)
      BY <1>6, <2>1
    <3> QED BY <1>3, <2>1, <3>1
  <2> HIDE DEF States
  <2>2. conf \in Int /\ {"unadjustable", "adapting", "normal", "recovering"} \subseteq States
    BY DEF States
  <2>3. CASE ~(conf <= minAllowed) /\ required # 0 /\ required < cur /\ cur > minAllowed
    <3>1. nextUpdateInterval(required) = to("adapting", shrunk)
      BY <1>6, <2>3
    <3> QED BY <1>3, <2>2, <2>3, <3>1
  <2>4. CASE ~(conf <= minAllowed) /\ ~(required # 0 /\ required < cur /\ cur > minAllowed)
    <3>1. CASE cur # conf /\ n - short < DelayBeforeRecovering
      <4>1. nextUpdateInterval(required) = to("adapting", cur)
        BY <1>6, <2>4, <3>1
      <4> QED BY <1>3, <2>2, <2>4, <3>1, <4>1
    <3>2. CASE ~(cur # conf /\ n - short < DelayBeforeRecovering) /\ required # 0
      <4>1. nextUpdateInterval(required) = i
        BY <1>6, <2>4, <3>2
      <4> QED BY <1>2, <2>4, <3>2, <4>1
    <3>3. CASE ~(cur # conf /\ n - short < DelayBeforeRecovering) /\ required = 0 /\ cur = conf
      <4>1. nextUpdateInterval(required) = to("normal", cur)
        BY <1>6, <2>4, <3>3
      <4> QED BY <1>3, <2>2, <2>4, <3>3, <4>1
    <3>4. CASE ~(cur # conf /\ n - short < DelayBeforeRecovering) /\ required = 0 /\ cur # conf
      <4>1. PICK state \in States : nextUpdateInterval(required) = to(state, grown)
        BY <1>6, <2>2, <2>4, <3>4
      <4> QED BY <1>3, <2>4, <4>1
    <3> QED BY <3>1, <3>2, <3>3, <3>4
  <2> QED BY <2>1, <2>3, <2>4
<1>8. Adjusted(i, j, n, required)
  BY <1>2, <1>4, <1>5, <1>7 DEF Adjusted
<1> QED BY <1>1, <1>7, <1>8

(* The goroutine keeps OracleInv.                                          *)
LEMMA UpdaterTypes ==
    ASSUME OracleInv, updateTS
    PROVE  /\ UNCHANGED <<now, allocated, lastTSMap, flight, call, scenario>>
           /\ interval' \in IntervalState /\ updater' \in UpdaterState /\ shrinkCh' \in Nat \cup {None}
           /\ \/ UNCHANGED getter
              \/ \E g \in GetterState :
                    g.st \in {"idle", "asked"} /\ getter' = [getter EXCEPT ![Updater] = g]
<1>0. UNCHANGED <<now, allocated, lastTSMap, flight, call, scenario>>
  BY DEF updateTS
<1>1. PICK u \in UpdaterState, n \in Nat : u = updater /\ n = now
  BY Facts
<1>2. Known \in SUBSET Scopes
  BY DEF Known
<1>3. \A j \in IntervalState : j.adaptive \in Int
  BY DEF IntervalState
<1>4. CASE updateTS_Tick
  <2>1. PICK j \in IntervalState : j = nextUpdateInterval(0)
    BY NextInterval
  <2>2. PICK k \in SUBSET Scopes, a \in Int : k = Known /\ a = j.adaptive
    BY <1>2, <1>3
  <2>3. updater' = [u EXCEPT !.pc = "update", !.todo = k, !.next = a]
        /\ interval' = j /\ UNCHANGED <<getter, shrinkCh>>
    BY <1>1, <1>4, <2>1, <2>2 DEF updateTS_Tick
  <2>4. updater' \in UpdaterState
    BY <2>3 DEF UpdaterState
  <2> QED BY <1>0, <2>3, <2>4, Facts
<1>5. CASE updateTS_Shrink
  <2>0. PICK sh \in Nat : sh = shrinkCh
    BY <1>5, Facts DEF updateTS_Shrink
  <2>1. PICK j \in IntervalState : j = nextUpdateInterval(sh)
    BY NextInterval
  <2>2. PICK k \in SUBSET Scopes, a \in Int : k = Known /\ a = j.adaptive
    BY <1>2, <1>3
  <2>20. PICK d \in Int : d = n + a
    OBVIOUS
  <2>3. /\ \/ updater' = u
           \/ updater' = [u EXCEPT !.pc = "update", !.todo = k, !.next = a]
           \/ updater' = [u EXCEPT !.cur = a, !.next = a, !.deadline = d]
        /\ interval' = j /\ shrinkCh' = None /\ UNCHANGED getter
    BY Zenon, <1>1, <1>5, <2>0, <2>1, <2>2, <2>20 DEF updateTS_Shrink
  <2>4. updater' \in UpdaterState
    BY <2>3 DEF UpdaterState
  <2> QED BY <1>0, <2>3, <2>4, Facts
<1>6. CASE doUpdate_Next
  <2>1. Global \in Scopes
    OBVIOUS
  <2> QED BY <1>0, <1>6, <2>1, Begins, Facts DEF doUpdate_Next, getOf
<1>7. CASE doUpdate_End
  <2>1. PICK i \in IntervalState, next \in Int : i = interval /\ next = u.next
    BY Facts DEF UpdaterState
  <2>20. PICK d \in Int : d = n + next
    OBVIOUS
  <2>2. /\ updater' = [u EXCEPT !.pc = "select", !.cur = next, !.deadline = d]
        /\ interval' = [i EXCEPT !.lastTick = n] /\ UNCHANGED <<getter, shrinkCh>>
    BY <1>1, <1>7, <2>1, <2>20 DEF doUpdate_End
  <2>3. updater' \in UpdaterState
    BY <2>2 DEF UpdaterState
  <2>4. interval' \in IntervalState
    BY <2>2 DEF IntervalState
  <2> QED BY <1>0, <2>2, <2>3, <2>4, Facts
<1>8. CASE Close
  <2>1. updater' = [u EXCEPT !.pc = "closed"] /\ UNCHANGED <<getter, interval, shrinkCh>>
    BY <1>1, <1>8 DEF Close
  <2>2. updater' \in UpdaterState
    BY <2>1 DEF UpdaterState
  <2> QED BY <1>0, <2>1, <2>2, Facts
<1>9. CASE \E s \in Scopes : doUpdate_Scope(s)
  <2>1. PICK s \in Scopes : doUpdate_Scope(s)
    BY <1>9
  <2>2. PICK k \in SUBSET Scopes : k = u.todo \ {s}
    BY DEF UpdaterState
  <2>3. /\ updater' = [u EXCEPT !.todo = k] /\ UNCHANGED <<interval, shrinkCh>>
        /\ getter' = [getter EXCEPT ![Updater] = Fetching(s)]
    BY <1>1, <2>1, <2>2 DEF doUpdate_Scope, getOf
  <2>4. updater' \in UpdaterState
    BY <2>3 DEF UpdaterState
  <2> QED BY <1>0, <2>3, <2>4, Begins, Facts
<1> QED BY <1>4, <1>5, <1>6, <1>7, <1>8, <1>9 DEF updateTS

LEMMA SetInterval ==
    ASSUME OracleInv, NEW new \in Nat \ {0}, SetLowResolutionTimestampUpdateInterval(new)
    PROVE  /\ interval' \in IntervalState
           /\ interval'.configured = new /\ interval'.lastShort = interval.lastShort
           /\ interval'.lastTick = interval.lastTick
           /\ interval'.adaptive = IF interval.adaptive = interval.configured \/ new < interval.adaptive
                                   THEN new ELSE interval.adaptive
<1>1. PICK i \in IntervalState : i = interval
  BY Facts
<1>2. PICK a \in Int : a = IF i.adaptive = i.configured \/ new < i.adaptive THEN new ELSE i.adaptive
  BY DEF IntervalState
<1>3. interval' = [i EXCEPT !.configured = new, !.adaptive = a]
  BY <1>1, <1>2 DEF SetLowResolutionTimestampUpdateInterval
<1>4. interval' \in IntervalState /\ interval'.configured = new /\ interval'.adaptive = a
      /\ interval'.lastShort = i.lastShort /\ interval'.lastTick = i.lastTick
  BY <1>3 DEF IntervalState
<1> QED BY <1>1, <1>2, <1>4

(* Every step keeps OracleInv and moves the cache forward.                 *)
LEMMA OracleStep ==
    ASSUME OracleInv, [Next]_vars
    PROVE  OracleInv' /\ CacheAdvances
<1>0. /\ allocated \in Nat \ {0} /\ allocated <= allocated /\ now \in Nat \ {0} /\ now <= now
      /\ ExtractPhysical(allocated) <= now
  BY Facts
<1>1. ASSUME UNCHANGED lastTSMap PROVE CacheAdvances
  <2>1. \A s \in Scopes : lastTSMap[s] # None => lastTSMap[s].tso \in Nat /\ lastTSMap[s].arrival \in Nat
    BY Facts DEF LastTSO
  <2> QED BY <1>1, <2>1 DEF CacheAdvances
<1>2. CASE Advance
  <2>1. PICK n \in Nat : now' = n /\ n >= now /\ n # 0
    BY <1>2, Facts DEF Advance
  <2>2. UNCHANGED <<allocated, lastTSMap, getter, flight, call, interval, updater, shrinkCh, scenario>>
    BY <1>2 DEF Advance
  <2>3. PICK p \in Int : p = ExtractPhysical(allocated)
    BY <1>0, PhysicalType
  <2>4. ExtractPhysical(allocated') <= now' /\ now' \in Nat \ {0} /\ now <= now'
        /\ allocated' \in Nat \ {0} /\ allocated <= allocated'
    BY <1>0, <2>1, <2>2, <2>3
  <2> QED BY <2>2, <2>4, Facts, BackgroundStep
<1>3. CASE OthersGetTimestamp
  <2>1. PICK a \in Nat \ {0} : allocated' = a /\ a > allocated /\ ExtractPhysical(a) <= now
    BY <1>3, Allocated DEF OthersGetTimestamp
  <2>2. UNCHANGED <<now, lastTSMap, getter, flight, call, interval, updater, shrinkCh, scenario>>
    BY <1>3 DEF OthersGetTimestamp
  <2>3. allocated' \in Nat \ {0} /\ allocated <= allocated' /\ ExtractPhysical(allocated') <= now'
    BY <1>0, <2>1, <2>2
  <2> QED BY <1>0, <2>2, <2>3, Facts, BackgroundStep
<1>4. CASE updateTS
  <2>1. /\ now' \in Nat \ {0} /\ now <= now' /\ allocated' \in Nat \ {0} /\ allocated <= allocated'
        /\ ExtractPhysical(allocated') <= now'
    BY <1>0, <1>4, UpdaterTypes
  <2> QED BY <1>4, <2>1, UpdaterTypes, BackgroundStep
<1>5. CASE \E x \in Getters : GetTimestamp(x)
  BY <1>5, GetTimestampStep
<1>6. CASE \E s \in Scopes : DoChan(s)
  <2>1. UNCHANGED lastTSMap
    BY Zenon, <1>6 DEF DoChan, free
  <2> QED BY <1>1, <1>6, <2>1, DoChanStep
<1>7. CASE \E c \in Client : Caller(c)
  <2>1. PICK c \in Client : Caller(c)
    BY <1>7
  <2>2. UNCHANGED lastTSMap
    BY Zenon, <2>1 DEF Caller, CallReturns, ContextDone, getCurrentTSForValidation, ValidateReadTS_Cached,
          ValidateReadTS_Fetched, CallGetTimestamp, GetStaleTimestamp, ValidateReadTS, free
  <2> QED BY <1>1, <2>1, <2>2, PlainCallSteps, WaitSteps
<1>8. CASE \E new \in scenario.confs : SetLowResolutionTimestampUpdateInterval(new)
  <2>1. PICK new \in Nat \ {0} : SetLowResolutionTimestampUpdateInterval(new)
    BY <1>8, ScenarioFacts
  <2>2. UNCHANGED <<now, allocated, lastTSMap, getter, flight, call, updater, shrinkCh, scenario>>
    BY <2>1 DEF SetLowResolutionTimestampUpdateInterval
  <2>3. interval' \in IntervalState
    BY <2>1, SetInterval
  <2> QED BY <1>0, <2>2, <2>3, Facts, BackgroundStep
<1>9. CASE UNCHANGED vars
  <2>1. UNCHANGED <<now, allocated, lastTSMap, getter, flight, call, interval, updater, shrinkCh, scenario>>
    BY <1>9 DEF vars
  <2> QED BY <1>0, <2>1, Facts, BackgroundStep
<1> QED BY <1>2, <1>3, <1>4, <1>5, <1>6, <1>7, <1>8, <1>9 DEF Next

-----------------------------------------------------------------------------
(* The refreshes.  RefreshOK is RefreshInv of interval i, goroutine u,     *)
(* time n and channel ch.                                                  *)

Least(i) == Min2(minAllowed, i.configured)
GrownFor(i, quiet) == Min2(i.configured, Least(i) + RecoverPerUnit * quiet)
Quiet(i, n) == n - i.lastShort - DelayBeforeRecovering
Since(i, u, n) == IF u.pc = "update" THEN n ELSE i.lastTick
IntervalOK(i, n) ==
    /\ Least(i) <= i.adaptive /\ i.adaptive <= i.configured
    /\ Quiet(i, n) >= 0 => i.adaptive >= GrownFor(i, Quiet(i, n))
RefreshOK(i, u, n, ch) ==
    /\ i.lastTick <= n
    /\ ch # None => i.lastShort >= n
    /\ u.cur >= 1 /\ u.next >= 1
    /\ u.deadline < i.lastTick + 2 * u.cur
    /\ IntervalOK(i, Since(i, u, n))

LEMMA RefreshIs ==
    /\ RefreshInv <=> RefreshOK(interval, updater, now, shrinkCh)
    /\ RefreshInv' <=> RefreshOK(interval', updater', now', shrinkCh')
  BY DEF RefreshInv, RefreshOK, IntervalOK, Since, Quiet, GrownFor, Least

(* Growing takes nothing away, so a shorter time asks for less.            *)
LEMMA GrownForLess ==
    ASSUME NEW i \in IntervalState, NEW q \in Nat
    PROVE  /\ Least(i) \in Nat \ {0} /\ Least(i) <= minAllowed /\ Least(i) <= i.configured
           /\ GrownFor(i, q) \in Nat /\ GrownFor(i, q) <= i.configured
           /\ GrownFor(i, 0) = Least(i)
           /\ i.configured > minAllowed => Least(i) = minAllowed
<1>1. PICK conf \in Nat \ {0} : conf = i.configured
  BY DEF IntervalState
<1>2. Least(i) = Min2(minAllowed, conf) /\ GrownFor(i, q) = Min2(conf, Least(i) + RecoverPerUnit * q)
      /\ GrownFor(i, 0) = Min2(conf, Least(i) + RecoverPerUnit * 0)
  BY <1>1 DEF Least, GrownFor
<1>3. PICK l \in Nat \ {0} : l = Least(i) /\ l <= minAllowed /\ l <= conf /\ (conf > minAllowed => l = minAllowed)
  BY <1>2 DEF Min2
<1>4. RecoverPerUnit * q \in Nat /\ RecoverPerUnit * 0 = 0
  BY Growth
<1>5. PICK m \in Nat : m = RecoverPerUnit * q
  BY <1>4
<1>6. GrownFor(i, q) = Min2(conf, l + m) /\ GrownFor(i, 0) = Min2(conf, l)
  BY <1>2, <1>3, <1>4, <1>5
<1> QED BY <1>1, <1>3, <1>6 DEF Min2

(* The interval nextUpdateInterval chooses.                                *)
LEMMA AdjustedOK ==
    ASSUME NEW i \in IntervalState, NEW j \in IntervalState, NEW n \in Nat, i.lastTick <= n,
           IntervalOK(i, i.lastTick), NEW required \in Nat, Adjusted(i, j, n, required),
           required = 0 \/ i.lastShort >= n
    PROVE  IntervalOK(j, n) /\ j.adaptive >= 1
<1>1. PICK conf \in Nat \ {0}, cur \in Int, short \in Int, tick \in Int :
         conf = i.configured /\ cur = i.adaptive /\ short = i.lastShort /\ tick = i.lastTick
  BY DEF IntervalState
<1>2. PICK new \in Int : new = j.adaptive
  BY DEF IntervalState
<1>3. j.configured = conf /\ j.lastShort = short /\ j.lastTick = tick
  BY <1>1 DEF Adjusted
<1>4. PICK l \in Nat \ {0} : /\ l = Least(i) /\ l = Least(j) /\ l <= minAllowed /\ l <= conf
                             /\ conf > minAllowed => l = minAllowed
  <2>1. Least(i) = Least(j)
    BY <1>1, <1>3 DEF Least
  <2> QED BY <1>1, <2>1, GrownForLess
<1>5. l <= cur /\ cur <= conf /\ tick <= n
  BY <1>1, <1>4 DEF IntervalOK
<1>6. PICK gain \in Nat : gain = RecoverPerUnit * (n - tick)
  <2>1. n - tick \in Nat
    BY <1>5
  <2> QED BY <2>1, Growth
<1>7. \/ conf <= minAllowed /\ new = conf
      \/ conf > minAllowed /\ required # 0 /\ required < cur
            /\ new = Max2(required - ShrinkingPreserve, minAllowed)
      \/ /\ conf > minAllowed /\ new = cur
         /\ required # 0 \/ cur = conf \/ n - short < DelayBeforeRecovering
      \/ conf > minAllowed /\ new = Min2(conf, cur + gain)
  BY <1>1, <1>2, <1>6 DEF Adjusted
<1>8. l <= new /\ new <= conf
  <2>1. CASE conf > minAllowed /\ required < cur /\ new = Max2(required - ShrinkingPreserve, minAllowed)
    BY <1>4, <1>5, <2>1 DEF Max2
  <2>2. CASE new = Min2(conf, cur + gain)
    BY <1>4, <1>5, <2>2 DEF Min2
  <2>3. CASE new = conf \/ new = cur
    BY <1>4, <1>5, <2>3
  <2> QED BY <1>7, <2>1, <2>2, <2>3
<1>9. PICK quiet \in Int : quiet = Quiet(j, n) /\ quiet = n - short - DelayBeforeRecovering
  BY <1>3 DEF Quiet
<1>10. ASSUME quiet >= 0 PROVE new >= GrownFor(j, quiet)
  <2>1. GrownFor(j, quiet) \in Nat /\ GrownFor(j, quiet) <= conf /\ GrownFor(j, 0) = l
    BY <1>3, <1>4, <1>10, GrownForLess
  <2>2. CASE required # 0
    <3>1. quiet = 0
      BY <1>1, <1>9, <1>10, <2>2
    <3> QED BY <1>8, <2>1, <3>1
  <2>3. CASE new = conf
    BY <2>1, <2>3
  <2>4. CASE new = Min2(conf, cur + gain) /\ new # conf
    <3>1. new = cur + gain
      BY <1>5, <2>4 DEF Min2
    <3>2. PICK m \in Nat : m = RecoverPerUnit * quiet
      BY <1>10, Growth
    <3>3. GrownFor(j, quiet) = Min2(conf, l + m)
      BY <1>3, <1>4, <3>2 DEF GrownFor
    <3>4. PICK q \in Int : q = Quiet(i, tick) /\ q = tick - short - DelayBeforeRecovering
      BY <1>1 DEF Quiet
    <3>5. quiet = q + (n - tick)
      BY <1>9, <3>4
    <3>6. CASE q < 0
      <4>1. quiet <= n - tick /\ n - tick \in Nat /\ quiet \in Nat
        BY <1>5, <1>10, <3>5, <3>6
      <4>2. m <= gain
        BY <1>6, <3>2, <4>1, Growth
      <4> QED BY <1>5, <3>1, <3>3, <4>2 DEF Min2
    <3>7. CASE q >= 0
      <4>1. q \in Nat /\ n - tick \in Nat
        BY <1>5, <3>7
      <4>2. PICK p \in Nat : p = RecoverPerUnit * q
        BY <4>1, Growth
      <4>3. m = p + gain
        BY <1>6, <3>2, <3>5, <4>1, <4>2
      <4>4. cur >= Min2(conf, l + p)
        <5>1. cur >= GrownFor(i, q)
          BY <1>1, <3>4, <3>7 DEF IntervalOK
        <5>2. GrownFor(i, q) = Min2(conf, l + p)
          BY <1>1, <1>4, <4>2 DEF GrownFor
        <5> QED BY <5>1, <5>2
      <4> QED BY <1>5, <2>4, <3>1, <3>3, <4>3, <4>4 DEF Min2
    <3> QED BY <3>6, <3>7
  <2>5. CASE required = 0 /\ (cur = conf \/ n - short < DelayBeforeRecovering) /\ new = cur
    BY <1>9, <1>10, <2>3, <2>5
  <2> QED BY <1>7, <2>2, <2>3, <2>4, <2>5
<1>11. IntervalOK(j, n)
  BY <1>2, <1>3, <1>4, <1>8, <1>9, <1>10 DEF IntervalOK
<1> QED BY <1>2, <1>4, <1>8, <1>11

(* A read that is noted begins the wait for recovery anew.                 *)
LEMMA NotedOK ==
    ASSUME OracleInv, RefreshInv, Noted, UNCHANGED <<now, updater>>
    PROVE  RefreshInv'
<1>1. PICK i \in IntervalState, u \in UpdaterState, n \in Nat : i = interval /\ u = updater /\ n = now
  BY Facts
<1>2. RefreshOK(i, u, n, shrinkCh)
  BY <1>1, RefreshIs
<1>3. PICK j \in IntervalState : j = interval' /\ (j = i \/ j = [i EXCEPT !.lastShort = n])
  BY <1>1 DEF Noted
<1>4. j.configured = i.configured /\ j.adaptive = i.adaptive /\ j.lastTick = i.lastTick
      /\ (j.lastShort = i.lastShort \/ j.lastShort = n)
  BY <1>3 DEF IntervalState
<1>5. shrinkCh' # None => j.lastShort >= n
  <2>1. i.lastShort \in Int
    BY DEF IntervalState
  <2>2. shrinkCh' = shrinkCh \/ j.lastShort >= n
    BY <1>1, <1>3 DEF Noted
  <2> QED BY <1>2, <1>4, <2>1, <2>2 DEF RefreshOK
<1>6. IntervalOK(j, Since(j, u, n))
  <2>1. PICK t \in Int : t = Since(i, u, n) /\ t = Since(j, u, n) /\ t <= n
    BY <1>2, <1>4 DEF Since, RefreshOK, IntervalState
  <2>2. IntervalOK(i, t)
    BY <1>2, <2>1 DEF RefreshOK
  <2>3. Least(j) = Least(i) /\ \A q \in Int : GrownFor(j, q) = GrownFor(i, q)
    BY <1>4 DEF Least, GrownFor
  <2>4. ASSUME Quiet(j, t) >= 0 PROVE j.adaptive >= GrownFor(j, Quiet(j, t))
    <3>1. CASE j.lastShort = i.lastShort
      <4>1. Quiet(j, t) = Quiet(i, t) /\ Quiet(i, t) \in Int
        BY <3>1 DEF Quiet, IntervalState
      <4> QED BY <1>4, <2>2, <2>3, <2>4, <4>1 DEF IntervalOK
    <3>2. CASE j.lastShort = n
      <4>1. Quiet(j, t) = 0
        BY <2>1, <2>4, <3>2 DEF Quiet
      <4>2. GrownFor(j, 0) = Least(j)
        BY GrownForLess
      <4> QED BY <1>4, <2>2, <2>3, <4>1, <4>2 DEF IntervalOK
    <3> QED BY <1>4, <3>1, <3>2
  <2> QED BY <1>4, <2>1, <2>2, <2>3, <2>4 DEF IntervalOK
<1>7. RefreshOK(j, u, n, shrinkCh')
  BY <1>2, <1>4, <1>5, <1>6 DEF RefreshOK
<1> QED BY <1>1, <1>3, <1>7, RefreshIs

(* The goroutine's own steps.                                              *)
LEMMA UpdaterOK ==
    ASSUME OracleInv, RefreshInv, updateTS
    PROVE  RefreshInv'
<1>1. PICK i \in IntervalState, u \in UpdaterState, n \in Nat :
         i = interval /\ u = updater /\ n = now /\ n = now'
  BY Facts DEF updateTS
<1>2. RefreshOK(i, u, n, shrinkCh)
  BY <1>1, RefreshIs
<1>3. PICK cur \in Int, next \in Int, deadline \in Int, tick \in Int :
         /\ cur = u.cur /\ next = u.next /\ deadline = u.deadline /\ tick = i.lastTick
         /\ tick <= n /\ cur >= 1 /\ next >= 1 /\ deadline < tick + 2 * cur
  BY <1>2 DEF RefreshOK, UpdaterState, IntervalState
<1>4. CASE updateTS_Tick
  <2>1. PICK j \in IntervalState : j = nextUpdateInterval(0) /\ Adjusted(i, j, n, 0)
    BY <1>1, NextInterval
  <2>2. u.pc = "select" /\ interval' = j /\ UNCHANGED shrinkCh
        /\ updater' = [u EXCEPT !.pc = "update", !.todo = Known, !.next = j.adaptive]
    BY <1>1, <1>4, <2>1 DEF updateTS_Tick
  <2>3. IntervalOK(i, i.lastTick)
    BY <1>2, <2>2 DEF RefreshOK, Since
  <2>4. IntervalOK(j, n) /\ j.adaptive >= 1
    BY <1>3, <2>1, <2>3, AdjustedOK
  <2>5. /\ updater'.pc = "update" /\ updater'.cur = cur /\ updater'.next = j.adaptive
        /\ updater'.deadline = deadline
    BY <1>3, <2>2 DEF UpdaterState
  <2>6. j.lastTick = tick /\ j.lastShort = i.lastShort
    BY <1>3, <2>1 DEF Adjusted
  <2>7. Since(j, updater', n) = n
    BY <2>5 DEF Since
  <2>8. RefreshOK(j, updater', n, shrinkCh')
    BY <1>2, <1>3, <2>2, <2>4, <2>5, <2>6, <2>7 DEF RefreshOK
  <2> QED BY <1>1, <2>2, <2>8, RefreshIs
<1>5. CASE updateTS_Shrink
  <2>0. PICK sh \in Nat : sh = shrinkCh /\ sh # None
    BY <1>5, Facts DEF updateTS_Shrink
  <2>1. PICK j \in IntervalState : j = nextUpdateInterval(sh) /\ Adjusted(i, j, n, sh)
    BY <1>1, NextInterval
  <2>2. PICK new \in Int : new = j.adaptive
    BY DEF IntervalState
  <2>3. /\ u.pc = "select" /\ interval' = j /\ shrinkCh' = None
        /\ updater' = IF new = cur THEN u
                      ELSE IF n - tick >= new
                      THEN [u EXCEPT !.pc = "update", !.todo = Known, !.next = new]
                      ELSE [u EXCEPT !.cur = new, !.next = new, !.deadline = n + new]
    BY Zenon, <1>1, <1>3, <1>5, <2>0, <2>1, <2>2 DEF updateTS_Shrink
  <2>4. IntervalOK(i, i.lastTick) /\ i.lastShort >= n
    BY <1>2, <2>0, <2>3 DEF RefreshOK, Since
  <2>5. IntervalOK(j, n) /\ new >= 1
    BY <1>3, <2>1, <2>2, <2>4, AdjustedOK
  <2>6. j.lastTick = tick /\ j.lastShort = i.lastShort
    BY <1>3, <2>1 DEF Adjusted
  <2>7. IntervalOK(j, tick)
    <3>1. PICK short \in Int : short = j.lastShort /\ short >= n
      BY <2>4, <2>6 DEF IntervalState
    <3>2. Quiet(j, tick) >= 0 => Quiet(j, tick) = 0
      BY <1>3, <3>1 DEF Quiet
    <3>3. GrownFor(j, 0) = Least(j)
      BY GrownForLess
    <3> QED BY <2>5, <3>2, <3>3 DEF IntervalOK
  <2>8. PICK v \in UpdaterState : v = updater'
    BY UpdaterTypes
  <2>9. v.cur >= 1 /\ v.next >= 1 /\ v.deadline < tick + 2 * v.cur
    <3>1. CASE new = cur
      <4>1. v = u
        BY <2>3, <2>8, <3>1
      <4> QED BY <1>3, <4>1
    <3>2. CASE new # cur /\ n - tick >= new
      <4>1. v = [u EXCEPT !.pc = "update", !.todo = Known, !.next = new]
        BY <2>3, <2>8, <3>2
      <4>2. v.cur = cur /\ v.next = new /\ v.deadline = deadline
        BY <1>3, <4>1 DEF UpdaterState
      <4> QED BY <1>3, <2>5, <4>2
    <3>3. CASE new # cur /\ ~(n - tick >= new)
      <4>1. v = [u EXCEPT !.cur = new, !.next = new, !.deadline = n + new]
        BY <2>3, <2>8, <3>3
      <4>2. v.cur = new /\ v.next = new /\ v.deadline = n + new
        BY <4>1 DEF UpdaterState
      <4> QED BY <1>3, <2>5, <3>3, <4>2
    <3> QED BY <3>1, <3>2, <3>3
  <2>10. IntervalOK(j, Since(j, v, n))
    BY <2>5, <2>6, <2>7 DEF Since
  <2>11. RefreshOK(j, v, n, shrinkCh')
    BY <1>3, <2>3, <2>6, <2>9, <2>10 DEF RefreshOK
  <2> QED BY <1>1, <2>3, <2>8, <2>11, RefreshIs
<1>6. CASE doUpdate_End
  <2>1. /\ u.pc = "update" /\ interval' = [i EXCEPT !.lastTick = n] /\ UNCHANGED shrinkCh
        /\ updater' = [u EXCEPT !.pc = "select", !.cur = next, !.deadline = n + next]
    BY <1>1, <1>3, <1>6 DEF doUpdate_End
  <2>2. PICK j \in IntervalState : /\ j = interval' /\ j.lastTick = n /\ j.configured = i.configured
                                   /\ j.adaptive = i.adaptive /\ j.lastShort = i.lastShort
    BY <2>1 DEF IntervalState
  <2>20. PICK d \in Int : d = n + next
    OBVIOUS
  <2>21. PICK v \in UpdaterState : v = [u EXCEPT !.pc = "select", !.cur = next, !.deadline = d]
    BY DEF UpdaterState
  <2>3. v = updater' /\ v.pc = "select" /\ v.cur = next /\ v.next = next /\ v.deadline = n + next
    BY <1>3, <2>1, <2>20, <2>21 DEF UpdaterState
  <2>4. IntervalOK(i, n)
    BY <1>2, <2>1 DEF RefreshOK, Since
  <2>5. IntervalOK(j, Since(j, v, n))
    BY <2>2, <2>3, <2>4 DEF Since, IntervalOK, Least, GrownFor, Quiet
  <2>6. RefreshOK(j, v, n, shrinkCh')
    BY <1>2, <1>3, <2>1, <2>2, <2>3, <2>5 DEF RefreshOK
  <2> QED BY <1>1, <2>2, <2>3, <2>6, RefreshIs
<1>7. CASE Close \/ doUpdate_Next \/ \E s \in Scopes : doUpdate_Scope(s)
  <2>1. /\ UNCHANGED <<interval, shrinkCh>>
        /\ \/ updater' = u
           \/ u.pc = "select" /\ updater' = [u EXCEPT !.pc = "closed"]
           \/ \E s \in Scopes : updater' = [u EXCEPT !.todo = @ \ {s}]
    BY Zenon, <1>1, <1>7 DEF Close, doUpdate_Next, doUpdate_Scope
  <2>2. PICK v \in UpdaterState : v = updater'
    BY UpdaterTypes
  <2>3. /\ v.cur = cur /\ v.next = next /\ v.deadline = deadline
        /\ v.pc = u.pc \/ (u.pc # "update" /\ v.pc # "update")
    BY <1>3, <2>1, <2>2 DEF UpdaterState
  <2>4. IntervalOK(i, Since(i, v, n))
    BY <1>2, <2>3 DEF RefreshOK, Since
  <2>5. RefreshOK(i, v, n, shrinkCh)
    BY <1>2, <1>3, <2>3, <2>4 DEF RefreshOK
  <2> QED BY <1>1, <2>1, <2>2, <2>5, RefreshIs
<1> QED BY <1>4, <1>5, <1>6, <1>7 DEF updateTS

(* A change of the configured interval.                                    *)
LEMMA SetIntervalOK ==
    ASSUME OracleInv, RefreshInv, NEW new \in Nat \ {0}, SetLowResolutionTimestampUpdateInterval(new)
    PROVE  RefreshInv'
<1>1. PICK i \in IntervalState, u \in UpdaterState, n \in Nat :
         i = interval /\ u = updater /\ n = now /\ u = updater' /\ n = now' /\ shrinkCh' = shrinkCh
  BY Facts DEF SetLowResolutionTimestampUpdateInterval
<1>2. RefreshOK(i, u, n, shrinkCh)
  BY <1>1, RefreshIs
<1>3. PICK conf \in Nat \ {0}, cur \in Int : conf = i.configured /\ cur = i.adaptive
  BY DEF IntervalState
<1>4. PICK j \in IntervalState : /\ j = interval' /\ j.configured = new /\ j.lastShort = i.lastShort
                                 /\ j.lastTick = i.lastTick
                                 /\ j.adaptive = IF cur = conf \/ new < cur THEN new ELSE cur
  BY <1>1, <1>3, SetInterval
<1>5. PICK t \in Int : t = Since(i, u, n) /\ t = Since(j, u, n)
  BY <1>4 DEF Since, IntervalState
<1>6. PICK quiet \in Int : quiet = Quiet(i, t) /\ quiet = Quiet(j, t)
  BY <1>4 DEF Quiet, IntervalState
<1>7. IntervalOK(i, t)
  BY <1>2, <1>5 DEF RefreshOK
<1>8. /\ Least(i) \in Nat \ {0} /\ Least(i) <= cur /\ cur <= conf
      /\ Least(j) \in Nat \ {0} /\ Least(j) <= minAllowed /\ Least(j) <= new
      /\ conf > minAllowed => Least(i) = minAllowed
  BY <1>3, <1>4, <1>7, GrownForLess DEF IntervalOK
<1>9. CASE cur = conf \/ new < cur
  <2>1. j.adaptive = new
    BY <1>4, <1>9
  <2>2. quiet >= 0 => GrownFor(j, quiet) \in Nat /\ GrownFor(j, quiet) <= new
    BY <1>4, GrownForLess
  <2>3. IntervalOK(j, t)
    BY <1>4, <1>6, <1>8, <2>1, <2>2 DEF IntervalOK
  <2> QED BY <1>1, <1>2, <1>4, <1>5, <2>3, RefreshIs DEF RefreshOK
<1>10. CASE ~(cur = conf \/ new < cur)
  <2>1. j.adaptive = cur /\ cur < conf /\ cur <= new
    BY <1>4, <1>8, <1>10
  <2>2. Least(i) = minAllowed /\ minAllowed <= cur
    <3>1. CASE conf > minAllowed
      BY <1>8, <3>1
    <3>2. CASE conf <= minAllowed
      <4>1. Least(i) = conf
        BY <1>3, <3>2 DEF Least, Min2
      <4> QED BY <1>8, <2>1, <4>1
    <3> QED BY <3>1, <3>2
  <2>3. ASSUME quiet >= 0 PROVE cur >= GrownFor(j, quiet)
    <3>1. PICK m \in Nat : m = RecoverPerUnit * quiet
      BY <2>3, Growth
    <3>2. cur >= GrownFor(i, quiet)
      BY <1>3, <1>6, <1>7, <2>3 DEF IntervalOK
    <3>3. GrownFor(i, quiet) = Min2(conf, minAllowed + m)
      BY <1>3, <2>2, <3>1 DEF GrownFor
    <3>4. cur >= minAllowed + m
      BY <2>1, <3>2, <3>3 DEF Min2
    <3>5. GrownFor(j, quiet) = Min2(new, Least(j) + m)
      BY <1>4, <3>1 DEF GrownFor
    <3>6. Min2(new, Least(j) + m) <= Least(j) + m
      BY <1>8 DEF Min2
    <3>7. GrownFor(j, quiet) \in Nat
      BY <2>3, GrownForLess
    <3> QED BY <1>8, <3>4, <3>5, <3>6, <3>7
  <2>4. IntervalOK(j, t)
    BY <1>4, <1>6, <1>8, <2>1, <2>2, <2>3 DEF IntervalOK
  <2> QED BY <1>1, <1>2, <1>4, <1>5, <2>4, RefreshIs DEF RefreshOK
<1> QED BY <1>9, <1>10

LEMMA RefreshStep ==
    ASSUME OracleInv, RefreshInv, [Next]_vars
    PROVE  RefreshInv'
<1>1. CASE Advance
  <2>1. PICK i \in IntervalState, u \in UpdaterState, n \in Nat, m \in Nat :
           i = interval /\ u = updater /\ n = now /\ m = n + 1
    BY Facts
  <2>2. /\ now' = m /\ u.pc = "select" /\ shrinkCh' = None /\ interval' = i /\ updater' = u
    BY <1>1, <2>1 DEF Advance
  <2>3. RefreshOK(i, u, n, shrinkCh)
    BY <2>1, RefreshIs
  <2>4. i.lastTick \in Int /\ Since(i, u, n) = Since(i, u, m)
    BY <2>2 DEF Since, IntervalState
  <2>5. RefreshOK(i, u, m, None)
    BY <2>1, <2>3, <2>4 DEF RefreshOK
  <2> QED BY <2>2, <2>5, RefreshIs
<1>2. ASSUME UNCHANGED <<now, interval, updater, shrinkCh>> PROVE RefreshInv'
  BY <1>2, RefreshIs
<1>3. CASE OthersGetTimestamp \/ (\E x \in Getters : GetTimestamp(x)) \/ UNCHANGED vars
  BY <1>2, <1>3 DEF OthersGetTimestamp, GetTimestamp, vars
<1>4. CASE updateTS
  BY <1>4, UpdaterOK
<1>5. CASE \E s \in Scopes : DoChan(s)
  <2>1. UNCHANGED <<now, updater>>
    BY Zenon, <1>5 DEF DoChan, free
  <2> QED BY <1>5, <2>1, DoChanStep, NotedOK
<1>6. CASE \E c \in Client : Caller(c)
  <2>1. PICK c \in Client : Caller(c)
    BY <1>6
  <2>2. UNCHANGED <<now, updater>>
    BY Zenon, <2>1 DEF Caller, CallReturns, ContextDone, getCurrentTSForValidation, ValidateReadTS_Cached,
          ValidateReadTS_Fetched, CallGetTimestamp, GetStaleTimestamp, ValidateReadTS, free
  <2>3. Noted
    BY <2>1, PlainCallSteps, WaitSteps
  <2> QED BY <2>2, <2>3, NotedOK
<1>7. CASE \E new \in scenario.confs : SetLowResolutionTimestampUpdateInterval(new)
  BY <1>7, ScenarioFacts, SetIntervalOK
<1> QED BY <1>1, <1>3, <1>4, <1>5, <1>6, <1>7 DEF Next

-----------------------------------------------------------------------------
(* The theorems. *)

LEMMA Initially ==
    ASSUME Init
    PROVE  OracleInv /\ RefreshInv
<1>1. PICK conf \in Nat \ {0} : conf = scenario.conf /\ scenario \in Scenarios
  BY ScenariosAssumption DEF Init
<1>2. PICK t \in Int : t = ComposeTS(1, 0) /\ ExtractPhysical(t) = 1 /\ allocated = t
  BY Physical DEF Init
<1>3. t \in Nat \ {0}
  BY <1>2 DEF ComposeTS
<1> DEFINE e == [tso |-> t, arrival |-> 1]
           i == [configured |-> conf, adaptive |-> conf, state |-> "none",
                 lastShort |-> -DelayBeforeRecovering, lastTick |-> 1]
           u == [pc |-> "select", cur |-> conf, next |-> conf, deadline |-> 1 + conf, todo |-> {}]
<1>4. /\ now = 1 /\ flight = [s \in Scopes |-> None] /\ call = [c \in Client |-> NoCall]
      /\ getter = [x \in Getters |-> NotFetching] /\ shrinkCh = None
  BY DEF Init
<1>5. lastTSMap = [s \in Scopes |-> IF s = Global THEN e ELSE None]
  BY <1>2 DEF Init
<1>6. interval = i /\ updater = u
  BY <1>1 DEF Init
<1>7. e \in LastTSO /\ e.tso = t /\ e.arrival = 1
  BY <1>3 DEF LastTSO
<1>8. /\ i \in IntervalState /\ i.configured = conf /\ i.adaptive = conf /\ i.lastTick = 1
      /\ i.lastShort = -DelayBeforeRecovering
  BY DEF IntervalState
<1>9. /\ u \in UpdaterState /\ u.pc = "select" /\ u.cur = conf /\ u.next = conf
      /\ u.deadline = 1 + conf
  BY DEF UpdaterState
<1> HIDE DEF e, i, u
<1>10. /\ lastTSMap \in [Scopes -> LastTSO \cup {None}]
       /\ \A s \in Scopes : lastTSMap[s] # None => lastTSMap[s] = e
  BY <1>5, <1>7
<1>11. /\ getter \in [Getters -> GetterState] /\ GettersHonest
  <2>1. NotFetching \in GetterState /\ NotFetching.st = "idle"
    BY Begins
  <2> QED BY <1>4, <2>1 DEF GettersHonest, GetterOK
<1>12. /\ call \in [Client -> CallState] /\ \A c \in Client : call[c].pc = "idle"
  BY <1>4, NoCallOK
<1>13. CallsHonest
  BY <1>12 DEF CallsHonest, CallOK
<1>14. FlightsMatch /\ flight \in [Scopes -> (SUBSET Client) \cup {None}]
  BY <1>4, <1>12 DEF FlightsMatch
<1>15. CacheHonest
  BY <1>2, <1>4, <1>7, <1>10 DEF CacheHonest
<1>16. Types
  <2>1. TypeOK
    <3>1. \A s \in Scopes : lastTSMap[s] # None => lastTSMap[s].tso \in 1 .. allocated
      BY <1>2, <1>3, <1>7, <1>10
    <3>2. \A s \in Scopes : flight[s] # None => flight[s] \subseteq Client
      BY <1>4
    <3> QED BY <1>6, <1>8, <1>9, <3>1, <3>2 DEF TypeOK, IntervalState, UpdaterState
  <2>2. now \in Nat \ {0} /\ allocated \in Nat \ {0} /\ ExtractPhysical(allocated) <= now
    BY <1>2, <1>3, <1>4
  <2> QED BY <1>1, <1>4, <1>6, <1>8, <1>9, <1>10, <1>11, <1>12, <1>14, <2>1, <2>2 DEF Types
<1>17. RefreshOK(i, u, 1, None)
  <2>1. Quiet(i, 1) = 1 /\ Since(i, u, 1) = 1
    BY <1>8, <1>9 DEF Quiet, Since
  <2>2. Least(i) <= conf /\ GrownFor(i, 1) <= conf
    BY <1>8, GrownForLess
  <2>3. IntervalOK(i, 1)
    BY <1>8, <2>1, <2>2, GrownForLess DEF IntervalOK
  <2> QED BY <1>8, <1>9, <2>1, <2>3 DEF RefreshOK
<1>18. RefreshInv
  BY <1>4, <1>6, <1>17, RefreshIs
<1> QED BY <1>11, <1>13, <1>14, <1>15, <1>16, <1>18 DEF OracleInv

(* Both invariants hold at all times, whatever the callers, the cluster    *)
(* and the goroutine do and in which order.                                *)
THEOREM Invariance == Spec => [](OracleInv /\ RefreshInv)
<1>1. Init => OracleInv /\ RefreshInv
  BY Initially
<1>2. (OracleInv /\ RefreshInv) /\ [Next]_vars => (OracleInv /\ RefreshInv)'
  BY OracleStep, RefreshStep
<1> QED BY <1>1, <1>2, PTL DEF Spec

(* ValidateReadTS accepts no timestamp that PD has not given out and       *)
(* rejects none it had given out before the call, and GetStaleTimestamp's  *)
(* estimate is never ahead of the time asked for.                          *)
THEOREM Validation == Spec => []TimestampsHonest
<1>1. ASSUME OracleInv PROVE TimestampsHonest
  <2>1. TypeOK
    BY <1>1 DEF OracleInv, Types
  <2>2. ReadTSValidated
    BY <1>1, Facts DEF ReadTSValidated, CallOK
  <2>3. StaleTimestampNotAhead
    BY <1>1, Facts DEF StaleTimestampNotAhead, CallOK
  <2> QED BY <2>1, <2>2, <2>3 DEF TimestampsHonest
<1> QED BY <1>1, Invariance, PTL

(* Concurrent setLastTS move no scope's timestamp or arrival time          *)
(* backwards, and a timestamp that was returned is in the cache.           *)
THEOREM CacheAdvancing == Spec => LastTSAdvances
<1> DEFINE Moves ==
        /\ \A s \in Scopes : lastTSMap[s] # None =>
              /\ lastTSMap'[s].tso >= lastTSMap[s].tso
              /\ lastTSMap'[s].arrival >= lastTSMap[s].arrival
        /\ \A x \in Getters : getter'[x].st = "done" =>
              lastTSMap'[getter'[x].scope].tso >= getter'[x].ts
<1>1. ASSUME OracleInv, [Next]_vars PROVE [Moves]_vars
  <2>1. OracleInv' /\ CacheAdvances
    BY <1>1, OracleStep
  <2>2. \A s \in Scopes : lastTSMap[s] # None =>
              /\ lastTSMap'[s].tso >= lastTSMap[s].tso
              /\ lastTSMap'[s].arrival >= lastTSMap[s].arrival
    <3> SUFFICES ASSUME NEW s \in Scopes, lastTSMap[s] # None
                 PROVE  /\ lastTSMap'[s].tso >= lastTSMap[s].tso
                        /\ lastTSMap'[s].arrival >= lastTSMap[s].arrival
      OBVIOUS
    <3>1. lastTSMap'[s] # None /\ lastTSMap[s].tso <= lastTSMap'[s].tso
          /\ lastTSMap[s].arrival <= lastTSMap'[s].arrival
      BY <2>1 DEF CacheAdvances
    <3> QED BY <3>1
  <2>3. ASSUME NEW x \in Getters, getter'[x].st = "done"
        PROVE  lastTSMap'[getter'[x].scope].tso >= getter'[x].ts
    <3>1. GetterOK(getter[x])'
      BY <2>1 DEF OracleInv, GettersHonest
    <3>2. getter'[x].ts <= lastTSMap'[getter'[x].scope].tso
      BY <2>3, <3>1 DEF GetterOK
    <3> QED BY <3>2
  <2> QED BY <2>2, <2>3
<1>2. LastTSAdvances <=> [][Moves]_vars
  BY DEF LastTSAdvances
<1> QED BY <1>1, <1>2, Invariance, PTL DEF Spec

(* While the oracle is open, its interval stays within its limits, its     *)
(* refreshes are never two intervals apart, and the interval recovers.     *)
THEOREM Refreshing == Spec => []RefreshKeepsUp
<1>1. ASSUME OracleInv, RefreshInv PROVE RefreshKeepsUp
  <2>1. PICK i \in IntervalState, u \in UpdaterState, n \in Nat : i = interval /\ u = updater /\ n = now
    BY <1>1, Facts
  <2>2. RefreshOK(i, u, n, shrinkCh)
    BY <1>1, <2>1, RefreshIs
  <2>3. IntervalOK(i, Since(i, u, n)) /\ u.deadline < i.lastTick + 2 * u.cur
    BY <2>2 DEF RefreshOK
  <2>4. i.adaptive \in Least(i) .. i.configured
    BY <2>3, GrownForLess DEF IntervalOK, IntervalState
  <2>5. u.pc = "select" /\ Quiet(i, i.lastTick) >= 0 => i.adaptive >= GrownFor(i, Quiet(i, i.lastTick))
    BY <2>3 DEF IntervalOK, Since
  <2> QED BY <2>1, <2>3, <2>4, <2>5 DEF RefreshKeepsUp, Least, GrownFor, Quiet
<1> QED BY <1>1, Invariance, PTL
=============================================================================
