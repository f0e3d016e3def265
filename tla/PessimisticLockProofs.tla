----------------------- MODULE PessimisticLockProofs -----------------------
(***************************************************************************)
(* Theorems about PessimisticLock, for any keys and timestamps.            *)
(***************************************************************************)
EXTENDS PessimisticLock, TLAPS, FiniteSetTheorems, WellFoundedInduction

(* The types as sets.                                                      *)
Maps(T) == UNION {[D -> T] : D \in SUBSET Keys}
EntryMaps == Maps(Entry)
TSMaps == Maps(Nat)
Context == [on : BOOLEAN, last : EntryMaps, cur : EntryMaps, lastPrimary : KeyOrNone,
            lastAssigned : BOOLEAN, primary : KeyOrNone, assigned : BOOLEAN,
            maxLWC : Nat, lastOld : BOOLEAN]
TxnState == [flags : SUBSET Keys, notExist : SUBSET Keys, checks : TSMaps,
             primary : KeyOrNone, fts : Nat, maxLWC : Nat, ttl : KeyOrNone,
             beat : {"none", "beats", "over"}, lockedCnt : Int,
             agg : Context, bg : SUBSET [key : Keys, fts : Nat]]
CallState == [keys : (SUBSET Keys) \ {{}}, todo : SUBSET Keys, mode : AllModes,
              assigned : BOOLEAN, err : {"nil", "refused", "failed", "deadlock"},
              lwc : TSMaps, absent : SUBSET Keys, waiting : BOOLEAN]

LEMMA MapTypes ==
    /\ \A f : f \in EntryMaps <=> IsMap(f, Entry)
    /\ \A f : f \in TSMaps <=> IsMap(f, Nat)
  BY DEF EntryMaps, TSMaps, Maps, IsMap

LEMMA ContextType == ASSUME NEW a PROVE IsContext(a) <=> a \in Context
  BY MapTypes DEF IsContext, Context

LEMMA TxnType == ASSUME NEW t PROVE IsTxn(t) <=> t \in TxnState
  BY MapTypes, ContextType DEF IsTxn, TxnState

LEMMA CallType == ASSUME NEW c PROVE IsCall(c) <=> c \in CallState
  BY MapTypes DEF IsCall, CallState

-----------------------------------------------------------------------------
(* Keys and sets of keys.                                                  *)

LEMMA KeyFacts == Keys \subseteq Nat \ {0} /\ NoKey \notin Keys /\ IsFiniteSet(Keys)
<1>1. Keys \subseteq Nat \ {0} /\ NoKey \notin Keys
  BY ConstantsOK DEF Keys, NoKey
<1>2. IsFiniteSet(Keys)
  BY ConstantsOK, FS_Interval DEF Keys
<1> QED BY <1>1, <1>2

LEMMA SetFacts ==
    ASSUME NEW S \in SUBSET Keys
    PROVE  /\ IsFiniteSet(S) /\ Cardinality(S) \in Nat
           /\ S = {} <=> Cardinality(S) = 0
           /\ Cardinality(S) > 1 \/ S = {} \/ \E k \in Keys : S = {k}
<1>1. IsFiniteSet(S)
  BY KeyFacts, FS_Subset
<1>2. Cardinality(S) \in Nat /\ (S = {} <=> Cardinality(S) = 0)
  BY <1>1, FS_CardinalityType, FS_EmptySet
<1>3. Cardinality(S) = 1 => \E k \in Keys : S = {k}
  BY <1>1, FS_Singleton
<1> QED BY <1>1, <1>2, <1>3

LEMMA Singles == \A k : Cardinality({k}) = 1
  BY FS_Singleton

LEMMA MinIn ==
    ASSUME NEW S \in SUBSET Keys, S # {}
    PROVE  Min(S) \in S
<1>1. S \subseteq Nat
  BY KeyFacts
<1>2. \E x \in S : \A y \in S : ~(<<y, x>> \in OpToRel(<, Nat))
  BY <1>1, NatLessThanWellFounded, WFMin
<1>3. PICK x \in S : \A y \in S : ~(<<y, x>> \in OpToRel(<, Nat))
  BY <1>2
<1>4. ASSUME NEW y \in S, y < x PROVE FALSE
  <2> DEFINE p == <<y, x>>
  <2>1. p \in Nat \X Nat /\ p[1] = y /\ p[2] = x
    BY <1>1
  <2>2. p[1] < p[2]
    BY <1>4, <2>1
  <2> HIDE DEF p
  <2>3. p \in OpToRel(<, Nat)
    BY <2>1, <2>2, Zenon DEF OpToRel
  <2> QED BY <1>3, <2>3, Zenon DEF p
<1>5. \A y \in S : x =< y
  BY <1>1, <1>4
<1> QED BY <1>5 DEF Min

(* Disjoint sets of keys are counted apart.                                *)
LEMMA Counts ==
    ASSUME NEW S \in SUBSET Keys, NEW T \in SUBSET Keys, S \cap T = {}
    PROVE  Cardinality(S \cup T) = Cardinality(S) + Cardinality(T)
<1>1. IsFiniteSet(S) /\ IsFiniteSet(T)
  BY SetFacts
<1>2. Cardinality(S \cap T) = 0
  BY FS_EmptySet
<1>3. Cardinality(S \cup T) = Cardinality(S) + Cardinality(T) - Cardinality(S \cap T)
  BY <1>1, FS_Union
<1> QED BY <1>2, <1>3, SetFacts

LEMMA Fewer ==
    ASSUME NEW S \in SUBSET Keys, NEW T \in SUBSET S
    PROVE  Cardinality(T) <= Cardinality(S)
  BY SetFacts, FS_Subset

LEMMA EmptyMap == <<>> \in EntryMaps /\ <<>> \in TSMaps /\ DOMAIN <<>> = {}
<1>1. DOMAIN <<>> = {}
  OBVIOUS
<1>2. ASSUME NEW T PROVE <<>> \in [{} -> T]
  BY <1>1
<1> QED BY <1>1, <1>2 DEF EntryMaps, TSMaps, Maps

LEMMA MapFacts ==
    /\ \A f \in EntryMaps : DOMAIN f \in SUBSET Keys /\ \A k \in DOMAIN f : f[k] \in Entry
    /\ \A f \in TSMaps : DOMAIN f \in SUBSET Keys /\ \A k \in DOMAIN f : f[k] \in Nat
  BY DEF EntryMaps, TSMaps, Maps

LEMMA MakeMap ==
    ASSUME NEW D \in SUBSET Keys
    PROVE  /\ \A f : f \in [D -> Entry] => f \in EntryMaps
           /\ \A f : f \in [D -> Nat] => f \in TSMaps
  BY DEF EntryMaps, TSMaps, Maps

-----------------------------------------------------------------------------
(* What the client's operations do to its state.                           *)

(* The rollbacks of some keys with one forUpdateTS are added.              *)
Adds(t, u, keys, f) ==
    /\ t.bg \subseteq u.bg
    /\ \A k \in keys : \E r \in u.bg : r.key = k /\ r.fts = f
    /\ \A r \in u.bg \ t.bg : r.key \in keys /\ r.fts = f

SameRecords(t, u) ==
    /\ u.flags = t.flags /\ u.notExist = t.notExist /\ u.checks = t.checks
    /\ u.maxLWC = t.maxLWC

LEMMA AggFacts ==
    /\ NoAgg \in Context /\ NewAgg \in Context
    /\ ~NoAgg.on /\ NewAgg.on
    /\ DOMAIN NoAgg.last = {} /\ DOMAIN NoAgg.cur = {} /\ NoAgg.maxLWC = 0
    /\ NoAgg.lastPrimary = NoKey /\ NoAgg.primary = NoKey
    /\ ~NoAgg.assigned /\ ~NoAgg.lastAssigned
    /\ DOMAIN NewAgg.last = {} /\ DOMAIN NewAgg.cur = {} /\ NewAgg.maxLWC = 0
    /\ NewAgg.lastPrimary = NoKey /\ NewAgg.primary = NoKey
    /\ ~NewAgg.assigned /\ ~NewAgg.lastAssigned
  BY EmptyMap DEF NoAgg, NewAgg, Context, KeyOrNone

LEMMA ResetFacts ==
    ASSUME NEW t \in TxnState
    PROVE  LET u == reset(t) IN
           /\ u \in TxnState /\ u = [t EXCEPT !.ttl = NoKey, !.beat = "none"]
           /\ SameRecords(t, u) /\ u.primary = t.primary /\ u.fts = t.fts
           /\ u.ttl = NoKey /\ u.beat = "none" /\ u.lockedCnt = t.lockedCnt
           /\ u.agg = t.agg /\ u.bg = t.bg
  BY DEF reset, TxnState, KeyOrNone, SameRecords

LEMMA AsyncFacts ==
    ASSUME NEW t \in TxnState, NEW keys \in SUBSET Keys, NEW f \in Nat
    PROVE  LET u == asyncPessimisticRollback(t, keys, f) IN
           /\ u \in TxnState /\ SameRecords(t, u) /\ u.primary = t.primary /\ u.fts = t.fts
           /\ u.ttl = t.ttl /\ u.beat = t.beat /\ u.lockedCnt = t.lockedCnt
           /\ u.agg = t.agg /\ Adds(t, u, keys, MaxOf(t.fts, f))
<1> DEFINE F == MaxOf(t.fts, f)
           new == {[key |-> k, fts |-> F] : k \in keys}
           u == asyncPessimisticRollback(t, keys, f)
<1>1. F \in Nat
  BY DEF MaxOf, TxnState
<1> HIDE DEF F
<1>2. new \in SUBSET [key : Keys, fts : Nat]
  BY <1>1
<1>3. /\ \A k \in keys : \E r \in new : r.key = k /\ r.fts = F
      /\ \A r \in new : r.key \in keys /\ r.fts = F
  <2>1. \A k \in keys : [key |-> k, fts |-> F] \in new
    OBVIOUS
  <2>2. \A k \in keys : [key |-> k, fts |-> F].key = k /\ [key |-> k, fts |-> F].fts = F
    OBVIOUS
  <2>3. ASSUME NEW r \in new PROVE r.key \in keys /\ r.fts = F
    <3>1. PICK k \in keys : r = [key |-> k, fts |-> F]
      OBVIOUS
    <3> QED BY <3>1
  <2>4. ASSUME NEW k \in keys PROVE \E r \in new : r.key = k /\ r.fts = F
    BY <2>1, <2>2
  <2> QED BY <2>3, <2>4
<1>4. u = [t EXCEPT !.bg = t.bg \cup new]
  BY DEF asyncPessimisticRollback, F
<1> HIDE DEF new, u
<1>5. u \in TxnState /\ u.bg = t.bg \cup new
  BY <1>2, <1>4 DEF TxnState
<1>6. /\ SameRecords(t, u) /\ u.primary = t.primary /\ u.fts = t.fts
      /\ u.ttl = t.ttl /\ u.beat = t.beat /\ u.lockedCnt = t.lockedCnt /\ u.agg = t.agg
  BY <1>4 DEF TxnState, SameRecords
<1>7. Adds(t, u, keys, F)
  BY <1>3, <1>5 DEF Adds
<1> QED BY <1>5, <1>6, <1>7 DEF u, F

LEMMA RollbackKeysFacts ==
    ASSUME NEW t \in TxnState, NEW keys \in SUBSET Keys
    PROVE  LET u == rollbackKeys(t, keys) IN
           /\ u \in TxnState /\ SameRecords(t, u) /\ u.primary = t.primary /\ u.fts = t.fts
           /\ u.ttl = t.ttl /\ u.beat = t.beat /\ u.agg = t.agg
           /\ u.lockedCnt = t.lockedCnt - Cardinality(keys)
           /\ Adds(t, u, keys, MaxOf(t.fts, t.agg.maxLWC))
<1>1. CASE keys = {}
  <2>1. Cardinality(keys) = 0 /\ rollbackKeys(t, keys) = t
    BY <1>1, FS_EmptySet DEF rollbackKeys
  <2> QED BY <1>1, <2>1 DEF SameRecords, Adds, TxnState
<1>2. CASE keys # {}
  <2>1. PICK w \in TxnState : w = asyncPessimisticRollback(t, keys, t.agg.maxLWC)
    BY AsyncFacts DEF TxnState, Context
  <2>2. PICK d \in Int : d = t.lockedCnt - Cardinality(keys)
    BY SetFacts DEF TxnState
  <2>3. /\ SameRecords(t, w) /\ w.primary = t.primary /\ w.fts = t.fts
        /\ w.ttl = t.ttl /\ w.beat = t.beat /\ w.lockedCnt = t.lockedCnt
        /\ w.agg = t.agg /\ Adds(t, w, keys, MaxOf(t.fts, t.agg.maxLWC))
    BY <2>1, AsyncFacts DEF TxnState, Context
  <2>4. PICK u : u = [w EXCEPT !.lockedCnt = d]
    OBVIOUS
  <2>5. rollbackKeys(t, keys) = u
    BY <1>2, <2>1, <2>2, <2>3, <2>4 DEF rollbackKeys
  <2>6. u \in TxnState /\ SameRecords(w, u) /\ u.primary = w.primary /\ u.fts = w.fts
        /\ u.ttl = w.ttl /\ u.beat = w.beat /\ u.agg = w.agg /\ u.bg = w.bg
        /\ u.lockedCnt = d
    BY <2>4 DEF TxnState, SameRecords
  <2>7. Adds(t, u, keys, MaxOf(t.fts, t.agg.maxLWC)) /\ SameRecords(t, u)
    BY <2>3, <2>6 DEF Adds, SameRecords
  <2> QED BY <2>2, <2>3, <2>5, <2>6, <2>7
<1> QED BY <1>1, <1>2

(* The context of an attempt that follows another.                         *)
NextContext(a, b, old) ==
    /\ b \in Context /\ b.on /\ b.last = a.cur /\ DOMAIN b.cur = {} /\ b.maxLWC = a.maxLWC
    /\ b.lastPrimary = a.primary /\ b.lastAssigned = (a.assigned \/ a.lastAssigned)
    /\ b.primary = NoKey /\ ~b.assigned /\ b.lastOld = old

LEMMA RetryFacts ==
    ASSUME NEW t \in TxnState, NEW old \in BOOLEAN
    PROVE  LET u == retryAggressiveLocking(t, old) IN
           /\ u \in TxnState /\ SameRecords(t, u) /\ u.fts = t.fts
           /\ u.primary = (IF t.agg.assigned THEN NoKey ELSE t.primary)
           /\ u.ttl = t.ttl /\ u.beat = t.beat
           /\ u.lockedCnt = t.lockedCnt - Cardinality(DOMAIN t.agg.last)
           /\ Adds(t, u, DOMAIN t.agg.last, MaxOf(t.fts, t.agg.maxLWC))
           /\ NextContext(t.agg, u.agg, old)
<1> DEFINE a == t.agg
           b == [NewAgg EXCEPT !.lastAssigned = a.assigned \/ a.lastAssigned,
                    !.lastPrimary = a.primary, !.maxLWC = a.maxLWC,
                    !.last = a.cur, !.lastOld = old]
           w == cleanupAggressiveLockingRedundantLocks(t)
           x == IF a.assigned THEN resetPrimary(w, TRUE) ELSE w
<1>1. a \in Context /\ DOMAIN a.last \in SUBSET Keys
  BY MapFacts DEF TxnState, Context
<1>2. NextContext(a, b, old)
  <2> HIDE DEF a
  <2>1. b \in Context
    BY <1>1, AggFacts DEF Context
  <2> QED BY <1>1, <2>1, AggFacts DEF Context, NextContext
<1>3. /\ w \in TxnState /\ SameRecords(t, w) /\ w.primary = t.primary /\ w.fts = t.fts
      /\ w.ttl = t.ttl /\ w.beat = t.beat /\ w.agg = a
      /\ w.lockedCnt = t.lockedCnt - Cardinality(DOMAIN a.last)
      /\ Adds(t, w, DOMAIN a.last, MaxOf(t.fts, a.maxLWC))
  BY <1>1, RollbackKeysFacts DEF cleanupAggressiveLockingRedundantLocks
<1>4. retryAggressiveLocking(t, old) = [x EXCEPT !.agg = b]
  BY DEF retryAggressiveLocking
<1> HIDE DEF a, b, w
<1>5. /\ x \in TxnState /\ SameRecords(w, x) /\ x.fts = w.fts /\ x.ttl = w.ttl
      /\ x.beat = w.beat /\ x.lockedCnt = w.lockedCnt /\ x.bg = w.bg
      /\ x.primary = (IF a.assigned THEN NoKey ELSE w.primary)
  BY <1>3 DEF resetPrimary, TxnState, KeyOrNone, SameRecords
<1> HIDE DEF x
<1>6. PICK u : u = [x EXCEPT !.agg = b]
  OBVIOUS
<1>7. /\ u \in TxnState /\ SameRecords(x, u) /\ u.fts = x.fts /\ u.ttl = x.ttl
      /\ u.beat = x.beat /\ u.lockedCnt = x.lockedCnt /\ u.bg = x.bg
      /\ u.primary = x.primary /\ u.agg = b
  BY <1>2, <1>5, <1>6 DEF TxnState, SameRecords, NextContext
<1>8. SameRecords(t, u)
  BY <1>3, <1>5, <1>7 DEF SameRecords
<1>9. Adds(t, u, DOMAIN a.last, MaxOf(t.fts, a.maxLWC))
  BY <1>3, <1>5, <1>7 DEF Adds
<1> QED BY <1>2, <1>3, <1>4, <1>5, <1>6, <1>7, <1>8, <1>9 DEF a

LEMMA CancelFacts ==
    ASSUME NEW t \in TxnState
    PROVE  LET u == cancelAggressiveLocking(t)
               was == t.agg.assigned \/ t.agg.lastAssigned IN
           /\ u \in TxnState /\ SameRecords(t, u) /\ u.fts = t.fts /\ u.agg = NoAgg
           /\ u.primary = (IF was THEN NoKey ELSE t.primary)
           /\ u.ttl = (IF was THEN NoKey ELSE t.ttl) /\ u.beat = (IF was THEN "none" ELSE t.beat)
           /\ u.lockedCnt = t.lockedCnt - Cardinality(DOMAIN t.agg.last)
                              - Cardinality(DOMAIN t.agg.cur)
           /\ Adds(t, u, DOMAIN t.agg.last \cup DOMAIN t.agg.cur, MaxOf(t.fts, t.agg.maxLWC))
<1> DEFINE a == t.agg
           was == a.assigned \/ a.lastAssigned
           w == cleanupAggressiveLockingRedundantLocks(t)
           x == IF was THEN resetPrimary(w, FALSE) ELSE w
           y == rollbackKeys(x, DOMAIN a.cur)
           f == MaxOf(t.fts, a.maxLWC)
<1>1. a \in Context /\ DOMAIN a.last \in SUBSET Keys /\ DOMAIN a.cur \in SUBSET Keys
  BY MapFacts DEF TxnState, Context
<1>3. /\ w \in TxnState /\ SameRecords(t, w) /\ w.primary = t.primary /\ w.fts = t.fts
      /\ w.ttl = t.ttl /\ w.beat = t.beat /\ w.agg = a
      /\ w.lockedCnt = t.lockedCnt - Cardinality(DOMAIN a.last)
      /\ Adds(t, w, DOMAIN a.last, f)
  BY <1>1, RollbackKeysFacts DEF cleanupAggressiveLockingRedundantLocks
<1>4. cancelAggressiveLocking(t) = [y EXCEPT !.agg = NoAgg]
  BY DEF cancelAggressiveLocking
<1> HIDE DEF a, w
<1>5. was \in BOOLEAN
  BY <1>1 DEF Context
<1> HIDE DEF was
<1>6. /\ x \in TxnState /\ SameRecords(w, x) /\ x.fts = w.fts /\ x.agg = w.agg
      /\ x.lockedCnt = w.lockedCnt /\ x.bg = w.bg
      /\ x.primary = (IF was THEN NoKey ELSE w.primary)
      /\ x.ttl = (IF was THEN NoKey ELSE w.ttl)
  BY <1>3, <1>5 DEF resetPrimary, reset, TxnState, KeyOrNone, SameRecords
<1>7. x.beat = (IF was THEN "none" ELSE w.beat)
  BY <1>3, <1>5 DEF resetPrimary, reset, TxnState
<1> HIDE DEF x
<1>8. /\ y \in TxnState /\ SameRecords(x, y) /\ y.fts = x.fts /\ y.primary = x.primary
      /\ y.ttl = x.ttl /\ y.beat = x.beat /\ y.lockedCnt = x.lockedCnt - Cardinality(DOMAIN a.cur)
      /\ Adds(x, y, DOMAIN a.cur, f)
  BY <1>1, <1>3, <1>6, RollbackKeysFacts
<1> HIDE DEF y, f
<1>9. PICK u : u = [y EXCEPT !.agg = NoAgg]
  OBVIOUS
<1>10. /\ u \in TxnState /\ SameRecords(y, u) /\ u.fts = y.fts /\ u.ttl = y.ttl
       /\ u.beat = y.beat /\ u.lockedCnt = y.lockedCnt /\ u.bg = y.bg
       /\ u.primary = y.primary /\ u.agg = NoAgg
  BY <1>8, <1>9, AggFacts DEF TxnState, SameRecords
<1>11. SameRecords(t, u)
  BY <1>3, <1>6, <1>8, <1>10 DEF SameRecords
<1>12. Adds(t, u, DOMAIN a.last \cup DOMAIN a.cur, f)
  BY <1>3, <1>6, <1>8, <1>10 DEF Adds
<1>13. u.beat = (IF was THEN "none" ELSE t.beat)
  BY <1>3, <1>7, <1>8, <1>10
<1>14. u.lockedCnt = t.lockedCnt - Cardinality(DOMAIN a.last) - Cardinality(DOMAIN a.cur)
  BY <1>3, <1>6, <1>8, <1>10
<1>15. u.fts = t.fts /\ u.primary = (IF was THEN NoKey ELSE t.primary)
       /\ u.ttl = (IF was THEN NoKey ELSE t.ttl)
  BY <1>3, <1>6, <1>8, <1>10
<1> QED BY <1>4, <1>9, <1>10, <1>11, <1>12, <1>13, <1>14, <1>15 DEF a, f, was

LEMMA JoinTS ==
    ASSUME NEW f \in TSMaps, NEW g \in TSMaps
    PROVE  /\ Merge(f, g) \in TSMaps /\ DOMAIN Merge(f, g) = DOMAIN f \cup DOMAIN g
           /\ \A k \in DOMAIN f : Merge(f, g)[k] = f[k]
           /\ \A k \in DOMAIN g \ DOMAIN f : Merge(f, g)[k] = g[k]
<1> DEFINE D == DOMAIN f \cup DOMAIN g
<1>1. D \in SUBSET Keys
  BY MapFacts
<1>2. Merge(f, g) \in [D -> Nat]
  BY MapFacts DEF Merge
<1> QED BY <1>1, <1>2, MakeMap DEF Merge

LEMMA JoinEntries ==
    ASSUME NEW f \in EntryMaps, NEW g \in EntryMaps
    PROVE  /\ Merge(f, g) \in EntryMaps /\ DOMAIN Merge(f, g) = DOMAIN f \cup DOMAIN g
           /\ \A k \in DOMAIN f : Merge(f, g)[k] = f[k]
           /\ \A k \in DOMAIN g \ DOMAIN f : Merge(f, g)[k] = g[k]
<1> DEFINE D == DOMAIN f \cup DOMAIN g
<1>1. D \in SUBSET Keys
  BY MapFacts
<1>2. Merge(f, g) \in [D -> Entry]
  BY MapFacts DEF Merge
<1> QED BY <1>1, <1>2, MakeMap DEF Merge

LEMMA MaxFacts ==
    ASSUME NEW a \in Nat, NEW b \in Nat
    PROVE  MaxOf(a, b) \in Nat /\ MaxOf(a, b) >= a /\ MaxOf(a, b) >= b /\ MaxOf(a, b) \in {a, b}
  BY DEF MaxOf

LEMMA DoneFacts ==
    ASSUME NEW t \in TxnState
    PROVE  LET u == doneAggressiveLocking(t)
               ends == t.agg.lastAssigned /\ ~t.agg.assigned IN
           /\ u \in TxnState /\ u.primary = t.primary /\ u.fts = t.fts /\ u.agg = NoAgg
           /\ u.flags = t.flags \cup DOMAIN t.agg.cur
           /\ u.notExist = t.notExist \cup {k \in DOMAIN t.agg.cur : Missing(t.agg.cur, k)}
           /\ DOMAIN u.checks = DOMAIN t.checks \cup DOMAIN t.agg.cur
           /\ \A k \in DOMAIN t.checks : u.checks[k] = t.checks[k]
           /\ \A k \in DOMAIN t.agg.cur \ DOMAIN t.checks : u.checks[k] = t.agg.cur[k].fts
           /\ u.maxLWC = MaxOf(t.maxLWC, t.agg.maxLWC)
           /\ u.ttl = (IF ends THEN NoKey ELSE t.ttl) /\ u.beat = (IF ends THEN "none" ELSE t.beat)
           /\ u.lockedCnt = t.lockedCnt - Cardinality(DOMAIN t.agg.last)
           /\ Adds(t, u, DOMAIN t.agg.last, MaxOf(t.fts, t.agg.maxLWC))
<1> DEFINE a == t.agg
           ends == a.lastAssigned /\ ~a.assigned
           x == IF ends THEN reset(t) ELSE t
           w == cleanupAggressiveLockingRedundantLocks(x)
           f == MaxOf(t.fts, a.maxLWC)
           g == [k \in DOMAIN a.cur |-> a.cur[k].fts]
           ch == Merge(t.checks, g)
           m == MaxOf(t.maxLWC, a.maxLWC)
           fl == t.flags \cup DOMAIN a.cur
           absent == {k \in DOMAIN a.cur : a.cur[k].hasValue /\ ~a.cur[k].exists}
           ne == t.notExist \cup absent
<1>1. a \in Context /\ DOMAIN a.last \in SUBSET Keys /\ DOMAIN a.cur \in SUBSET Keys
      /\ a.cur \in EntryMaps /\ t.checks \in TSMaps /\ m \in Nat /\ fl \in SUBSET Keys
      /\ ne \in SUBSET Keys
  BY MapFacts, MaxFacts DEF TxnState, Context
<1>2. g \in TSMaps /\ DOMAIN g = DOMAIN a.cur
  <2>1. g \in [DOMAIN a.cur -> Nat]
    BY <1>1, MapFacts DEF Entry
  <2> QED BY <1>1, <2>1, MakeMap
<1>3. /\ ch \in TSMaps /\ DOMAIN ch = DOMAIN t.checks \cup DOMAIN a.cur
      /\ \A k \in DOMAIN t.checks : ch[k] = t.checks[k]
      /\ \A k \in DOMAIN a.cur \ DOMAIN t.checks : ch[k] = a.cur[k].fts
  <2>1. \A k \in DOMAIN a.cur : g[k] = a.cur[k].fts
    OBVIOUS
  <2> HIDE DEF g, a
  <2>2. /\ ch \in TSMaps /\ DOMAIN ch = DOMAIN t.checks \cup DOMAIN g
        /\ \A k \in DOMAIN t.checks : ch[k] = t.checks[k]
        /\ \A k \in DOMAIN g \ DOMAIN t.checks : ch[k] = g[k]
    BY <1>1, <1>2, JoinTS
  <2> HIDE DEF ch
  <2> QED BY <1>2, <2>1, <2>2
<1>4. ends \in BOOLEAN
  BY <1>1 DEF Context
<1>5. doneAggressiveLocking(t) = [w EXCEPT !.flags = @ \cup DOMAIN a.cur,
                                           !.notExist = @ \cup absent, !.checks = Merge(@, g),
                                           !.maxLWC = MaxOf(@, a.maxLWC), !.agg = NoAgg]
  BY DEF doneAggressiveLocking
<1>20. absent = {k \in DOMAIN a.cur : Missing(a.cur, k)}
  BY DEF Missing
<1> HIDE DEF a, g, absent
<1> HIDE DEF ends
<1>6. /\ x \in TxnState /\ SameRecords(t, x) /\ x.fts = t.fts /\ x.agg = a
      /\ x.lockedCnt = t.lockedCnt /\ x.bg = t.bg /\ x.primary = t.primary
      /\ x.ttl = (IF ends THEN NoKey ELSE t.ttl)
  BY <1>4, ResetFacts DEF SameRecords, a
<1>7. x.beat = (IF ends THEN "none" ELSE t.beat)
  BY <1>4, ResetFacts DEF TxnState
<1> HIDE DEF x
<1>8. /\ w \in TxnState /\ SameRecords(x, w) /\ w.primary = x.primary /\ w.fts = x.fts
      /\ w.ttl = x.ttl /\ w.beat = x.beat /\ w.agg = a
      /\ w.lockedCnt = x.lockedCnt - Cardinality(DOMAIN a.last)
      /\ Adds(x, w, DOMAIN a.last, f)
  BY <1>1, <1>6, RollbackKeysFacts DEF cleanupAggressiveLockingRedundantLocks
<1> HIDE DEF w, f
<1>9. w.flags = t.flags /\ w.notExist = t.notExist /\ w.checks = t.checks /\ w.maxLWC = t.maxLWC
  BY <1>6, <1>8 DEF SameRecords
<1>10. doneAggressiveLocking(t) = [w EXCEPT !.flags = fl, !.notExist = ne, !.checks = ch, !.maxLWC = m,
                                           !.agg = NoAgg]
  BY <1>5, <1>8, <1>9 DEF TxnState
<1> HIDE DEF fl, ch, m, ne
<1>11. PICK u : u = [w EXCEPT !.flags = fl, !.notExist = ne, !.checks = ch, !.maxLWC = m,
                                           !.agg = NoAgg]
  OBVIOUS
<1>12. /\ u \in TxnState /\ u.flags = fl /\ u.notExist = ne /\ u.checks = ch /\ u.maxLWC = m /\ u.agg = NoAgg
       /\ u.fts = w.fts /\ u.ttl = w.ttl /\ u.beat = w.beat /\ u.lockedCnt = w.lockedCnt
       /\ u.bg = w.bg /\ u.primary = w.primary
  BY <1>1, <1>3, <1>8, <1>11, AggFacts DEF TxnState
<1>13. Adds(t, u, DOMAIN a.last, f)
  BY <1>6, <1>8, <1>12 DEF Adds
<1>14. u.beat = (IF ends THEN "none" ELSE t.beat)
  BY <1>7, <1>8, <1>12
<1>15. /\ DOMAIN u.checks = DOMAIN t.checks \cup DOMAIN a.cur
       /\ \A k \in DOMAIN t.checks : u.checks[k] = t.checks[k]
       /\ \A k \in DOMAIN a.cur \ DOMAIN t.checks : u.checks[k] = a.cur[k].fts
  BY <1>3, <1>12
<1>16. /\ u.flags = t.flags \cup DOMAIN a.cur /\ u.maxLWC = MaxOf(t.maxLWC, a.maxLWC)
       /\ u.notExist = t.notExist \cup {k \in DOMAIN a.cur : Missing(a.cur, k)}
  BY <1>12, <1>20 DEF fl, m, ne
<1>17. /\ u.primary = t.primary /\ u.fts = t.fts /\ u.ttl = (IF ends THEN NoKey ELSE t.ttl)
       /\ u.lockedCnt = t.lockedCnt - Cardinality(DOMAIN a.last)
  BY <1>6, <1>8, <1>12
<1>18. doneAggressiveLocking(t) = u
  BY <1>10, <1>11
<1> HIDE DEF fl, ch, m
<1> QED BY <1>12, <1>13, <1>14, <1>15, <1>16, <1>17, <1>18 DEF a, f, ends

-----------------------------------------------------------------------------
(* Between calls.                                                          *)

Quiet(l, v, n, t) ==
    /\ Tidy(t) /\ Bounded(l, v, n, t) /\ PrimaryKnown(t) /\ HeldKept(l, t)
    /\ RecordsRight(l, t) /\ LastKept(l, t) /\ NothingKept(l, t) /\ AbsentKnown(l, v, t)
    /\ Accounted(l, t, NoCall)
    /\ t.primary # NoKey => HeldBy(t) # {}

LEMMA AddsSafe ==
    ASSUME NEW l, NEW t, NEW u, NEW keys, NEW f, NEW k,
           Adds(t, u, keys, f), k \notin keys, Safe(l, t, k)
    PROVE  Safe(l, u, k)
  BY DEF Adds, Safe

LEMMA AddsCovers ==
    ASSUME NEW l, NEW t, NEW u, NEW keys, NEW f \in Nat, NEW k,
           Adds(t, u, keys, f), Covered(l, t, k) \/ (k \in keys /\ l[k].fts \in Nat /\ l[k].fts <= f)
    PROVE  Covered(l, u, k)
  BY DEF Adds, Covered

LEMMA TxnFacts ==
    ASSUME NEW t \in TxnState
    PROVE  /\ t.flags \in SUBSET Keys /\ t.notExist \in SUBSET Keys /\ t.checks \in TSMaps
           /\ t.primary \in KeyOrNone /\ t.fts \in Nat /\ t.maxLWC \in Nat
           /\ t.ttl \in KeyOrNone /\ t.beat \in {"none", "beats", "over"}
           /\ t.lockedCnt \in Int /\ t.bg \in SUBSET [key : Keys, fts : Nat]
           /\ t.agg \in Context /\ t.agg.on \in BOOLEAN /\ t.agg.last \in EntryMaps
           /\ t.agg.cur \in EntryMaps /\ t.agg.lastPrimary \in KeyOrNone
           /\ t.agg.lastAssigned \in BOOLEAN /\ t.agg.primary \in KeyOrNone
           /\ t.agg.assigned \in BOOLEAN /\ t.agg.maxLWC \in Nat /\ t.agg.lastOld \in BOOLEAN
           /\ DOMAIN t.agg.last \in SUBSET Keys /\ DOMAIN t.agg.cur \in SUBSET Keys
           /\ DOMAIN t.checks \in SUBSET Keys
  BY MapFacts DEF TxnState, Context

LEMMA NoLockTS == NoLock.fts = 0
  BY DEF NoLock

LEMMA LockFacts ==
    ASSUME NEW l, NEW v, NEW n \in Nat, NEW t, Bounded(l, v, n, t), NEW k \in Keys
    PROVE  /\ l[k].fts \in Nat /\ l[k].fts <= n /\ l[k].primary \in KeyOrNone
           /\ v[k] \in Nat /\ v[k] <= n
  BY DEF Bounded

LEMMA RetryQuiet ==
    ASSUME NEW l, NEW v, NEW n \in Nat, NEW t, NEW old \in BOOLEAN,
           Quiet(l, v, n, t), t.agg.on
    PROVE  Quiet(l, v, n, retryAggressiveLocking(t, old))
<1>1. t \in TxnState
  BY TxnType DEF Quiet, Tidy
<1> DEFINE a == t.agg
           f == MaxOf(t.fts, a.maxLWC)
<1>2. PICK u \in TxnState :
        /\ u = retryAggressiveLocking(t, old) /\ SameRecords(t, u) /\ u.fts = t.fts
        /\ u.primary = (IF t.agg.assigned THEN NoKey ELSE t.primary)
        /\ u.ttl = t.ttl /\ u.beat = t.beat
        /\ u.lockedCnt = t.lockedCnt - Cardinality(DOMAIN t.agg.last)
        /\ Adds(t, u, DOMAIN t.agg.last, f)
        /\ NextContext(t.agg, u.agg, old)
  BY <1>1, RetryFacts
<1>3. /\ f \in Nat /\ f <= n
  BY <1>1, TxnFacts, MaxFacts DEF Quiet, Bounded
<1>4. /\ HeldBy(u) = t.flags /\ DOMAIN u.agg.last = DOMAIN t.agg.cur /\ DOMAIN u.agg.cur = {}
      /\ Recorded(u) = HeldBy(t) /\ HeldBy(t) \in SUBSET Keys
      /\ u.flags = t.flags /\ u.checks = t.checks /\ u.maxLWC = t.maxLWC
      /\ u.notExist = t.notExist
  BY <1>1, <1>2, TxnFacts DEF HeldBy, Recorded, SameRecords, NextContext
<1>5. Tidy(u)
  <2>1. Cardinality(Recorded(t)) = Cardinality(HeldBy(t)) + Cardinality(DOMAIN t.agg.last)
    BY <1>1, <1>4, Counts, TxnFacts DEF Quiet, Tidy, Recorded
  <2>2. u.lockedCnt >= Cardinality(Recorded(u))
    BY <1>1, <1>2, <1>4, <2>1, TxnFacts, SetFacts DEF Quiet, Tidy
  <2> QED BY <1>2, <1>4, <2>2, TxnType DEF Quiet, Tidy, NextContext
<1>6. Bounded(l, v, n, u)
  BY <1>2, <1>3, <1>4 DEF Quiet, Bounded, Adds, NextContext
<1>7. Accounted(l, u, NoCall)
  <2> SUFFICES ASSUME NEW k \in Keys, k \notin Recorded(u) PROVE Covered(l, u, k)
    BY DEF Accounted
  <2>1. CASE k \in DOMAIN t.agg.last
    <3>1. l[k].fts \in Nat
      BY LockFacts DEF Quiet
    <3>2. l[k] # NoLock => l[k].fts <= f
      BY <2>1 DEF Quiet, LastKept
    <3> QED BY <1>2, <1>3, <2>1, <3>1, <3>2, AddsCovers DEF Covered
  <2>2. CASE k \notin DOMAIN t.agg.last
    <3>1. Covered(l, t, k)
      BY <1>4, <2>2 DEF Quiet, Accounted, Recorded, NoCall
    <3> QED BY <1>2, <1>3, <3>1, AddsCovers
  <2> QED BY <2>1, <2>2
<1>10. AbsentKnown(l, v, u)
  <2>1. \A k : Missing(u.agg.last, k) => Missing(t.agg.cur, k)
    BY <1>2 DEF Missing, NextContext
  <2>2. \A k : ~Missing(u.agg.cur, k)
    BY <1>4 DEF Missing
  <2> QED BY <1>4, <2>1, <2>2 DEF Quiet, AbsentKnown
<1>8. CASE t.agg.assigned
  <2>1. t.flags = {} /\ t.agg.primary # NoKey /\ t.primary \in {NoKey, t.agg.primary}
    BY <1>8 DEF Quiet, PrimaryKnown
  <2>2. u.primary = NoKey /\ HeldBy(u) = {}
    BY <1>2, <1>4, <1>8, <2>1
  <2>3. DOMAIN t.agg.cur # {} => /\ t.primary = t.agg.primary /\ t.primary \in DOMAIN t.agg.cur
                                 /\ t.ttl = t.primary /\ t.beat # "none"
    BY <1>1, <2>1, TxnFacts, KeyFacts DEF Quiet, HeldKept, HeldBy
  <2>4. DOMAIN t.agg.cur = {} => t.ttl = NoKey
    BY <1>8, <2>1 DEF Quiet, NothingKept, HeldBy
  <2>5. PrimaryKnown(u)
    BY <1>2, <1>4, <1>8, <2>1, <2>2 DEF PrimaryKnown, NextContext
  <2>6. HeldKept(l, u) /\ RecordsRight(l, u)
    BY <1>2, <1>4, <2>1, <2>2 DEF Quiet, HeldKept, RecordsRight, Tidy
  <2>7. LastKept(l, u)
    <3> SUFFICES ASSUME NEW k \in DOMAIN t.agg.cur
                 PROVE  /\ Safe(l, u, k) /\ (l[k] # NoLock => l[k].fts = u.agg.last[k].fts)
                        /\ l[k].fts <= MaxOf(u.fts, u.agg.maxLWC)
                        /\ Kept(l, u, k, u.agg.lastPrimary) /\ u.agg.lastPrimary # NoKey
      BY <1>4 DEF LastKept
    <3>1. k \in HeldBy(t) /\ k \notin DOMAIN t.agg.last
      BY DEF Quiet, Tidy, HeldBy
    <3>2. Safe(l, u, k)
      BY <1>2, <3>1, AddsSafe DEF Quiet, HeldKept
    <3>3. Kept(l, u, k, t.primary)
      BY <1>2, <3>1 DEF Quiet, HeldKept, Kept
    <3> QED BY <1>2, <2>1, <2>3, <3>1, <3>2, <3>3 DEF Quiet, RecordsRight, NextContext
  <2>8. NothingKept(l, u)
    <3>1. CASE DOMAIN t.agg.cur = {}
      BY <1>2, <1>4, <2>4, <3>1 DEF NothingKept, NextContext
    <3>2. CASE DOMAIN t.agg.cur # {}
      <4>1. u.agg.lastPrimary \in DOMAIN u.agg.last /\ u.agg.lastPrimary = t.primary
        BY <1>2, <1>4, <2>3, <3>2 DEF NextContext
      <4>2. Safe(l, u, t.primary) /\ Kept(l, u, t.primary, t.primary)
        <5>1. Kept(l, t, t.primary, t.primary)
          BY <2>3, <3>2 DEF Quiet, HeldKept, HeldBy
        <5> QED BY <1>2, <1>4, <2>3, <2>7, <3>2, <4>1, <5>1 DEF LastKept, Kept
      <4> QED BY <1>2, <1>4, <2>3, <3>2, <4>1, <4>2 DEF NothingKept, NextContext, KeptAlive
    <3> QED BY <3>1, <3>2
  <2>9. u.primary # NoKey => HeldBy(u) # {}
    BY <2>2
  <2> QED BY <1>2, <1>5, <1>6, <1>7, <1>10, <2>5, <2>6, <2>7, <2>8, <2>9 DEF Quiet
<1>9. CASE ~t.agg.assigned
  <2>1. u.primary = t.primary /\ u.agg.lastPrimary = NoKey
    BY <1>2, <1>9 DEF Quiet, PrimaryKnown, NextContext
  <2>2. t.agg.lastAssigned => t.primary = NoKey /\ HeldBy(t) = {}
    BY <1>1, <1>9, TxnFacts, KeyFacts DEF Quiet, PrimaryKnown, HeldKept, HeldBy
  <2>3. ~t.agg.lastAssigned => t.primary \in {NoKey} \cup t.flags
    BY <1>9 DEF Quiet, PrimaryKnown
  <2>4. DOMAIN t.agg.cur # {} => t.primary \in t.flags /\ t.primary # NoKey
    <3>1. t.primary = NoKey => DOMAIN t.agg.cur = {}
      BY <1>1, <1>4, KeyFacts DEF Quiet, HeldKept, HeldBy
    <3> QED BY <2>2, <2>3, <3>1
  <2>5. PrimaryKnown(u)
    BY <1>2, <1>4, <1>9, <2>1, <2>2, <2>3, <2>4 DEF Quiet, PrimaryKnown, NextContext
  <2>6. \A k \in HeldBy(t) : Safe(l, u, k)
    BY <1>2, AddsSafe DEF Quiet, Tidy, HeldKept
  <2>7. HeldKept(l, u)
    <3>1. \A k \in HeldBy(u) : k \in HeldBy(t)
      BY <1>4 DEF HeldBy
    <3>2. t.flags # {} => t.primary \in t.flags
      <4>1. t.flags # {} => t.primary \in HeldBy(t)
        BY DEF Quiet, HeldKept, HeldBy
      <4>2. t.flags # {} => ~t.agg.lastAssigned
        BY DEF Quiet, PrimaryKnown
      <4> QED BY <1>1, <1>4, <2>3, <4>1, <4>2, KeyFacts
    <3> QED BY <1>2, <1>4, <2>1, <2>6, <3>1, <3>2 DEF Quiet, HeldKept, Kept
  <2>8. RecordsRight(l, u)
    BY <1>2, <1>4, <2>1 DEF Quiet, RecordsRight
  <2>9. LastKept(l, u)
    <3> SUFFICES ASSUME NEW k \in DOMAIN t.agg.cur
                 PROVE  /\ Safe(l, u, k) /\ (l[k] # NoLock => l[k].fts = u.agg.last[k].fts)
                        /\ l[k].fts <= MaxOf(u.fts, u.agg.maxLWC)
                        /\ Kept(l, u, k, u.primary)
      BY <1>4, <2>1 DEF LastKept
    <3>1. k \in HeldBy(t)
      BY DEF HeldBy
    <3> QED BY <1>2, <2>1, <2>6, <3>1 DEF Quiet, HeldKept, Kept, RecordsRight, NextContext
  <2>10. NothingKept(l, u)
    <3> SUFFICES ASSUME t.primary = NoKey
                 PROVE  u.ttl = NoKey \/ (u.agg.on /\ ~u.agg.assigned /\ u.agg.lastAssigned
                                            /\ u.agg.lastPrimary = NoKey)
      BY <1>4, <2>1, <2>4 DEF NothingKept
    <3>1. CASE t.agg.lastAssigned
      BY <1>2, <2>1, <3>1 DEF NextContext
    <3>2. CASE ~t.agg.lastAssigned
      <4>1. t.agg.lastPrimary = NoKey
        BY <3>2 DEF Quiet, PrimaryKnown
      <4>2. DOMAIN t.agg.last = {}
        BY <1>1, <4>1, TxnFacts, KeyFacts DEF Quiet, PrimaryKnown
      <4>3. t.ttl = NoKey
        BY <3>2, <4>2 DEF Quiet, NothingKept
      <4> QED BY <1>2, <4>3
    <3> QED BY <1>1, <3>1, <3>2, TxnFacts
  <2>11. u.primary # NoKey => HeldBy(u) # {}
    BY <2>1, <2>2, <2>3, <1>4
  <2> QED BY <1>2, <1>5, <1>6, <1>7, <1>10, <2>5, <2>7, <2>8, <2>9, <2>10, <2>11 DEF Quiet
<1> QED BY <1>1, <1>8, <1>9, TxnFacts

LEMMA OldPrimary ==
    ASSUME NEW l, NEW v, NEW n \in Nat, NEW t, Quiet(l, v, n, t),
           ~t.agg.assigned, ~t.agg.lastAssigned, t.primary = NoKey
    PROVE  t.ttl = NoKey
<1>1. t \in TxnState
  BY TxnType DEF Quiet, Tidy
<1>2. CASE t.agg.on
  <2>1. t.agg.lastPrimary = NoKey
    BY <1>2 DEF Quiet, PrimaryKnown
  <2>2. DOMAIN t.agg.last = {}
    BY <1>1, <1>2, <2>1, TxnFacts, KeyFacts DEF Quiet, PrimaryKnown
  <2> QED BY <2>2 DEF Quiet, NothingKept
<1>3. CASE ~t.agg.on
  BY <1>3 DEF Quiet, NothingKept
<1> QED BY <1>1, <1>2, <1>3, TxnFacts

LEMMA CancelQuiet ==
    ASSUME NEW l, NEW v, NEW n \in Nat, NEW t, Quiet(l, v, n, t), t.agg.on
    PROVE  Quiet(l, v, n, cancelAggressiveLocking(t))
<1>1. t \in TxnState
  BY TxnType DEF Quiet, Tidy
<1> DEFINE f == MaxOf(t.fts, t.agg.maxLWC)
           was == t.agg.assigned \/ t.agg.lastAssigned
           gone == DOMAIN t.agg.last \cup DOMAIN t.agg.cur
<1>2. PICK u \in TxnState :
        /\ u = cancelAggressiveLocking(t) /\ SameRecords(t, u) /\ u.fts = t.fts /\ u.agg = NoAgg
        /\ u.primary = (IF was THEN NoKey ELSE t.primary)
        /\ u.ttl = (IF was THEN NoKey ELSE t.ttl) /\ u.beat = (IF was THEN "none" ELSE t.beat)
        /\ u.lockedCnt = t.lockedCnt - Cardinality(DOMAIN t.agg.last)
                           - Cardinality(DOMAIN t.agg.cur)
        /\ Adds(t, u, gone, f)
  BY <1>1, CancelFacts
<1>3. f \in Nat /\ f <= n
  BY <1>1, TxnFacts, MaxFacts DEF Quiet, Bounded
<1>4. /\ HeldBy(u) = t.flags /\ Recorded(u) = t.flags /\ ~u.agg.on /\ ~u.agg.assigned
      /\ DOMAIN u.agg.last = {} /\ DOMAIN u.agg.cur = {} /\ u.agg.maxLWC = 0
      /\ u.flags = t.flags /\ u.checks = t.checks /\ u.maxLWC = t.maxLWC
      /\ u.notExist = t.notExist
  BY <1>2, AggFacts DEF HeldBy, Recorded, SameRecords
<1>5. Tidy(u)
  <2>1. Cardinality(Recorded(t)) = Cardinality(HeldBy(t)) + Cardinality(DOMAIN t.agg.last)
    BY <1>1, Counts, TxnFacts DEF Quiet, Tidy, Recorded, HeldBy
  <2>2. Cardinality(HeldBy(t)) = Cardinality(t.flags) + Cardinality(DOMAIN t.agg.cur)
    BY <1>1, Counts, TxnFacts DEF Quiet, Tidy, HeldBy
  <2>3. u.lockedCnt >= Cardinality(Recorded(u))
    BY <1>1, <1>2, <1>4, <2>1, <2>2, TxnFacts, SetFacts DEF Quiet, Tidy
  <2> QED BY <1>2, <1>4, <2>3, TxnType DEF Quiet, Tidy
<1>6. Bounded(l, v, n, u)
  BY <1>2, <1>3, <1>4 DEF Quiet, Bounded, Adds
<1>7. PrimaryKnown(u) /\ LastKept(l, u)
  BY <1>4 DEF PrimaryKnown, LastKept
<1>8. RecordsRight(l, u)
  BY <1>2, <1>4 DEF Quiet, RecordsRight
<1>12. AbsentKnown(l, v, u)
  BY <1>4 DEF Quiet, AbsentKnown, Missing
<1>9. t.flags \cap gone = {}
  BY DEF Quiet, Tidy, HeldBy
<1>10. HeldKept(l, u) /\ NothingKept(l, u) /\ (u.primary # NoKey => HeldBy(u) # {})
  <2>1. CASE was
    <3>1. t.flags = {}
      BY <2>1 DEF Quiet, PrimaryKnown
    <3> QED BY <1>2, <1>4, <2>1, <3>1 DEF HeldKept, NothingKept
  <2>2. CASE ~was
    <3>1. t.primary \in {NoKey} \cup t.flags /\ u.primary = t.primary /\ u.ttl = t.ttl /\ u.beat = t.beat
      BY <1>1, <1>2, <2>2, TxnFacts DEF Quiet, PrimaryKnown
    <3>2. HeldKept(l, u)
      <4>1. \A k \in t.flags : Safe(l, u, k)
        BY <1>2, <1>9, AddsSafe DEF Quiet, HeldKept, HeldBy
      <4>2. t.flags # {} => t.primary \in t.flags
        BY <1>1, <3>1, TxnFacts, KeyFacts DEF Quiet, HeldKept, HeldBy
      <4> QED BY <1>4, <3>1, <4>1, <4>2 DEF Quiet, HeldKept, HeldBy, Kept
    <3>3. NothingKept(l, u)
      BY <1>4, <2>2, <3>1, OldPrimary DEF NothingKept
    <3> QED BY <1>4, <3>1, <3>2, <3>3
  <2> QED BY <2>1, <2>2
<1>11. Accounted(l, u, NoCall)
  <2> SUFFICES ASSUME NEW k \in Keys, k \notin t.flags PROVE Covered(l, u, k)
    BY <1>4 DEF Accounted
  <2>1. CASE k \in gone
    <3>1. l[k].fts \in Nat
      BY LockFacts DEF Quiet
    <3>2. l[k] # NoLock => l[k].fts <= f
      BY <2>1 DEF Quiet, LastKept, RecordsRight
    <3> QED BY <1>2, <1>3, <2>1, <3>1, <3>2, AddsCovers DEF Covered
  <2>2. CASE k \notin gone
    <3>1. Covered(l, t, k)
      BY <2>2 DEF Quiet, Accounted, Recorded, HeldBy, NoCall
    <3> QED BY <1>2, <1>3, <3>1, AddsCovers
  <2> QED BY <2>1, <2>2
<1> QED BY <1>2, <1>5, <1>6, <1>7, <1>8, <1>10, <1>11, <1>12 DEF Quiet

LEMMA DoneQuiet ==
    ASSUME NEW l, NEW v, NEW n \in Nat, NEW t, Quiet(l, v, n, t), t.agg.on
    PROVE  Quiet(l, v, n, doneAggressiveLocking(t))
<1>1. t \in TxnState
  BY TxnType DEF Quiet, Tidy
<1> DEFINE f == MaxOf(t.fts, t.agg.maxLWC)
           ends == t.agg.lastAssigned /\ ~t.agg.assigned
<1>2. PICK u \in TxnState :
        /\ u = doneAggressiveLocking(t)
        /\ u.primary = t.primary /\ u.fts = t.fts /\ u.agg = NoAgg
        /\ u.flags = t.flags \cup DOMAIN t.agg.cur
        /\ u.notExist = t.notExist \cup {k \in DOMAIN t.agg.cur : Missing(t.agg.cur, k)}
        /\ DOMAIN u.checks = DOMAIN t.checks \cup DOMAIN t.agg.cur
        /\ \A k \in DOMAIN t.checks : u.checks[k] = t.checks[k]
        /\ \A k \in DOMAIN t.agg.cur \ DOMAIN t.checks : u.checks[k] = t.agg.cur[k].fts
        /\ u.maxLWC = MaxOf(t.maxLWC, t.agg.maxLWC)
        /\ u.ttl = (IF ends THEN NoKey ELSE t.ttl) /\ u.beat = (IF ends THEN "none" ELSE t.beat)
        /\ u.lockedCnt = t.lockedCnt - Cardinality(DOMAIN t.agg.last)
        /\ Adds(t, u, DOMAIN t.agg.last, f)
  BY <1>1, DoneFacts
<1>3. f \in Nat /\ f <= n /\ u.maxLWC <= n /\ u.maxLWC >= t.maxLWC /\ u.maxLWC >= t.agg.maxLWC
  <2>1. /\ t.fts \in Nat /\ t.maxLWC \in Nat /\ t.agg.maxLWC \in Nat
        /\ t.fts <= n /\ t.maxLWC <= n /\ t.agg.maxLWC <= n
    BY <1>1, TxnFacts DEF Quiet, Bounded
  <2> QED BY <1>2, <2>1, MaxFacts
<1>4. /\ HeldBy(u) = HeldBy(t) /\ Recorded(u) = HeldBy(t) /\ ~u.agg.on /\ ~u.agg.assigned
      /\ DOMAIN u.agg.last = {} /\ DOMAIN u.agg.cur = {} /\ u.agg.maxLWC = 0
      /\ HeldBy(t) \in SUBSET Keys
  BY <1>1, <1>2, TxnFacts, AggFacts DEF HeldBy, Recorded
<1>5. Tidy(u)
  <2>1. Cardinality(Recorded(t)) = Cardinality(HeldBy(t)) + Cardinality(DOMAIN t.agg.last)
    BY <1>1, <1>4, Counts, TxnFacts DEF Quiet, Tidy, Recorded
  <2>2. u.lockedCnt >= Cardinality(Recorded(u))
    BY <1>1, <1>2, <1>4, <2>1, TxnFacts, SetFacts DEF Quiet, Tidy
  <2> QED BY <1>2, <1>4, <2>2, TxnType DEF Quiet, Tidy
<1>6. Bounded(l, v, n, u)
  BY <1>2, <1>3, <1>4 DEF Quiet, Bounded, Adds
<1>7. PrimaryKnown(u) /\ LastKept(l, u)
  BY <1>4 DEF PrimaryKnown, LastKept
<1>8. RecordsRight(l, u)
  <2>1. \A k \in DOMAIN u.checks : l[k] # NoLock => l[k].fts = u.checks[k]
    BY <1>2 DEF Quiet, RecordsRight
  <2>2. ASSUME NEW k \in u.flags PROVE l[k].fts <= MaxOf(u.fts, u.maxLWC)
    <3>1. l[k].fts \in Nat
      BY <1>2, TxnFacts, LockFacts DEF Quiet
    <3>2. l[k].fts <= MaxOf(t.fts, t.maxLWC) \/ l[k].fts <= MaxOf(t.fts, t.agg.maxLWC)
      BY <1>2, <2>2 DEF Quiet, RecordsRight
    <3> QED BY <1>1, <1>2, <1>3, <3>1, <3>2, TxnFacts DEF MaxOf
  <2> QED BY <1>4, <2>1, <2>2 DEF RecordsRight
<1>9. HeldKept(l, u)
  <2>1. \A k \in HeldBy(t) : Safe(l, u, k)
    BY <1>2, AddsSafe DEF Quiet, Tidy, HeldKept
  <2>2. HeldBy(t) # {} => ~ends
    BY <1>1, <1>4, KeyFacts DEF Quiet, PrimaryKnown, HeldKept
  <2> QED BY <1>2, <1>4, <2>1, <2>2 DEF Quiet, HeldKept, Kept
<1>13. AbsentKnown(l, v, u)
  BY <1>2, <1>4 DEF Quiet, AbsentKnown, Missing
<1>10. NothingKept(l, u)
  <2> SUFFICES ASSUME t.primary = NoKey PROVE u.ttl = NoKey
    BY <1>2, <1>4 DEF NothingKept
  <2>1. CASE ends
    BY <1>2, <2>1
  <2>2. CASE t.agg.assigned
    BY <1>2, <2>2 DEF Quiet, NothingKept
  <2>3. CASE ~t.agg.assigned /\ ~t.agg.lastAssigned
    BY <1>2, <2>3, OldPrimary
  <2> QED BY <1>1, <2>1, <2>2, <2>3, TxnFacts
<1>11. Accounted(l, u, NoCall)
  <2> SUFFICES ASSUME NEW k \in Keys, k \notin HeldBy(t) PROVE Covered(l, u, k)
    BY <1>4 DEF Accounted
  <2>1. CASE k \in DOMAIN t.agg.last
    <3>1. l[k].fts \in Nat
      BY LockFacts DEF Quiet
    <3>2. l[k] # NoLock => l[k].fts <= f
      BY <2>1 DEF Quiet, LastKept
    <3> QED BY <1>2, <1>3, <2>1, <3>1, <3>2, AddsCovers DEF Covered
  <2>2. CASE k \notin DOMAIN t.agg.last
    <3>1. Covered(l, t, k)
      BY <2>2 DEF Quiet, Accounted, Recorded, NoCall
    <3> QED BY <1>2, <1>3, <3>1, AddsCovers
  <2> QED BY <2>1, <2>2
<1>12. u.primary # NoKey => HeldBy(u) # {}
  BY <1>2, <1>4 DEF Quiet
<1> QED BY <1>2, <1>5, <1>6, <1>7, <1>8, <1>9, <1>10, <1>11, <1>12, <1>13 DEF Quiet

(* A new ForUpdateTS is above everything that was ever sent.               *)
LEMMA NewAttemptFresh ==
    ASSUME NEW l, NEW v, NEW n \in Nat, NEW t, Quiet(l, v, n, t),
           DOMAIN t.agg.cur = {}, ~t.agg.assigned
    PROVE  Quiet(l, v, n + 1, t) /\ Fresh(l, n + 1, n + 1, "none", t, NoCall)
<1>1. t \in TxnState
  BY TxnType DEF Quiet, Tidy
<1>2. PICK m \in Nat : m = n + 1
  OBVIOUS
<1>3. Bounded(l, v, m, t)
  <2>1. l \in [Keys -> [fts : 0..m, primary : KeyOrNone]] /\ v \in [Keys -> 0..m]
    BY <1>2 DEF Quiet, Bounded
  <2> QED BY <1>1, <1>2, <2>1, TxnFacts DEF Quiet, Bounded
<1>4. Fresh(l, m, m, "none", t, NoCall)
  <2>1. \A k \in Keys : l[k].fts \in Nat /\ l[k].fts <= n
    BY LockFacts DEF Quiet
  <2>2. t.fts <= n /\ t.agg.maxLWC <= n /\ \A r \in t.bg : r.fts <= n /\ r.fts \in Nat
    BY <1>1, TxnFacts DEF Quiet, Bounded
  <2> QED BY <1>1, <1>2, <2>1, <2>2, TxnFacts DEF Fresh
<1> QED BY <1>2, <1>3, <1>4 DEF Quiet

-----------------------------------------------------------------------------
(* LockKeys up to the requests.                                            *)

SameAttempt(a, b) ==
    /\ b.on = a.on /\ b.lastPrimary = a.lastPrimary /\ b.lastAssigned = a.lastAssigned
    /\ b.maxLWC = a.maxLWC /\ b.lastOld = a.lastOld

(* The primary is chosen if there is none, and the ForUpdateTS is taken.    *)
Chosen(t, keys, s) ==
    [(IF t.primary = NoKey THEN selectPrimaryForPessimisticLock(t, keys) ELSE t)
        EXCEPT !.fts = s]

LEMMA ChosenFacts ==
    ASSUME NEW t \in TxnState, NEW keys \in SUBSET Keys, keys # {}, NEW s \in Nat
    PROVE  LET u == Chosen(t, keys, s) IN
           /\ u \in TxnState /\ SameRecords(t, u) /\ u.fts = s
           /\ u.ttl = t.ttl /\ u.beat = t.beat /\ u.lockedCnt = t.lockedCnt /\ u.bg = t.bg
           /\ u.primary \in Keys
           /\ t.primary = NoKey => u.primary \in keys
           /\ t.primary # NoKey => u.primary = t.primary
           /\ SameAttempt(t.agg, u.agg) /\ u.agg.last = t.agg.last /\ u.agg.cur = t.agg.cur
           /\ t.agg.on /\ t.primary = NoKey => u.agg.assigned /\ u.agg.primary = u.primary
           /\ ~(t.agg.on /\ t.primary = NoKey) => u.agg = t.agg
<1> DEFINE u == Chosen(t, keys, s)
<1>1. CASE t.primary # NoKey
  <2>1. u = [t EXCEPT !.fts = s]
    BY <1>1 DEF Chosen
  <2>2. t.primary \in Keys
    BY <1>1, TxnFacts DEF KeyOrNone
  <2> QED BY <1>1, <2>1, <2>2 DEF TxnState, SameRecords, SameAttempt
<1>2. CASE t.primary = NoKey
  <2> DEFINE p == IF t.agg.on /\ t.agg.lastPrimary \in keys THEN t.agg.lastPrimary ELSE Min(keys)
             w == [t EXCEPT !.primary = p]
             b == [t.agg EXCEPT !.assigned = TRUE, !.primary = p]
  <2>1. p \in keys
    BY MinIn
  <2>2. selectPrimaryForPessimisticLock(t, keys)
          = IF t.agg.on THEN [w EXCEPT !.agg.assigned = TRUE, !.agg.primary = p] ELSE w
    BY DEF selectPrimaryForPessimisticLock
  <2> HIDE DEF p
  <2>3. w \in TxnState /\ w.agg = t.agg
    BY <2>1 DEF TxnState, KeyOrNone
  <2>4. b \in Context /\ b.assigned /\ b.primary = p /\ b.last = t.agg.last /\ b.cur = t.agg.cur
        /\ SameAttempt(t.agg, b)
    BY <2>1, TxnFacts DEF Context, KeyOrNone, SameAttempt
  <2>5. [w EXCEPT !.agg.assigned = TRUE, !.agg.primary = p] = [w EXCEPT !.agg = b]
    BY <2>3, TxnFacts DEF TxnState, Context
  <2> HIDE DEF b
  <2>6. CASE t.agg.on
    <3>1. u = [t EXCEPT !.primary = p, !.agg = b, !.fts = s]
      BY <1>2, <2>2, <2>5, <2>6 DEF Chosen, TxnState
    <3> HIDE DEF u
    <3>2. u \in TxnState /\ u.fts = s /\ u.primary = p /\ u.agg = b
      BY <2>1, <2>4, <3>1 DEF TxnState, KeyOrNone
    <3>3. /\ SameRecords(t, u)
          /\ u.ttl = t.ttl /\ u.beat = t.beat /\ u.lockedCnt = t.lockedCnt /\ u.bg = t.bg
      BY <3>1 DEF TxnState, SameRecords
    <3> QED BY <1>2, <2>1, <2>4, <2>6, <3>2, <3>3 DEF u
  <2>7. CASE ~t.agg.on
    <3>1. u = [t EXCEPT !.primary = p, !.fts = s]
      BY <1>2, <2>2, <2>7 DEF Chosen, TxnState
    <3> QED BY <1>2, <2>1, <2>7, <3>1 DEF TxnState, SameRecords, SameAttempt, KeyOrNone
  <2> QED BY <2>6, <2>7, TxnFacts
<1> QED BY <1>1, <1>2

Filtered(t, k, mode, assigned) ==
    resetTTLManagerForAggressiveLockingMode(filterAggressiveLockedKeys(t, k, mode),
                                            ~(t.agg.on /\ skips(t, k, mode)), assigned)

LEMMA WithoutFacts ==
    ASSUME NEW f \in EntryMaps, NEW k
    PROVE  /\ Without(f, k) \in EntryMaps /\ DOMAIN Without(f, k) = DOMAIN f \ {k}
           /\ \A j \in DOMAIN f \ {k} : Without(f, k)[j] = f[j]
<1> DEFINE D == DOMAIN f \ {k}
           g == [x \in D |-> f[x]]
<1>1. Without(f, k) = g
  BY DEF Without, Restrict
<1>2. D \in SUBSET Keys /\ g \in [D -> Entry]
  BY MapFacts
<1> QED BY <1>1, <1>2, MakeMap

LEMMA EntryOnRetryFacts ==
    ASSUME NEW e \in Entry, NEW mode
    PROVE  /\ entryOnRetry(e, mode) \in Entry /\ entryOnRetry(e, mode).fts = e.fts
           /\ entryOnRetry(e, mode).exists
<1>1. PICK h \in BOOLEAN : h = IF ReturnValues(mode) THEN e.hasValue ELSE FALSE
  BY DEF Entry
<1>2. PICK d : d = [e EXCEPT !.lwc = 0, !.hasValue = h, !.exists = TRUE]
  OBVIOUS
<1>3. entryOnRetry(e, mode) = d
  BY <1>1, <1>2 DEF entryOnRetry, Entry
<1>4. d \in Entry /\ d.fts = e.fts /\ d.exists
  BY <1>2 DEF Entry
<1> QED BY <1>3, <1>4

FilterResult(t, u, k, mode, assigned) ==
    LET skip == skips(t, k, mode)
        off == ~skip /\ assigned /\ t.agg.primary # t.agg.lastPrimary IN
    /\ u \in TxnState /\ SameRecords(t, u) /\ u.primary = t.primary /\ u.fts = t.fts
    /\ u.lockedCnt = t.lockedCnt /\ u.bg = t.bg
    /\ SameAttempt(t.agg, u.agg)
    /\ (u.agg.assigned <=> t.agg.assigned) /\ u.agg.primary = t.agg.primary
    /\ DOMAIN u.agg.last = DOMAIN t.agg.last \ {k}
    /\ \A j \in DOMAIN u.agg.last : u.agg.last[j] = t.agg.last[j]
    /\ ~skip => u.agg.cur = t.agg.cur
    /\ skip => /\ DOMAIN u.agg.cur = DOMAIN t.agg.cur \cup {k}
               /\ u.agg.cur[k].fts = t.agg.last[k].fts /\ u.agg.cur[k].exists
               /\ \A j \in DOMAIN t.agg.cur : u.agg.cur[j] = t.agg.cur[j]
    /\ off => u.ttl = NoKey /\ u.beat = "none"
    /\ ~off => u.ttl = t.ttl /\ u.beat = t.beat

LEMMA FilteredFacts ==
    ASSUME NEW t \in TxnState, t.agg.on, NEW k \in Keys, NEW mode, NEW assigned \in BOOLEAN,
           k \notin DOMAIN t.agg.cur
    PROVE  FilterResult(t, Filtered(t, k, mode, assigned), k, mode, assigned)
<1> DEFINE a == t.agg
           skip == skips(t, k, mode)
           off == ~skip /\ assigned /\ a.primary # a.lastPrimary
           la == Without(a.last, k)
           g == [j \in {k} |-> entryOnRetry(a.last[k], mode)]
           cu == IF skip THEN Merge(a.cur, g) ELSE a.cur
           b == [a EXCEPT !.last = la, !.cur = cu]
           w == filterAggressiveLockedKeys(t, k, mode)
<1>1. a \in Context /\ a.last \in EntryMaps /\ a.cur \in EntryMaps /\ skip \in BOOLEAN
      /\ off \in BOOLEAN
  BY TxnFacts DEF skips
<1>2. skip => k \in DOMAIN a.last
  BY DEF skips
<1>3. /\ la \in EntryMaps /\ DOMAIN la = DOMAIN a.last \ {k}
      /\ \A j \in DOMAIN la : la[j] = a.last[j]
  BY <1>1, WithoutFacts
<1>4. /\ cu \in EntryMaps /\ (~skip => cu = a.cur)
      /\ skip => /\ DOMAIN cu = DOMAIN a.cur \cup {k} /\ cu[k].fts = a.last[k].fts /\ cu[k].exists
                 /\ \A j \in DOMAIN a.cur : cu[j] = a.cur[j]
  <2>1. CASE ~skip
    BY <1>1, <2>1
  <2>2. CASE skip
    <3>1. entryOnRetry(a.last[k], mode) \in Entry
          /\ entryOnRetry(a.last[k], mode).fts = a.last[k].fts
          /\ entryOnRetry(a.last[k], mode).exists
      BY <1>1, <1>2, <2>2, MapFacts, EntryOnRetryFacts
    <3>2. g \in [{k} -> Entry] /\ g[k] = entryOnRetry(a.last[k], mode) /\ DOMAIN g = {k}
      BY <3>1
    <3>3. g \in EntryMaps
      BY <3>2, MakeMap
    <3> HIDE DEF g, a, skip
    <3>4. /\ Merge(a.cur, g) \in EntryMaps /\ DOMAIN Merge(a.cur, g) = DOMAIN a.cur \cup {k}
          /\ \A j \in DOMAIN a.cur : Merge(a.cur, g)[j] = a.cur[j]
          /\ Merge(a.cur, g)[k] = g[k]
      <4>1. /\ Merge(a.cur, g) \in EntryMaps /\ DOMAIN Merge(a.cur, g) = DOMAIN a.cur \cup DOMAIN g
            /\ \A j \in DOMAIN a.cur : Merge(a.cur, g)[j] = a.cur[j]
            /\ \A j \in DOMAIN g \ DOMAIN a.cur : Merge(a.cur, g)[j] = g[j]
        BY <1>1, <3>3, JoinEntries
      <4>2. k \notin DOMAIN a.cur
        BY DEF a
      <4> QED BY <3>2, <4>1, <4>2
    <3> QED BY <2>2, <3>1, <3>2, <3>4
  <2> QED BY <1>1, <2>1, <2>2
<1> HIDE DEF skip, la, cu
<1>5. /\ b \in Context /\ SameAttempt(a, b) /\ b.assigned = a.assigned /\ b.primary = a.primary
      /\ b.last = la /\ b.cur = cu
  <2> HIDE DEF a
  <2> QED BY <1>1, <1>3, <1>4 DEF Context, SameAttempt
<1>6. CASE k \in DOMAIN a.last
  <2>1. w = [t EXCEPT !.agg = b]
    <3>1. w = IF skip THEN [[t EXCEPT !.agg.last = la] EXCEPT !.agg.cur = Merge(@, g)]
              ELSE [t EXCEPT !.agg.last = la]
      BY <1>1, <1>6 DEF filterAggressiveLockedKeys, skip, la
    <3> HIDE DEF g
    <3>2. [t EXCEPT !.agg.last = la] = [t EXCEPT !.agg = [a EXCEPT !.last = la]]
      BY <1>1 DEF TxnState, Context
    <3>3. CASE skip
      <4>1. cu = Merge(a.cur, g)
        BY <3>3 DEF cu
      <4> HIDE DEF cu
      <4> QED BY <1>1, <3>1, <3>3, <4>1 DEF TxnState, Context
    <3>4. CASE ~skip
      <4>1. cu = a.cur
        BY <3>4 DEF cu
      <4> QED BY <1>1, <3>1, <3>4, <4>1 DEF TxnState, Context
    <3> QED BY <1>1, <3>3, <3>4
  <2> HIDE DEF b, w
  <2>2. PICK x : x = w
    OBVIOUS
  <2>3. /\ x \in TxnState /\ SameRecords(t, x) /\ x.primary = t.primary /\ x.fts = t.fts
        /\ x.ttl = t.ttl /\ x.beat = t.beat /\ x.lockedCnt = t.lockedCnt /\ x.bg = t.bg
        /\ x.agg = b
    BY <1>5, <2>1, <2>2 DEF TxnState, SameRecords
  <2>4. Filtered(t, k, mode, assigned) = IF off THEN reset(x) ELSE x
    BY <1>5, <2>2, <2>3 DEF Filtered, resetTTLManagerForAggressiveLockingMode, w, skip, SameAttempt
  <2>5. PICK u : u = Filtered(t, k, mode, assigned)
    OBVIOUS
  <2>6. /\ u \in TxnState /\ SameRecords(x, u) /\ u.primary = x.primary /\ u.fts = x.fts
        /\ u.lockedCnt = x.lockedCnt /\ u.bg = x.bg /\ u.agg = b
        /\ u.ttl = (IF off THEN NoKey ELSE x.ttl)
    BY <1>1, <2>3, <2>4, <2>5, ResetFacts DEF SameRecords
  <2>7. u.beat = (IF off THEN "none" ELSE x.beat)
    <3>1. x.beat \in {"none", "beats", "over"}
      BY <2>3, TxnFacts
    <3> HIDE DEF off
    <3>2. reset(x).beat = "none"
      BY <2>3, ResetFacts
    <3> QED BY <1>1, <2>4, <2>5, <3>1, <3>2
  <2>8. SameRecords(t, u)
    BY <2>3, <2>6 DEF SameRecords
  <2>9. u.beat = (IF off THEN "none" ELSE t.beat)
    BY <2>3, <2>7
  <2> HIDE DEF off
  <2> QED BY <1>3, <1>4, <1>5, <2>3, <2>5, <2>6, <2>8, <2>9 DEF off, skip, FilterResult
<1>7. CASE k \notin DOMAIN a.last
  <2>1. w = t /\ ~skip
    BY <1>2, <1>7 DEF filterAggressiveLockedKeys
  <2>2. Filtered(t, k, mode, assigned) = IF off THEN reset(t) ELSE t
    BY <2>1 DEF Filtered, resetTTLManagerForAggressiveLockingMode, skip
  <2>3. PICK u : u = Filtered(t, k, mode, assigned)
    OBVIOUS
  <2>4. /\ u \in TxnState /\ SameRecords(t, u) /\ u.primary = t.primary /\ u.fts = t.fts
        /\ u.lockedCnt = t.lockedCnt /\ u.bg = t.bg /\ u.agg = t.agg
        /\ u.ttl = (IF off THEN NoKey ELSE t.ttl)
    <3> HIDE DEF off
    <3> QED BY <1>1, <2>2, <2>3, ResetFacts DEF SameRecords
  <2>5. u.beat = (IF off THEN "none" ELSE t.beat)
    <3>1. t.beat \in {"none", "beats", "over"}
      BY TxnFacts
    <3> QED BY <1>1, <2>2, <2>3, <3>1, ResetFacts
  <2>6. SameAttempt(t.agg, u.agg)
    BY <2>4 DEF SameAttempt
  <2> HIDE DEF off
  <2> QED BY <1>7, <2>1, <2>3, <2>4, <2>5, <2>6 DEF off, skip, FilterResult
<1> QED BY <1>6, <1>7

Exited(l, v, n, s, cs, t, keysInput, u) ==
    /\ Quiet(l, v, n, u) /\ Fresh(l, n, s, cs, u, NoCall)
    /\ HeldBy(u) = HeldBy(t) /\ DOMAIN u.agg.last \subseteq DOMAIN t.agg.last
    /\ u.agg.on => ~(Cardinality(keysInput) > 1) /\ u = t

LEMMA ExitQuiet ==
    ASSUME NEW l, NEW v, NEW n \in Nat, NEW t, NEW s \in Nat, NEW cs, NEW keysInput,
           Quiet(l, v, n, t), Fresh(l, n, s, cs, t, NoCall),
           t.agg.on /\ Cardinality(keysInput) > 1 => cs = "none"
    PROVE  Exited(l, v, n, s, cs, t, keysInput, exitAggressiveLockingIfInapplicable(t, keysInput))
<1>1. t \in TxnState
  BY TxnType DEF Quiet, Tidy
<1>2. CASE ~(t.agg.on /\ Cardinality(keysInput) > 1)
  BY <1>2 DEF exitAggressiveLockingIfInapplicable, Exited
<1>3. CASE t.agg.on /\ Cardinality(keysInput) > 1
  <2>1. PICK u \in TxnState :
          /\ u = doneAggressiveLocking(t)
          /\ u.primary = t.primary /\ u.fts = t.fts /\ u.agg = NoAgg
          /\ u.flags = t.flags \cup DOMAIN t.agg.cur
          /\ Adds(t, u, DOMAIN t.agg.last, MaxOf(t.fts, t.agg.maxLWC))
    BY <1>1, DoneFacts
  <2>2. /\ ~u.agg.on /\ DOMAIN u.agg.last = {} /\ DOMAIN u.agg.cur = {} /\ u.agg.maxLWC = 0
        /\ ~u.agg.assigned /\ HeldBy(u) = HeldBy(t)
    BY <2>1, AggFacts DEF HeldBy
  <2>3. t.fts < s /\ t.agg.maxLWC < s /\ \A r \in t.bg : r.fts < s
    BY <1>3 DEF Fresh
  <2>4. MaxOf(t.fts, t.agg.maxLWC) < s
    BY <1>1, <2>3, TxnFacts, MaxFacts
  <2>5. \A r \in u.bg : r.fts < s
    BY <2>1, <2>3, <2>4 DEF Adds
  <2>6. Fresh(l, n, s, cs, u, NoCall)
    BY <1>1, <1>3, <2>1, <2>2, <2>3, <2>5, TxnFacts DEF Fresh
  <2>7. Quiet(l, v, n, u)
    BY <1>3, <2>1, DoneQuiet
  <2>8. exitAggressiveLockingIfInapplicable(t, keysInput) = u
    BY <1>3, <2>1 DEF exitAggressiveLockingIfInapplicable
  <2> QED BY <2>2, <2>6, <2>7, <2>8 DEF Exited
<1> QED BY <1>2, <1>3

(* While a call is in progress.                                            *)
Busy(l, v, n, s, t, c) ==
    /\ Tidy(t) /\ Bounded(l, v, n, t) /\ PrimaryKnown(t) /\ HeldKept(l, t)
    /\ RecordsRight(l, t) /\ LastKept(l, t) /\ NothingKept(l, t) /\ AbsentKnown(l, v, t)
    /\ Fresh(l, n, s, "some", t, c) /\ Accounted(l, t, c)
    /\ Assigns(l, t, c) /\ CallKnown(l, v, n, s, t, c)

NewCall(keys, mode, assigned) ==
    [keys |-> keys, todo |-> keys, mode |-> mode, assigned |-> assigned, err |-> "nil",
     lwc |-> <<>>, absent |-> {}, waiting |-> FALSE]

NewlyCalled(c, keys, mode, assigned) ==
    /\ c \in CallState /\ c # NoCall /\ c.keys = keys /\ c.todo = keys /\ c.mode = mode
    /\ (c.assigned <=> assigned) /\ c.err = "nil"

LEMMA NewCallFacts ==
    ASSUME NEW keys \in SUBSET Keys, keys # {}, NEW mode \in AllModes, NEW assigned \in BOOLEAN
    PROVE  NewlyCalled(NewCall(keys, mode, assigned), keys, mode, assigned)
<1> DEFINE c == NewCall(keys, mode, assigned)
<1>1. /\ c.keys = keys /\ c.todo = keys /\ c.mode = mode
      /\ (c.assigned <=> assigned) /\ c.err = "nil"
  BY DEF NewCall
<1>2. c \in CallState
  <2>1. PICK e \in TSMaps : e = <<>>
    BY EmptyMap
  <2>2. c = [keys |-> keys, todo |-> keys, mode |-> mode, assigned |-> assigned,
             err |-> "nil", lwc |-> e, absent |-> {}, waiting |-> FALSE]
    BY <2>1 DEF NewCall
  <2> HIDE DEF c
  <2>3. keys \in (SUBSET Keys) \ {{}} /\ {} \in SUBSET Keys
    OBVIOUS
  <2> QED BY <2>2, <2>3 DEF CallState
<1>3. c # NoCall
  BY <1>1 DEF NoCall
<1> QED BY <1>1, <1>2, <1>3 DEF NewlyCalled

LEMMA NewCallEmpty ==
    ASSUME NEW keys, NEW mode, NEW assigned
    PROVE  LET c == NewCall(keys, mode, assigned) IN
           DOMAIN c.lwc = {} /\ c.absent = {} /\ ~c.waiting
  BY EmptyMap DEF NewCall

(* What a higher ForUpdateTS leaves true.                                  *)
LEMMA MaxGrows ==
    ASSUME NEW a \in Nat, NEW b \in Nat, NEW c \in Nat, NEW d \in Nat, a <= b, c <= d,
           NEW x \in Nat, x <= MaxOf(a, c)
    PROVE  x <= MaxOf(b, d)
  BY DEF MaxOf

(* A key that is not held has no lock of this attempt.                     *)
LEMMA OlderLock ==
    ASSUME NEW l, NEW v, NEW n \in Nat, NEW t, NEW s \in Nat, NEW cs,
           Quiet(l, v, n, t), Fresh(l, n, s, cs, t, NoCall), cs # "failed",
           NEW k \in Keys, k \notin HeldBy(t), l[k] # NoLock
    PROVE  l[k].fts < s
<1>1. l[k].fts \in Nat
  BY LockFacts DEF Quiet
<1> QED BY <1>1 DEF Fresh

Started(l, v, n, s, t, u, c) == Busy(l, v, n, s, u, c) /\ HeldBy(u) = HeldBy(t)

LEMMA PlainCallStarts ==
    ASSUME NEW l, NEW v, NEW n \in Nat, NEW t, NEW s \in Nat, NEW cs,
           Quiet(l, v, n, t), Fresh(l, n, s, cs, t, NoCall), cs # "failed", ~t.agg.on,
           NEW keys \in SUBSET Keys, keys # {}, keys \cap HeldBy(t) = {}, NEW mode \in AllModes,
           mode = "ifExists" /\ t.primary = NoKey => \E k \in Keys : keys = {k},
           NEW as \in BOOLEAN, as <=> t.primary = NoKey
    PROVE  Started(l, v, n, s, t, Chosen(t, keys, s), NewCall(keys, mode, as))
<1>1. t \in TxnState
  BY TxnType DEF Quiet, Tidy
<1>2. PICK u \in TxnState :
        /\ u = Chosen(t, keys, s) /\ SameRecords(t, u) /\ u.fts = s
        /\ u.ttl = t.ttl /\ u.beat = t.beat /\ u.lockedCnt = t.lockedCnt /\ u.bg = t.bg
        /\ u.primary \in Keys
        /\ t.primary = NoKey => u.primary \in keys
        /\ t.primary # NoKey => u.primary = t.primary
        /\ u.agg = t.agg
  BY <1>1, ChosenFacts
<1>0. PICK c : c = NewCall(keys, mode, as)
  OBVIOUS
<1>3. /\ c \in CallState
        /\ c # NoCall /\ c.keys = keys /\ c.todo = keys /\ c.mode = mode
        /\ (c.assigned <=> as) /\ c.err = "nil" /\ DOMAIN c.lwc = {}
        /\ c.absent = {} /\ ~c.waiting
  <2>1. NewlyCalled(c, keys, mode, as)
    BY <1>0, NewCallFacts
  <2>2. DOMAIN c.lwc = {} /\ c.absent = {} /\ ~c.waiting
    BY <1>0, NewCallEmpty
  <2> QED BY <2>1, <2>2 DEF NewlyCalled
<1>4. /\ u.flags = t.flags /\ u.checks = t.checks /\ u.maxLWC = t.maxLWC
      /\ u.notExist = t.notExist
      /\ HeldBy(u) = HeldBy(t) /\ Recorded(u) = Recorded(t) /\ Recorded(t) = HeldBy(t)
      /\ DOMAIN t.agg.last = {} /\ DOMAIN t.agg.cur = {}
  BY <1>2 DEF Quiet, Tidy, HeldBy, Recorded, SameRecords
<1>5. t.primary = NoKey => HeldBy(t) = {} /\ t.ttl = NoKey
  <2>1. HeldBy(t) \in SUBSET Keys
    BY <1>1, TxnFacts DEF HeldBy
  <2> QED BY <2>1, KeyFacts DEF Quiet, HeldKept, NothingKept
<1>6. s <= n /\ t.fts <= s /\ \A r \in t.bg : r.fts < s
  BY DEF Fresh
<1>7. Tidy(u)
  BY <1>2, <1>4, TxnType DEF Quiet, Tidy
<1>8. Bounded(l, v, n, u)
  BY <1>2, <1>4, <1>6 DEF Quiet, Bounded
<1>9. \A k : /\ Safe(l, u, k) <=> Safe(l, t, k)
             /\ Covered(l, u, k) <=> Covered(l, t, k)
  BY <1>2 DEF Safe, Covered
<1>10. PrimaryKnown(u) /\ LastKept(l, u) /\ NothingKept(l, u)
  BY <1>2, <1>4, KeyFacts DEF PrimaryKnown, LastKept, NothingKept
<1>11. HeldKept(l, u) /\ AbsentKnown(l, v, u)
  BY <1>2, <1>4, <1>5, <1>9 DEF Quiet, HeldKept, Kept, AbsentKnown
<1>12. RecordsRight(l, u)
  <2>1. ASSUME NEW k \in t.flags PROVE l[k].fts <= MaxOf(u.fts, u.maxLWC)
    <3>1. l[k].fts \in Nat
      BY <1>1, TxnFacts, LockFacts DEF Quiet
    <3>2. l[k].fts <= MaxOf(t.fts, t.maxLWC)
      BY DEF Quiet, RecordsRight
    <3> QED BY <1>1, <1>2, <1>4, <1>6, <3>1, <3>2, TxnFacts, MaxGrows
  <2> QED BY <1>2, <1>4, <2>1 DEF Quiet, RecordsRight
<1>13. Fresh(l, n, s, "some", u, c)
  <2>1. \A k \in Keys : l[k] # NoLock /\ l[k].fts >= s => k \in HeldBy(u)
    BY <1>4 DEF Fresh
  <2> QED BY <1>2, <1>3, <1>4, <1>6, <2>1, KeyFacts DEF Fresh
<1>14. Accounted(l, u, c)
  BY <1>3, <1>4, <1>9 DEF Quiet, Accounted, NoCall
<1>15. Assigns(l, u, c)
  <2>1. CASE as
    BY <1>2, <1>3, <1>4, <1>5, <2>1, KeyFacts DEF Assigns
  <2>2. CASE ~as
    BY <1>2, <1>3, <1>4, <2>2, KeyFacts DEF Assigns, Quiet
  <2> QED BY <2>1, <2>2
<1>16. CallKnown(l, v, n, s, u, c)
  <2>1. ASSUME NEW k \in keys
        PROVE  /\ l[k] # NoLock => l[k].fts <= MaxOf(u.fts, lwcOf(c, k))
               /\ Covered(l, u, k)
    <3>1. k \notin HeldBy(t) /\ l[k].fts \in Nat
      BY LockFacts DEF Quiet
    <3>2. Covered(l, u, k)
      BY <1>4, <1>9, <3>1 DEF Quiet, Accounted, NoCall
    <3>3. l[k] # NoLock => l[k].fts < s
      BY <3>1, OlderLock
    <3> QED BY <1>2, <1>3, <3>1, <3>2, <3>3 DEF lwcOf, MaxOf
  <2> QED BY <1>2, <1>3, <1>4, <2>1 DEF CallKnown
<1> QED BY <1>0, <1>2, <1>3, <1>4, <1>7, <1>8, <1>10, <1>11, <1>12, <1>13, <1>14, <1>15, <1>16 DEF Busy, Started

(* A lock of the last attempt is taken over, or asked for again.           *)
Resumed(l, v, n, s, t, k, mode, w, u, c) ==
    /\ skips(w, k, mode) => /\ Quiet(l, v, n, u) /\ Fresh(l, n, s, "some", u, NoCall)
                            /\ HeldBy(u) = HeldBy(t) \cup {k} /\ k \in DOMAIN t.agg.last
    /\ ~skips(w, k, mode) => Busy(l, v, n, s, u, c) /\ HeldBy(u) = HeldBy(t)

LEMMA AggressiveCallStarts ==
    ASSUME NEW l, NEW v, NEW n \in Nat, NEW t, NEW s \in Nat, NEW cs,
           Quiet(l, v, n, t), Fresh(l, n, s, cs, t, NoCall), cs # "failed", t.agg.on,
           NEW k \in Keys, k \notin HeldBy(t), NEW mode \in AllModes,
           mode = "insert" /\ k \in DOMAIN t.agg.last /\ l[k] # NoLock => v[k] = 0,
           mode = "ifExists" => DOMAIN t.agg.last = {},
           NEW as \in BOOLEAN, as <=> t.primary = NoKey
    PROVE  LET w == Chosen(t, {k}, s)
           IN  Resumed(l, v, n, s, t, k, mode, w, Filtered(w, k, mode, as), NewCall({k}, mode, as))
<1>1. t \in TxnState
  BY TxnType DEF Quiet, Tidy
<1>2. PICK w \in TxnState :
        /\ w = Chosen(t, {k}, s) /\ SameRecords(t, w) /\ w.fts = s
        /\ w.ttl = t.ttl /\ w.beat = t.beat /\ w.lockedCnt = t.lockedCnt /\ w.bg = t.bg
        /\ w.primary \in Keys
        /\ t.primary = NoKey => w.primary \in {k}
        /\ t.primary # NoKey => w.primary = t.primary
        /\ SameAttempt(t.agg, w.agg) /\ w.agg.last = t.agg.last /\ w.agg.cur = t.agg.cur
        /\ t.agg.on /\ t.primary = NoKey => w.agg.assigned /\ w.agg.primary = w.primary
        /\ ~(t.agg.on /\ t.primary = NoKey) => w.agg = t.agg
  <2>1. {k} \in SUBSET Keys /\ {k} # {}
    OBVIOUS
  <2> QED BY <1>1, <2>1, ChosenFacts
<1> DEFINE skip == skips(w, k, mode)
           off == ~skip /\ as /\ w.agg.primary # w.agg.lastPrimary
<1>a. w.agg.on /\ k \notin DOMAIN w.agg.cur
  BY <1>2 DEF SameAttempt, HeldBy
<1>b. PICK u : u = Filtered(w, k, mode, as)
  OBVIOUS
<1>f. FilterResult(w, u, k, mode, as)
  BY <1>a, <1>b, FilteredFacts
<1>3. /\ u \in TxnState
      /\ SameRecords(w, u) /\ u.primary = w.primary /\ u.fts = w.fts
      /\ u.lockedCnt = w.lockedCnt /\ u.bg = w.bg
      /\ SameAttempt(w.agg, u.agg) /\ u.agg.primary = w.agg.primary
      /\ DOMAIN u.agg.last = DOMAIN w.agg.last \ {k}
      /\ \A j \in DOMAIN u.agg.last : u.agg.last[j] = w.agg.last[j]
  BY <1>f DEF FilterResult
<1>c. /\ ~skip => u.agg.cur = w.agg.cur
      /\ skip => /\ DOMAIN u.agg.cur = DOMAIN w.agg.cur \cup {k}
                 /\ u.agg.cur[k].fts = w.agg.last[k].fts /\ u.agg.cur[k].exists
                 /\ \A j \in DOMAIN w.agg.cur : u.agg.cur[j] = w.agg.cur[j]
  BY <1>f DEF FilterResult
<1>d. (off => u.ttl = NoKey /\ u.beat = "none") /\ (~off => u.ttl = w.ttl) /\ (~off => u.beat = w.beat)
  BY <1>f DEF FilterResult
<1>e. u.agg.assigned <=> w.agg.assigned
  BY <1>f DEF FilterResult
<1>4. /\ u.flags = t.flags /\ u.checks = t.checks /\ u.maxLWC = t.maxLWC
      /\ u.notExist = t.notExist
      /\ u.fts = s /\ u.primary = w.primary /\ u.primary \in Keys /\ u.primary # NoKey
      /\ u.lockedCnt = t.lockedCnt /\ u.bg = t.bg
      /\ u.agg.on /\ u.agg.lastPrimary = t.agg.lastPrimary
      /\ (u.agg.lastAssigned <=> t.agg.lastAssigned) /\ u.agg.maxLWC = t.agg.maxLWC
      /\ (u.agg.lastOld <=> t.agg.lastOld)
      /\ DOMAIN u.agg.last = DOMAIN t.agg.last \ {k}
  BY <1>2, <1>3, KeyFacts DEF SameRecords, SameAttempt
<1>5. /\ as => u.primary = k /\ u.agg.assigned /\ u.agg.primary = k
      /\ ~as => /\ u.primary = t.primary /\ (u.agg.assigned <=> t.agg.assigned)
                /\ u.agg.primary = t.agg.primary
  BY <1>2, <1>3, <1>e
<1>6. \A j \in DOMAIN u.agg.last : u.agg.last[j] = t.agg.last[j]
  BY <1>2, <1>3
<1>7. /\ HeldBy(t) \in SUBSET Keys /\ Recorded(t) \in SUBSET Keys
      /\ as => HeldBy(t) = {} /\ t.flags = {} /\ DOMAIN t.agg.cur = {}
      /\ ~as => HeldBy(t) # {}
  <2>1. HeldBy(t) \in SUBSET Keys /\ Recorded(t) \in SUBSET Keys
    BY <1>1, TxnFacts DEF HeldBy, Recorded
  <2>2. as => HeldBy(t) = {}
    BY <2>1, KeyFacts DEF Quiet, HeldKept
  <2> QED BY <2>1, <2>2 DEF HeldBy, Quiet
<1>8. s <= n /\ t.fts <= s /\ \A r \in t.bg : r.fts < s
  BY DEF Fresh
<1>9. \A j : /\ Safe(l, u, j) <=> Safe(l, t, j)
             /\ Covered(l, u, j) <=> Covered(l, t, j)
  BY <1>4 DEF Safe, Covered
<1>10. Bounded(l, v, n, u)
  BY <1>4, <1>8 DEF Quiet, Bounded
<1>11. \A j \in Keys : /\ l[j].fts \in Nat
                       /\ l[j].fts <= MaxOf(t.fts, t.maxLWC) => l[j].fts <= MaxOf(s, t.maxLWC)
                       /\ l[j].fts <= MaxOf(t.fts, t.agg.maxLWC) => l[j].fts <= MaxOf(s, t.agg.maxLWC)
  <2> SUFFICES ASSUME NEW j \in Keys
               PROVE  /\ l[j].fts \in Nat
                      /\ l[j].fts <= MaxOf(t.fts, t.maxLWC) => l[j].fts <= MaxOf(s, t.maxLWC)
                      /\ l[j].fts <= MaxOf(t.fts, t.agg.maxLWC) => l[j].fts <= MaxOf(s, t.agg.maxLWC)
    OBVIOUS
  <2>1. l[j].fts \in Nat
    BY LockFacts DEF Quiet
  <2> QED BY <1>1, <1>8, <2>1, TxnFacts DEF MaxOf
<1>12. as /\ DOMAIN t.agg.last # {} =>
          /\ ~t.agg.assigned /\ t.agg.lastPrimary # NoKey
          /\ KeptAlive(l, t, t.agg.lastPrimary)
  <2> SUFFICES ASSUME as, DOMAIN t.agg.last # {}
               PROVE  /\ ~t.agg.assigned /\ t.agg.lastPrimary # NoKey
                      /\ KeptAlive(l, t, t.agg.lastPrimary)
    OBVIOUS
  <2>1. ~t.agg.assigned
    BY DEF Fresh
  <2>2. t.agg.lastPrimary \in DOMAIN t.agg.last /\ KeptAlive(l, t, t.agg.lastPrimary)
    BY <2>1 DEF Quiet, NothingKept
  <2> QED BY <1>1, <2>1, <2>2, TxnFacts, KeyFacts
<1>13. LastKept(l, u)
  <2> SUFFICES ASSUME NEW j \in DOMAIN u.agg.last
               PROVE  /\ Safe(l, u, j)
                      /\ l[j] # NoLock => /\ l[j].fts = u.agg.last[j].fts
                                          /\ l[j].fts <= MaxOf(u.fts, u.agg.maxLWC)
                      /\ ~u.agg.lastOld /\ Claimable(u) =>
                            Kept(l, u, j, IF u.agg.lastPrimary # NoKey
                                          THEN u.agg.lastPrimary ELSE u.primary)
    BY DEF LastKept
  <2>1. j \in DOMAIN t.agg.last /\ j \in Keys
    BY <1>1, <1>4, TxnFacts
  <2>2. /\ Safe(l, t, j)
        /\ l[j] # NoLock => /\ l[j].fts = t.agg.last[j].fts
                            /\ l[j].fts <= MaxOf(t.fts, t.agg.maxLWC)
        /\ ~t.agg.lastOld /\ Claimable(t) =>
              Kept(l, t, j, IF t.agg.lastPrimary # NoKey THEN t.agg.lastPrimary ELSE t.primary)
    BY <2>1 DEF Quiet, LastKept
  <2>3. as => t.agg.lastPrimary # NoKey /\ ~t.agg.assigned
    BY <1>12, <2>1
  <2>4. off => ~Claimable(u)
    BY <1>2, <1>3, <1>4, <1>5 DEF Claimable, SameAttempt
  <2>5. Claimable(u) => Claimable(t) /\ u.beat = t.beat
    BY <1>2, <1>4, <1>5, <1>d, <2>3, <2>4 DEF Claimable
  <2>6. ~u.agg.lastOld /\ Claimable(u) =>
           Kept(l, u, j, IF u.agg.lastPrimary # NoKey THEN u.agg.lastPrimary ELSE u.primary)
    BY <1>4, <1>5, <2>2, <2>3, <2>5 DEF Kept
  <2> QED BY <1>4, <1>6, <1>9, <1>11, <2>1, <2>2, <2>6
<1>14. PrimaryKnown(u)
  <2>1. CASE as
    BY <1>1, <1>4, <1>5, <1>7, <1>12, <2>1, KeyFacts DEF Quiet, PrimaryKnown
  <2>2. CASE ~as
    BY <1>4, <1>5, <2>2 DEF Quiet, PrimaryKnown
  <2> QED BY <2>1, <2>2
<1>15. NothingKept(l, u)
  BY <1>4 DEF NothingKept
<1>g. AbsentKnown(l, v, u)
  <2>1. \A j : Missing(u.agg.last, j) => Missing(t.agg.last, j)
    BY <1>4, <1>6 DEF Missing
  <2>2. ASSUME NEW j, Missing(u.agg.cur, j) PROVE Missing(t.agg.cur, j)
    <3>1. CASE skip
      <4>1. j # k /\ j \in DOMAIN t.agg.cur
        BY <1>2, <1>c, <2>2, <3>1 DEF Missing
      <4>2. u.agg.cur[j] = t.agg.cur[j]
        BY <1>2, <1>c, <3>1, <4>1
      <4> QED BY <2>2, <4>1, <4>2 DEF Missing
    <3>2. CASE ~skip
      BY <1>2, <1>c, <2>2, <3>2
    <3> QED BY <3>1, <3>2
  <2> QED BY <1>4, <2>1, <2>2 DEF Quiet, AbsentKnown
<1>16. ASSUME skip
       PROVE  /\ Quiet(l, v, n, u) /\ Fresh(l, n, s, "some", u, NoCall)
              /\ HeldBy(u) = HeldBy(t) \cup {k} /\ k \in DOMAIN t.agg.last
  <2>1. /\ k \in DOMAIN t.agg.last /\ ~t.agg.lastOld
        /\ u.agg.assigned => u.agg.lastPrimary = u.agg.primary
    BY <1>2, <1>3, <1>e, <1>16 DEF skips, canTrySkip, SameAttempt
  <2>2. /\ DOMAIN u.agg.cur = DOMAIN t.agg.cur \cup {k} /\ u.agg.cur[k].fts = t.agg.last[k].fts
        /\ \A j \in DOMAIN t.agg.cur : u.agg.cur[j] = t.agg.cur[j]
        /\ u.ttl = t.ttl
    BY <1>2, <1>c, <1>d, <1>16
  <2>3. u.beat = t.beat
    BY <1>2, <1>d, <1>16
  <2>4. HeldBy(u) = HeldBy(t) \cup {k} /\ Recorded(u) = Recorded(t)
    BY <1>4, <2>1, <2>2 DEF HeldBy, Recorded
  <2>14. Claimable(t)
    <3>1. CASE as
      BY <1>12, <2>1, <3>1 DEF Claimable
    <3>2. CASE ~as
      BY <1>4, <1>5, <2>1, <3>2 DEF Claimable, Quiet, PrimaryKnown
    <3> QED BY <3>1, <3>2
  <2>5. /\ Safe(l, t, k) /\ (l[k] # NoLock => l[k].fts = t.agg.last[k].fts)
        /\ l[k].fts <= MaxOf(t.fts, t.agg.maxLWC)
        /\ Kept(l, t, k, IF t.agg.lastPrimary # NoKey THEN t.agg.lastPrimary ELSE t.primary)
    <3>1. l[k] = NoLock => l[k].fts <= MaxOf(t.fts, t.agg.maxLWC)
      BY <1>1, TxnFacts, NoLockTS DEF MaxOf
    <3> QED BY <2>1, <2>14, <3>1 DEF Quiet, LastKept
  <2>6. Kept(l, u, k, u.primary)
    <3>0. Kept(l, t, k, u.primary)
      <4>1. CASE as
        BY <1>4, <1>5, <1>12, <2>1, <2>5, <4>1
      <4>2. CASE ~as /\ t.agg.assigned
        BY <1>4, <1>5, <2>1, <2>5, <4>2 DEF Quiet, PrimaryKnown
      <4>3. CASE ~as /\ ~t.agg.assigned
        BY <1>4, <1>5, <2>5, <4>3 DEF Quiet, PrimaryKnown
      <4> QED BY <4>1, <4>2, <4>3
    <3> QED BY <2>3, <3>0 DEF Kept
  <2>7. u.primary \in HeldBy(u) /\ u.ttl = u.primary /\ u.beat # "none"
    <3>1. CASE as
      BY <1>4, <1>5, <1>12, <2>1, <2>2, <2>3, <2>4, <3>1 DEF KeptAlive
    <3>2. CASE ~as
      BY <1>5, <1>7, <2>2, <2>3, <2>4, <3>2 DEF Quiet, HeldKept
    <3> QED BY <3>1, <3>2
  <2>8. HeldKept(l, u)
    <3> SUFFICES ASSUME NEW j \in HeldBy(u)
                 PROVE  Kept(l, u, j, u.primary) /\ Safe(l, u, j)
      BY <2>7 DEF HeldKept
    <3>1. CASE j = k
      BY <1>9, <2>5, <2>6, <3>1
    <3>2. CASE j \in HeldBy(t)
      BY <1>5, <1>7, <1>9, <2>3, <3>2 DEF Quiet, HeldKept, Kept
    <3> QED BY <2>4, <3>1, <3>2
  <2>9. RecordsRight(l, u)
    <3>1. \A j \in DOMAIN u.checks : l[j] # NoLock => l[j].fts = u.checks[j]
      BY <1>4 DEF Quiet, RecordsRight
    <3>2. \A j \in u.flags : l[j].fts <= MaxOf(u.fts, u.maxLWC)
      BY <1>1, <1>4, <1>11, TxnFacts DEF Quiet, RecordsRight
    <3>3. ASSUME NEW j \in DOMAIN u.agg.cur
          PROVE  /\ l[j] # NoLock => l[j].fts = u.agg.cur[j].fts
                 /\ l[j].fts <= MaxOf(u.fts, u.agg.maxLWC)
      <4>1. CASE j = k
        BY <1>4, <1>11, <2>2, <2>5, <4>1
      <4>2. CASE j \in DOMAIN t.agg.cur
        BY <1>1, <1>4, <1>11, <2>2, <4>2, TxnFacts DEF Quiet, RecordsRight
      <4> QED BY <2>2, <4>1, <4>2
    <3> QED BY <3>1, <3>2, <3>3 DEF RecordsRight
  <2>10. Tidy(u)
    BY <1>3, <1>4, <2>1, <2>2, <2>3, <2>4, TxnType DEF Quiet, Tidy, HeldBy
  <2>11. Accounted(l, u, NoCall)
    BY <1>9, <2>4 DEF Quiet, Accounted
  <2>12. Fresh(l, n, s, "some", u, NoCall)
    <3>1. \A j \in Keys : l[j] # NoLock /\ l[j].fts >= s => j \in HeldBy(u)
      BY <2>4 DEF Fresh
    <3> QED BY <1>4, <1>8, <3>1 DEF Fresh
  <2>13. u.primary # NoKey => HeldBy(u) # {}
    BY <2>4
  <2> QED BY <1>10, <1>13, <1>14, <1>15, <1>g, <2>1, <2>4, <2>8, <2>9, <2>10, <2>11, <2>12, <2>13 DEF Quiet
<1>17. ASSUME ~skip
       PROVE  Busy(l, v, n, s, u, NewCall({k}, mode, as)) /\ HeldBy(u) = HeldBy(t)
  <2>1. u.agg.cur = t.agg.cur
    BY <1>2, <1>c, <1>17
  <2>2. HeldBy(u) = HeldBy(t) /\ Recorded(u) \subseteq Recorded(t) /\ k \notin Recorded(u)
        /\ \A j \in Recorded(t) : j = k \/ j \in Recorded(u)
    BY <1>4, <2>1 DEF HeldBy, Recorded
  <2>3. ~as => u.ttl = t.ttl /\ u.beat = t.beat
    BY <1>2, <1>d
  <2>4. as => u.ttl = IF t.agg.lastPrimary # k THEN NoKey ELSE t.ttl
    BY <1>2, <1>3, <1>4, <1>5, <1>17, <1>d DEF SameAttempt
  <2>5. as /\ t.agg.lastPrimary = k => u.beat = t.beat
    BY <1>2, <1>3, <1>4, <1>5, <1>17, <1>d DEF SameAttempt
  <2>6. Tidy(u)
    <3>1. Cardinality(Recorded(u)) <= Cardinality(Recorded(t))
      BY <1>7, <2>2, Fewer
    <3>2. Recorded(u) \in SUBSET Keys
      BY <1>7, <2>2
    <3>3. u.lockedCnt >= Cardinality(Recorded(u))
      BY <1>1, <1>4, <1>7, <3>1, <3>2, SetFacts, TxnFacts DEF Quiet, Tidy
    <3>4. u.beat # "none" => u.ttl # NoKey
      BY <1>2, <1>d DEF Quiet, Tidy
    <3> QED BY <1>3, <1>4, <2>1, <2>2, <3>3, <3>4, TxnType DEF Quiet, Tidy, HeldBy
  <2>7. HeldKept(l, u)
    <3>1. CASE as
      BY <1>7, <2>2, <3>1 DEF HeldKept
    <3>2. CASE ~as
      BY <1>5, <1>9, <2>2, <2>3, <3>2 DEF Quiet, HeldKept, Kept
    <3> QED BY <3>1, <3>2
  <2>8. RecordsRight(l, u)
    <3>1. \A j \in DOMAIN u.checks : l[j] # NoLock => l[j].fts = u.checks[j]
      BY <1>4 DEF Quiet, RecordsRight
    <3>2. \A j \in u.flags : l[j].fts <= MaxOf(u.fts, u.maxLWC)
      BY <1>1, <1>4, <1>11, TxnFacts DEF Quiet, RecordsRight
    <3>3. \A j \in DOMAIN u.agg.cur :
             /\ l[j] # NoLock => l[j].fts = u.agg.cur[j].fts
             /\ l[j].fts <= MaxOf(u.fts, u.agg.maxLWC)
      BY <1>1, <1>4, <1>11, <2>1, TxnFacts DEF Quiet, RecordsRight
    <3> QED BY <3>1, <3>2, <3>3 DEF RecordsRight
  <2>9. PICK c : c = NewCall({k}, mode, as)
    OBVIOUS
  <2>10. /\ c \in CallState /\ c # NoCall /\ c.keys = {k} /\ c.todo = {k} /\ c.mode = mode
         /\ (c.assigned <=> as) /\ c.err = "nil" /\ DOMAIN c.lwc = {} /\ c.absent = {}
         /\ ~c.waiting
    <3>1. PICK keys \in SUBSET Keys : keys = {k} /\ keys # {}
      OBVIOUS
    <3>2. c = NewCall(keys, mode, as)
      BY <2>9, <3>1
    <3>3. NewlyCalled(c, keys, mode, as)
      BY <3>1, <3>2, NewCallFacts
    <3>4. DOMAIN c.lwc = {} /\ c.absent = {} /\ ~c.waiting
      BY <3>2, NewCallEmpty
    <3> QED BY <3>1, <3>3, <3>4 DEF NewlyCalled
  <2>11. Fresh(l, n, s, "some", u, c)
    <3>1. \A j \in Keys : l[j] # NoLock /\ l[j].fts >= s => j \in HeldBy(u)
      BY <2>2 DEF Fresh
    <3> QED BY <1>4, <1>8, <3>1 DEF Fresh
  <2>12. Accounted(l, u, c)
    BY <1>9, <2>2, <2>10 DEF Quiet, Accounted, NoCall
  <2>13. Assigns(l, u, c)
    <3>1. CASE as
      <4>1. u.ttl = NoKey \/ KeptAlive(l, u, k)
        <5>1. CASE t.agg.lastPrimary # k
          BY <2>4, <3>1, <5>1
        <5>2. CASE t.agg.lastPrimary = k /\ DOMAIN t.agg.last # {}
          BY <1>9, <1>12, <2>4, <2>5, <3>1, <5>2 DEF KeptAlive, Kept
        <5>3. CASE t.agg.lastPrimary = k /\ DOMAIN t.agg.last = {}
          <6>0. t.primary = NoKey /\ t.agg.lastPrimary # NoKey
            BY <3>1, <5>3, KeyFacts
          <6>1. t.ttl = NoKey
            BY <5>3, <6>0 DEF Quiet, NothingKept
          <6> QED BY <2>4, <3>1, <6>1
        <5> QED BY <5>1, <5>2, <5>3
      <4> QED BY <1>4, <1>5, <1>7, <2>2, <2>10, <3>1, <4>1 DEF Assigns
    <3>2. CASE ~as
      BY <1>4, <1>7, <2>2, <2>10, <3>2 DEF Assigns
    <3> QED BY <3>1, <3>2
  <2>14. CallKnown(l, v, n, s, u, c)
    <3>1. l[k] # NoLock => l[k].fts <= MaxOf(u.fts, lwcOf(c, k))
      <4>1. l[k] # NoLock => l[k].fts < s
        BY OlderLock
      <4> QED BY <1>4, <1>11, <2>10, <4>1 DEF lwcOf, MaxOf
    <3>2. Covered(l, u, k) \/ mode \in {"plain", "value"} \/ (mode = "insert" /\ v[k] = 0)
      <4>1. CASE k \in DOMAIN t.agg.last
        <5>1. l[k] = NoLock => Covered(l, u, k)
          BY DEF Covered
        <5> QED BY <4>1, <5>1 DEF AllModes
      <4>2. CASE k \notin DOMAIN t.agg.last
        BY <1>9, <4>2 DEF Quiet, Accounted, NoCall, Recorded
      <4> QED BY <4>1, <4>2
    <3>3. mode = "ifExists" => DOMAIN u.agg.last = {}
      BY <1>4
    <3> QED BY <1>4, <2>2, <2>10, <3>1, <3>2, <3>3 DEF CallKnown
  <2> QED BY <1>10, <1>13, <1>14, <1>15, <1>g, <2>2, <2>6, <2>7, <2>8, <2>9, <2>11, <2>12, <2>13, <2>14 DEF Busy
<1> QED BY <1>2, <1>b, <1>16, <1>17 DEF Resumed

-----------------------------------------------------------------------------
(* The requests.                                                           *)

(* At most the ttlManager differs.                                         *)
SameButTTL(t, u) ==
    /\ SameRecords(t, u) /\ u.primary = t.primary /\ u.fts = t.fts /\ u.lockedCnt = t.lockedCnt
    /\ u.agg = t.agg /\ u.bg = t.bg

LEMMA RunFacts ==
    ASSUME NEW t \in TxnState
    PROVE  LET u == run(t) IN
           /\ u \in TxnState /\ SameButTTL(t, u)
           /\ t.ttl = NoKey => u.ttl = t.primary /\ u.beat # "none"
           /\ t.ttl # NoKey => u = t
<1>1. CASE t.ttl # NoKey
  BY <1>1 DEF run, SameButTTL, SameRecords
<1>2. CASE t.ttl = NoKey
  <2>1. PICK u : u = [t EXCEPT !.ttl = t.primary, !.beat = "beats"]
    OBVIOUS
  <2>2. run(t) = u
    BY <1>2, <2>1 DEF run
  <2>3. u \in TxnState /\ SameButTTL(t, u) /\ u.ttl = t.primary
    BY <2>1, TxnFacts DEF TxnState, SameButTTL, SameRecords
  <2>4. u.beat = "beats"
    BY <2>1 DEF TxnState
  <2> QED BY <1>2, <2>2, <2>3, <2>4
<1> QED BY <1>1, <1>2

LEMMA CallFacts ==
    ASSUME NEW c \in CallState
    PROVE  /\ c.keys \in SUBSET Keys /\ c.keys # {} /\ c.todo \in SUBSET Keys /\ c.mode \in AllModes
           /\ c.assigned \in BOOLEAN /\ c.err \in {"nil", "refused", "failed", "deadlock"}
           /\ c.lwc \in TSMaps /\ c.absent \in SUBSET Keys /\ c.waiting \in BOOLEAN
           /\ c # NoCall
<1>1. /\ c.keys \in SUBSET Keys /\ c.keys # {} /\ c.todo \in SUBSET Keys /\ c.mode \in AllModes
      /\ c.assigned \in BOOLEAN /\ c.err \in {"nil", "refused", "failed", "deadlock"}
      /\ c.lwc \in TSMaps /\ c.absent \in SUBSET Keys /\ c.waiting \in BOOLEAN
  BY DEF CallState
<1>2. c # NoCall
  BY <1>1 DEF NoCall
<1> QED BY <1>1, <1>2

(* The key of a request is not recorded and has no lock of this attempt.   *)
Requestable(l, n, s, t, c, k) ==
    /\ k \in Keys /\ k \in c.keys /\ k \notin Recorded(t) /\ k \notin HeldBy(t)
    /\ k \notin t.flags /\ k \notin DOMAIN t.agg.cur /\ k \notin DOMAIN t.agg.last
    /\ t.fts = s /\ s <= n
    /\ l[k].fts \in Nat /\ (l[k] # NoLock => l[k].fts < s)

LEMMA RequestedKey ==
    ASSUME NEW l, NEW v, NEW n \in Nat, NEW s \in Nat, NEW t, NEW c \in CallState,
           Busy(l, v, n, s, t, c), ~c.waiting, NEW k \in c.todo
    PROVE  Requestable(l, n, s, t, c, k)
<1>1. k \in Keys /\ k \in c.keys /\ k \notin Recorded(t)
  BY CallFacts DEF Busy, CallKnown
<1>2. k \notin HeldBy(t) /\ k \notin t.flags /\ k \notin DOMAIN t.agg.cur
      /\ k \notin DOMAIN t.agg.last
  BY <1>1 DEF Recorded, HeldBy
<1>3. l[k].fts \in Nat
  BY <1>1, LockFacts DEF Busy
<1>4. l[k] # NoLock => l[k].fts < s
  BY <1>1, <1>2, <1>3 DEF Busy, Fresh
<1> QED BY <1>1, <1>2, <1>3, <1>4 DEF Busy, CallKnown, Fresh, Requestable

(* What one answer leaves true, whatever it does to the lock of its key.   *)
Carried(l, v, n, s, t, c) ==
    /\ Tidy(t) /\ Bounded(l, v, n, t) /\ PrimaryKnown(t) /\ HeldKept(l, t)
    /\ RecordsRight(l, t) /\ LastKept(l, t) /\ NothingKept(l, t) /\ AbsentKnown(l, v, t)
    /\ Fresh(l, n, s, "some", t, c) /\ Accounted(l, t, c)

AfterRequest(t, m, v, n, s, u, d) ==
    /\ u \in TxnState /\ SameButTTL(t, u) /\ HeldBy(u) = HeldBy(t)
    /\ t.beat = "over" => u.beat = "over"
    /\ Recorded(u) = Recorded(t) /\ Carried(m, v, n, s, u, d)

LEMMA RequestParts ==
    ASSUME NEW l, NEW v, NEW n \in Nat, NEW s \in Nat, NEW t, NEW c \in CallState,
           Busy(l, v, n, s, t, c), ~c.waiting, NEW k \in c.todo,
           NEW m \in [Keys -> [fts : 0..n, primary : KeyOrNone]],
           \A j \in Keys \ {k} : m[j] = l[j],
           NEW u, u = t \/ u = run(t),
           NEW d \in CallState, d.keys = c.keys, d.todo \subseteq c.todo, k \notin d.todo
    PROVE  AfterRequest(t, m, v, n, s, u, d)
<1>1. t \in TxnState
  BY TxnType DEF Busy, Tidy
<1>2. u \in TxnState /\ SameButTTL(t, u)
  <2>1. CASE u = t
    BY <1>1, <2>1 DEF SameButTTL, SameRecords
  <2>2. CASE u = run(t)
    BY <1>1, <2>2, RunFacts
  <2> QED BY <2>1, <2>2
<1>3. /\ u.flags = t.flags /\ u.checks = t.checks /\ u.maxLWC = t.maxLWC
      /\ u.primary = t.primary /\ u.fts = t.fts /\ u.lockedCnt = t.lockedCnt
      /\ u.agg = t.agg /\ u.bg = t.bg /\ u.notExist = t.notExist
  BY <1>2 DEF SameButTTL, SameRecords
<1>16. (t.beat = "over" => u.beat = "over") /\ (u.beat # "none" => u.ttl # NoKey)
  <2>1. /\ t.beat # "none" => t.ttl # NoKey
        /\ t.primary # NoKey
    BY DEF Busy, Tidy, Assigns
  <2>2. CASE t.ttl = NoKey
    <3>1. t.beat = "none"
      BY <2>1, <2>2
    <3>2. CASE u = t
      BY <3>1, <3>2
    <3>3. CASE u = run(t)
      BY <1>1, <2>1, <2>2, <3>1, <3>3, RunFacts
    <3> QED BY <3>2, <3>3
  <2>3. CASE t.ttl # NoKey
    <3>1. u = t
      BY <1>1, <2>3, RunFacts
    <3> QED BY <2>3, <3>1
  <2> QED BY <2>2, <2>3
<1>17. \A j \in Keys \ {k} : \A p : Kept(l, t, j, p) => Kept(m, u, j, p)
  BY <1>16 DEF Kept
<1>4. /\ HeldBy(u) = HeldBy(t) /\ Recorded(u) = Recorded(t)
      /\ HeldBy(t) \in SUBSET Keys /\ Recorded(t) \in SUBSET Keys
  BY <1>1, <1>3, TxnFacts DEF HeldBy, Recorded
<1>5. /\ k \in Keys /\ k \in c.keys /\ k \notin Recorded(t) /\ k \notin HeldBy(t)
      /\ k \notin t.flags /\ k \notin DOMAIN t.agg.cur /\ k \notin DOMAIN t.agg.last
      /\ t.fts = s /\ s <= n
  <2>1. Requestable(l, n, s, t, c, k)
    BY RequestedKey
  <2> QED BY <2>1 DEF Requestable
<1>6. \A j \in Keys \ {k} : /\ Safe(m, u, j) <=> Safe(l, t, j)
                            /\ Covered(m, u, j) <=> Covered(l, t, j)
  BY <1>3 DEF Safe, Covered
<1>7. Tidy(u)
  BY <1>2, <1>3, <1>4, <1>16, TxnType DEF Busy, Tidy
<1>8. Bounded(m, v, n, u)
  BY <1>3 DEF Busy, Bounded
<1>9. PrimaryKnown(u)
  BY <1>3 DEF Busy, PrimaryKnown
<1>10. HeldKept(m, u)
  <2>1. \A j \in HeldBy(u) : Kept(m, u, j, u.primary) /\ Safe(m, u, j)
    BY <1>3, <1>4, <1>5, <1>6, <1>17 DEF Busy, HeldKept
  <2>2. HeldBy(u) # {} => u.primary \in HeldBy(u) /\ u.ttl = u.primary /\ u.beat # "none"
    <3> SUFFICES ASSUME HeldBy(u) # {}
                 PROVE  u.primary \in HeldBy(u) /\ u.ttl = u.primary /\ u.beat # "none"
      OBVIOUS
    <3>1. t.primary \in HeldBy(t) /\ t.ttl = t.primary /\ t.beat # "none"
      BY <1>4 DEF Busy, HeldKept
    <3>2. t.ttl # NoKey
      BY <1>4, <3>1, KeyFacts
    <3>3. u = t
      BY <1>1, <3>2, RunFacts
    <3> QED BY <3>1, <3>3
  <2> QED BY <2>1, <2>2 DEF HeldKept
<1>11. RecordsRight(m, u)
  <2>1. \A j \in DOMAIN u.checks : m[j] # NoLock => m[j].fts = u.checks[j]
    BY <1>1, <1>3, <1>5, TxnFacts DEF Busy, RecordsRight, Tidy
  <2>2. \A j \in u.flags : m[j].fts <= MaxOf(u.fts, u.maxLWC)
    BY <1>1, <1>3, <1>5, TxnFacts DEF Busy, RecordsRight
  <2>3. \A j \in DOMAIN u.agg.cur : /\ m[j] # NoLock => m[j].fts = u.agg.cur[j].fts
                                    /\ m[j].fts <= MaxOf(u.fts, u.agg.maxLWC)
    BY <1>1, <1>3, <1>5, TxnFacts DEF Busy, RecordsRight
  <2> QED BY <2>1, <2>2, <2>3 DEF RecordsRight
<1>12. LastKept(m, u)
  <2>1. \A j \in DOMAIN t.agg.last : j \in Keys \ {k}
    BY <1>1, <1>5, TxnFacts
  <2>2. Claimable(u) <=> Claimable(t)
    BY <1>3 DEF Claimable
  <2> QED BY <1>3, <1>6, <1>17, <2>1, <2>2 DEF Busy, LastKept
<1>18. AbsentKnown(m, v, u)
  <2>1. k \notin t.notExist /\ ~Missing(t.agg.cur, k) /\ ~Missing(t.agg.last, k)
    BY <1>5 DEF Missing, Busy, Tidy
  <2> QED BY <1>3, <2>1 DEF Busy, AbsentKnown
<1>13. NothingKept(m, u)
  BY <1>3 DEF Busy, Assigns, NothingKept
<1>14. Fresh(m, n, s, "some", u, d)
  <2>1. \A r \in u.bg : r.fts < s
    BY <1>3 DEF Busy, Fresh
  <2>2. ASSUME NEW j \in Keys, m[j] # NoLock, m[j].fts >= s
        PROVE  j \in HeldBy(u) \/ j \in d.keys \ d.todo
    <3>1. CASE j = k
      BY <1>5, <3>1
    <3>2. CASE j # k
      BY <1>4, <2>2, <3>2, CallFacts DEF Busy, Fresh
    <3> QED BY <3>1, <3>2
  <2>3. u.primary # NoKey
    BY <1>3 DEF Busy, Assigns
  <2> QED BY <1>3, <1>5, <2>1, <2>2, <2>3, CallFacts DEF Fresh
<1>15. Accounted(m, u, d)
  BY <1>4, <1>5, <1>6 DEF Busy, Accounted
<1> QED BY <1>2, <1>4, <1>7, <1>8, <1>9, <1>10, <1>11, <1>12, <1>13, <1>14, <1>15, <1>16, <1>18 DEF Carried, AfterRequest

(* The calls that differ in what the answer to one request changes.        *)
Answer(c, d) == /\ d \in CallState /\ d.keys = c.keys /\ d.mode = c.mode
                /\ (d.assigned <=> c.assigned) /\ (d.waiting <=> c.waiting)

SameElse(l, t, c, k, m, u, d) ==
    /\ \A j \in Keys \ {k} : m[j] = l[j]
    /\ u.fts = t.fts /\ u.primary = t.primary /\ u.bg = t.bg /\ u.agg = t.agg
    /\ t.beat = "over" => u.beat = "over"
    /\ Answer(c, d) /\ d.todo \subseteq c.todo /\ d.absent \ {k} = c.absent \ {k}
    /\ \A i \in Keys \ {k} : lwcOf(d, i) = lwcOf(c, i)
    /\ d.err = "nil" => c.err = "nil" /\ d.todo = c.todo \ {k}

OtherKnown(m, v, u, d, j) ==
    /\ m[j] # NoLock => m[j].fts <= MaxOf(u.fts, lwcOf(d, j))
    /\ (j \in d.todo \/ (d.mode = "ifExists" /\ j \in d.absent)) =>
          \/ Covered(m, u, j)
          \/ u.agg.on /\ d.mode \in {"plain", "value"}
          \/ j \in d.todo /\ d.mode = "insert" /\ v[j] = 0
    /\ j \in d.absent /\ m[j] # NoLock => v[j] = 0
    /\ d.err = "nil" /\ j \notin d.todo /\ ~(d.mode = "ifExists" /\ j \in d.absent) =>
         /\ Kept(m, u, j, u.primary)
         /\ m[j] # NoLock => /\ m[j].fts = MaxOf(u.fts, lwcOf(d, j))
                             /\ d.mode = "insert" => v[j] = 0

(* What the call knows of the keys it has not just heard of is as before.  *)
LEMMA OtherKeys ==
    ASSUME NEW l, NEW v, NEW n \in Nat, NEW s \in Nat, NEW t, NEW c \in CallState,
           Busy(l, v, n, s, t, c), ~c.waiting, NEW k \in c.todo,
           NEW m, NEW u, NEW d, SameElse(l, t, c, k, m, u, d), NEW j \in c.keys, j # k
    PROVE  OtherKnown(m, v, u, d, j)
<1>1. j \in Keys /\ m[j] = l[j] /\ lwcOf(d, j) = lwcOf(c, j) /\ (j \in d.absent <=> j \in c.absent)
      /\ d.mode = c.mode
  BY CallFacts DEF Answer, SameElse
<1>2. Covered(m, u, j) <=> Covered(l, t, j)
  BY <1>1 DEF Covered, SameElse
<1>3. /\ l[j] # NoLock => l[j].fts <= MaxOf(t.fts, lwcOf(c, j))
      /\ (j \in c.todo \/ (c.mode = "ifExists" /\ j \in c.absent)) =>
            \/ Covered(l, t, j)
            \/ t.agg.on /\ c.mode \in {"plain", "value"}
            \/ j \in c.todo /\ c.mode = "insert" /\ v[j] = 0
      /\ j \in c.absent /\ l[j] # NoLock => v[j] = 0
      /\ c.err = "nil" /\ j \notin c.todo /\ ~(c.mode = "ifExists" /\ j \in c.absent) =>
           /\ Kept(l, t, j, t.primary)
           /\ l[j] # NoLock => /\ l[j].fts = MaxOf(t.fts, lwcOf(c, j))
                               /\ c.mode = "insert" => v[j] = 0
  BY DEF Busy, CallKnown
<1>4. \A p : Kept(l, t, j, p) => Kept(m, u, j, p)
  BY <1>1 DEF Kept, SameElse
<1>5. /\ d.todo \subseteq c.todo /\ u.fts = t.fts /\ u.primary = t.primary /\ u.agg = t.agg
      /\ d.err = "nil" => c.err = "nil" /\ d.todo = c.todo \ {k}
  BY DEF SameElse
<1>6. (j \in d.todo \/ (d.mode = "ifExists" /\ j \in d.absent)) =>
         \/ Covered(m, u, j)
         \/ u.agg.on /\ d.mode \in {"plain", "value"}
         \/ j \in d.todo /\ d.mode = "insert" /\ v[j] = 0
  <2>1. CASE j \in d.todo
    BY <1>1, <1>2, <1>3, <1>5, <2>1
  <2>2. CASE d.mode = "ifExists" /\ j \in d.absent
    BY <1>1, <1>2, <1>3, <1>5, <2>2
  <2> QED BY <2>1, <2>2
<1>7. d.err = "nil" /\ j \notin d.todo /\ ~(d.mode = "ifExists" /\ j \in d.absent) =>
         /\ Kept(m, u, j, u.primary)
         /\ m[j] # NoLock => /\ m[j].fts = MaxOf(u.fts, lwcOf(d, j))
                             /\ d.mode = "insert" => v[j] = 0
  BY <1>1, <1>3, <1>4, <1>5
<1> QED BY <1>1, <1>3, <1>5, <1>6, <1>7 DEF OtherKnown

GrantedCall(v, t, c, k) ==
    [c EXCEPT !.todo = @ \ {k},
              !.lwc = Merge(@, IF v[k] > t.fts THEN [j \in {k} |-> v[k]] ELSE <<>>),
              !.absent = @ \cup (IF ReturnValues(c.mode) /\ ~(v[k] > 0) THEN {k} ELSE {})]

GrantedAnswer(v, t, c, k, d) ==
    /\ Answer(c, d) /\ d.todo = c.todo \ {k} /\ d.err = c.err
    /\ DOMAIN d.lwc = DOMAIN c.lwc \cup (IF v[k] > t.fts THEN {k} ELSE {})
    /\ \A i \in DOMAIN c.lwc : d.lwc[i] = c.lwc[i]
    /\ v[k] > t.fts /\ k \notin DOMAIN c.lwc => d.lwc[k] = v[k]
    /\ d.absent = c.absent \cup (IF ReturnValues(c.mode) /\ ~(v[k] > 0) THEN {k} ELSE {})

LEMMA GrantedCallFacts ==
    ASSUME NEW v, NEW t, NEW c \in CallState, NEW k \in Keys, v[k] \in Nat, t.fts \in Nat
    PROVE  GrantedAnswer(v, t, c, k, GrantedCall(v, t, c, k))
<1> DEFINE g == IF v[k] > t.fts THEN [j \in {k} |-> v[k]] ELSE <<>>
           ab == c.absent \cup (IF ReturnValues(c.mode) /\ ~(v[k] > 0) THEN {k} ELSE {})
           lw == Merge(c.lwc, g)
           td == c.todo \ {k}
<1>1. g \in TSMaps /\ DOMAIN g = (IF v[k] > t.fts THEN {k} ELSE {})
      /\ (v[k] > t.fts => g[k] = v[k])
  <2>1. CASE v[k] > t.fts
    <3>1. g = [j \in {k} |-> v[k]]
      BY <2>1
    <3>2. g \in [{k} -> Nat] /\ DOMAIN g = {k} /\ g[k] = v[k] /\ {k} \in SUBSET Keys
      BY <3>1
    <3> HIDE DEF g
    <3>3. g \in TSMaps
      BY <3>2, MakeMap
    <3> QED BY <2>1, <3>2, <3>3
  <2>2. CASE ~(v[k] > t.fts)
    BY <2>2, EmptyMap
  <2> QED BY <2>1, <2>2
<1> HIDE DEF g
<1>2. c.lwc \in TSMaps
  BY CallFacts
<1>3. /\ lw \in TSMaps /\ DOMAIN lw = DOMAIN c.lwc \cup DOMAIN g
      /\ \A i \in DOMAIN c.lwc : lw[i] = c.lwc[i]
      /\ \A i \in DOMAIN g \ DOMAIN c.lwc : lw[i] = g[i]
  BY <1>1, <1>2, JoinTS
<1>4. ab \in SUBSET Keys /\ td \in SUBSET Keys
  BY CallFacts
<1>5. PICK d : d = [c EXCEPT !.todo = td, !.lwc = lw, !.absent = ab]
  OBVIOUS
<1>6. GrantedCall(v, t, c, k) = d
  BY <1>5 DEF GrantedCall, CallState, g
<1> HIDE DEF ab, td, lw
<1>7. d \in CallState /\ d.todo = td /\ d.lwc = lw /\ d.absent = ab
  BY <1>3, <1>4, <1>5 DEF CallState
<1>8. d.keys = c.keys /\ d.mode = c.mode /\ d.err = c.err
  BY <1>5 DEF CallState
<1>9. (d.assigned <=> c.assigned) /\ (d.waiting <=> c.waiting)
  BY <1>5 DEF CallState
<1>10. Answer(c, d)
  BY <1>7, <1>8, <1>9 DEF Answer
<1>11. /\ DOMAIN d.lwc = DOMAIN c.lwc \cup (IF v[k] > t.fts THEN {k} ELSE {})
       /\ \A i \in DOMAIN c.lwc : d.lwc[i] = c.lwc[i]
       /\ v[k] > t.fts /\ k \notin DOMAIN c.lwc => d.lwc[k] = v[k]
  BY <1>1, <1>3, <1>7
<1> QED BY <1>6, <1>7, <1>8, <1>10, <1>11 DEF GrantedAnswer, ab, td

(* A lock is written with the ForUpdateTS or with the newer version's.     *)
LEMMA GrantedBusy ==
    ASSUME NEW l, NEW v, NEW n \in Nat, NEW s \in Nat, NEW t, NEW c \in CallState,
           Busy(l, v, n, s, t, c), ~c.waiting, NEW k \in c.todo,
           t.primary \in c.todo => k = t.primary,
           v[k] > t.fts => t.agg.on /\ c.mode # "insert", v[k] > 0 => c.mode # "insert",
           NEW m,
           m = IF c.mode = "ifExists" /\ ~(v[k] > 0) THEN l
               ELSE [l EXCEPT ![k] = [fts |-> IF v[k] > t.fts THEN v[k] ELSE t.fts,
                                      primary |-> t.primary]],
           NEW u, u = IF k = t.primary THEN run(t) ELSE t,
           NEW d, d = GrantedCall(v, t, c, k)
    PROVE  Busy(m, v, n, s, u, d) /\ d \in CallState /\ Recorded(u) = Recorded(t)
<1>1. t \in TxnState
  BY TxnType DEF Busy, Tidy
<1>2. Requestable(l, n, s, t, c, k)
  BY RequestedKey
<1>3. /\ k \in Keys /\ k \in c.keys /\ t.fts = s /\ s <= n
      /\ l[k].fts \in Nat /\ (l[k] # NoLock => l[k].fts < s)
  BY <1>2 DEF Requestable
<1>4. v[k] \in Nat /\ v[k] <= n
  BY <1>3, LockFacts DEF Busy
<1>5. GrantedAnswer(v, t, c, k, d)
  BY <1>1, <1>3, <1>4, TxnFacts, GrantedCallFacts
<1>6. /\ Answer(c, d) /\ d.todo = c.todo \ {k} /\ d.err = c.err
      /\ DOMAIN d.lwc = DOMAIN c.lwc \cup (IF v[k] > t.fts THEN {k} ELSE {})
      /\ \A i \in DOMAIN c.lwc : d.lwc[i] = c.lwc[i]
      /\ v[k] > t.fts /\ k \notin DOMAIN c.lwc => d.lwc[k] = v[k]
      /\ d.absent = c.absent \cup (IF ReturnValues(c.mode) /\ ~(v[k] > 0) THEN {k} ELSE {})
  BY <1>5 DEF GrantedAnswer
<1>7. /\ d \in CallState /\ d.keys = c.keys /\ d.mode = c.mode /\ (d.assigned <=> c.assigned)
      /\ ~d.waiting
  BY <1>6 DEF Answer
<1>8. k \notin DOMAIN c.lwc /\ k \notin c.absent
  BY DEF Busy, CallKnown
<1>9. \A i \in Keys \ {k} : lwcOf(d, i) = lwcOf(c, i)
  BY <1>6 DEF lwcOf
<1> DEFINE absent == c.mode = "ifExists" /\ ~(v[k] > 0)
           F == IF v[k] > t.fts THEN v[k] ELSE t.fts
<1>10. F \in Nat /\ F <= n /\ s <= F /\ F = MaxOf(t.fts, lwcOf(d, k))
  BY <1>1, <1>3, <1>4, <1>6, <1>8, TxnFacts DEF lwcOf, MaxOf
<1>11. t.primary \in Keys /\ t.primary # NoKey
  BY <1>1, TxnFacts DEF Busy, Assigns, KeyOrNone
<1>12. ~absent => m[k].fts = F /\ m[k].primary = t.primary /\ m[k] # NoLock
  <2> SUFFICES ASSUME ~absent PROVE m[k].fts = F /\ m[k].primary = t.primary /\ m[k] # NoLock
    OBVIOUS
  <2> HIDE DEF F
  <2>1. m = [l EXCEPT ![k] = [fts |-> F, primary |-> t.primary]]
    BY DEF F
  <2>2. m[k] = [fts |-> F, primary |-> t.primary]
    BY <1>3, <2>1 DEF Busy, Bounded
  <2>3. m[k].fts = F /\ m[k].primary = t.primary
    BY <2>2
  <2> QED BY <1>11, <2>3 DEF NoLock
<1>13. m \in [Keys -> [fts : 0..n, primary : KeyOrNone]] /\ \A j \in Keys \ {k} : m[j] = l[j]
  <2> HIDE DEF F
  <2>1. m = l \/ m = [l EXCEPT ![k] = [fts |-> F, primary |-> t.primary]]
    BY DEF F
  <2>2. [fts |-> F, primary |-> t.primary] \in [fts : 0..n, primary : KeyOrNone]
    BY <1>10, <1>11 DEF KeyOrNone
  <2> QED BY <1>3, <2>1, <2>2 DEF Busy, Bounded
<1> HIDE DEF F
<1>14. /\ u \in TxnState /\ SameButTTL(t, u) /\ HeldBy(u) = HeldBy(t)
       /\ t.beat = "over" => u.beat = "over"
       /\ Recorded(u) = Recorded(t) /\ Carried(m, v, n, s, u, d)
  <2>1. u = t \/ u = run(t)
    OBVIOUS
  <2>2. d.todo \subseteq c.todo /\ k \notin d.todo
    BY <1>6
  <2>3. AfterRequest(t, m, v, n, s, u, d)
    BY <1>7, <1>13, <2>1, <2>2, RequestParts
  <2> QED BY <2>3 DEF AfterRequest
<1>15. u.primary = t.primary /\ u.fts = t.fts /\ u.bg = t.bg /\ u.agg = t.agg
  BY <1>14 DEF SameButTTL
<1>16. Assigns(m, u, d)
  <2>1. /\ t.primary # NoKey /\ (~c.assigned => HeldBy(t) # {})
        /\ c.assigned => /\ HeldBy(t) = {} /\ t.primary \in c.keys
                         /\ t.agg.on => t.agg.assigned /\ t.agg.primary = t.primary
                         /\ c.mode = "ifExists" => c.keys = {t.primary}
    BY DEF Busy, Assigns
  <2>2. c.assigned /\ t.primary \in c.todo => u.ttl = u.primary /\ u.beat # "none"
    <3> SUFFICES ASSUME c.assigned, t.primary \in c.todo PROVE u.ttl = u.primary /\ u.beat # "none"
      OBVIOUS
    <3>1. u = run(t)
      OBVIOUS
    <3>2. t.ttl = NoKey \/ (t.ttl = t.primary /\ t.beat # "none")
      BY DEF Busy, Assigns, KeptAlive
    <3> QED BY <1>1, <1>11, <1>15, <3>1, <3>2, RunFacts
  <2>3. c.assigned /\ t.primary \notin c.todo => t.primary # k /\ u = t
    OBVIOUS
  <2>4. c.assigned /\ t.primary \notin c.todo /\ d.err = "nil" =>
           \/ d.mode = "ifExists" /\ t.primary \in d.absent
           \/ t.ttl = t.primary /\ t.beat # "none"
    BY <1>6, <1>7 DEF Busy, Assigns
  <2>5. t.primary \notin d.todo
    BY <1>6
  <2>6. CASE c.assigned /\ t.primary \in c.todo
    BY <1>7, <1>14, <1>15, <2>1, <2>2, <2>5, <2>6 DEF Assigns
  <2>7. CASE c.assigned /\ t.primary \notin c.todo
    BY <1>7, <1>14, <1>15, <2>1, <2>3, <2>4, <2>5, <2>7 DEF Assigns
  <2>8. CASE ~c.assigned
    BY <1>7, <1>14, <1>15, <2>1, <2>8 DEF Assigns
  <2> QED BY <2>6, <2>7, <2>8
<1>17. CallKnown(m, v, n, s, u, d)
  <2>1. /\ d.keys \cap Recorded(u) = {} /\ d.todo \subseteq d.keys
        /\ d.absent \subseteq d.keys \ d.todo /\ DOMAIN d.lwc \subseteq d.keys \ d.todo
        /\ d.todo # d.keys
    BY <1>3, <1>6, <1>7, <1>14 DEF Busy, CallKnown
  <2>2. /\ u.agg.on => \E i \in Keys : d.keys = {i}
        /\ ~u.agg.on => DOMAIN d.lwc = {}
        /\ d.mode = "ifExists" => DOMAIN u.agg.last = {}
        /\ u.fts = s
        /\ d.err = "refused" /\ u.agg.on => d.mode = "insert"
    BY <1>6, <1>7, <1>15 DEF Busy, CallKnown
  <2>3. \A i \in DOMAIN d.lwc : d.lwc[i] <= n
    BY <1>4, <1>6, <1>8 DEF Busy, CallKnown
  <2>4. d.err = "refused" => d.keys # {k}
    <3>1. c.keys = {k} => c.todo = c.keys
      BY DEF Busy, CallKnown
    <3> QED BY <1>6, <1>7, <3>1 DEF Busy, CallKnown
  <2>5. ASSUME NEW j \in d.keys, j # k
        PROVE  OtherKnown(m, v, u, d, j)
    <3>1. j \in c.keys
      BY <1>7
    <3>2. SameElse(l, t, c, k, m, u, d)
      BY <1>6, <1>9, <1>13, <1>14, <1>15 DEF SameElse
    <3> QED BY <2>5, <3>1, <3>2, OtherKeys
  <2>6. m[k] # NoLock => m[k].fts <= MaxOf(u.fts, lwcOf(d, k))
    <3>1. CASE absent
      <4>1. m = l
        BY <3>1
      <4> QED BY <1>3, <1>10, <1>15, <4>1
    <3>2. CASE ~absent
      BY <1>10, <1>12, <1>15, <3>2
    <3> QED BY <3>1, <3>2
  <2>7. d.mode = "ifExists" /\ k \in d.absent => Covered(m, u, k)
    <3> SUFFICES ASSUME d.mode = "ifExists", k \in d.absent PROVE Covered(m, u, k)
      OBVIOUS
    <3>1. absent
      BY <1>6, <1>7, <1>8
    <3>2. m = l
      BY <3>1
    <3>3. Covered(l, t, k)
      BY <1>3, <1>7 DEF Busy, CallKnown
    <3> QED BY <1>15, <3>2, <3>3 DEF Covered
  <2>8. ~(d.mode = "ifExists" /\ k \in d.absent) => ~absent
    BY <1>6, <1>7 DEF ReturnValues
  <2>12. k \in d.absent => v[k] = 0
    BY <1>4, <1>6, <1>8
  <2>9. ~(d.mode = "ifExists" /\ k \in d.absent) =>
            /\ Kept(m, u, k, u.primary)
            /\ m[k].fts = MaxOf(u.fts, lwcOf(d, k))
            /\ d.mode = "insert" => v[k] = 0
    <3>1. d.mode = "insert" => v[k] = 0
      BY <1>4, <1>7
    <3> HIDE DEF absent
    <3> QED BY <1>10, <1>12, <1>15, <2>8, <3>1 DEF Kept
  <2>10. k \notin d.todo
    BY <1>6
  <2>11. ASSUME NEW j \in d.keys
         PROVE  /\ m[j] # NoLock => m[j].fts <= MaxOf(u.fts, lwcOf(d, j))
                /\ (j \in d.todo \/ (d.mode = "ifExists" /\ j \in d.absent)
                      \/ (d.err = "refused" /\ d.keys = {j})) =>
                      \/ Covered(m, u, j)
                      \/ u.agg.on /\ d.mode \in {"plain", "value"}
                      \/ j \in d.todo /\ d.mode = "insert" /\ v[j] = 0
                /\ j \in d.absent /\ m[j] # NoLock => v[j] = 0
                /\ d.err = "nil" /\ j \notin d.todo /\ ~(d.mode = "ifExists" /\ j \in d.absent) =>
                     /\ Kept(m, u, j, u.primary)
                     /\ m[j] # NoLock => /\ m[j].fts = MaxOf(u.fts, lwcOf(d, j))
                                         /\ d.mode = "insert" => v[j] = 0
    <3>1. CASE j = k
      BY <2>4, <2>6, <2>7, <2>9, <2>10, <2>12, <3>1
    <3>2. CASE j # k
      <4>1. d.keys # {j}
        BY <1>3, <1>7, <3>2
      <4> QED BY <2>5, <3>2, <4>1 DEF OtherKnown
    <3> QED BY <3>1, <3>2
  <2> QED BY <1>7, <2>1, <2>2, <2>3, <2>11 DEF CallKnown
<1> QED BY <1>7, <1>14, <1>16, <1>17 DEF Carried, Busy

FailedCall(t, c, k, err) ==
    [c EXCEPT !.todo = IF k = t.primary THEN {} ELSE @ \ {k},
              !.err = IF @ = "nil" THEN err ELSE @]

FailedAnswer(t, c, k, err, d) ==
    /\ Answer(c, d) /\ d.todo \subseteq c.todo \ {k} /\ (k = t.primary => d.todo = {})
    /\ d.err = (IF c.err = "nil" THEN err ELSE c.err) /\ d.err # "nil"
    /\ d.lwc = c.lwc /\ d.absent = c.absent

LEMMA FailedCallFacts ==
    ASSUME NEW t, NEW c \in CallState, NEW k, NEW err \in {"refused", "failed", "deadlock"}
    PROVE  FailedAnswer(t, c, k, err, FailedCall(t, c, k, err))
<1>1. PICK td \in SUBSET Keys : td = IF k = t.primary THEN {} ELSE c.todo \ {k}
  BY CallFacts
<1>2. PICK e \in {"refused", "failed", "deadlock"} : e = IF c.err = "nil" THEN err ELSE c.err
  BY CallFacts
<1>3. PICK d : d = [c EXCEPT !.todo = td, !.err = e]
  OBVIOUS
<1>4. FailedCall(t, c, k, err) = d
  BY <1>1, <1>2, <1>3 DEF FailedCall, CallState
<1>5. d \in CallState /\ d.todo = td /\ d.err = e
  BY <1>3 DEF CallState
<1>6. d.keys = c.keys /\ d.mode = c.mode /\ d.lwc = c.lwc /\ d.absent = c.absent
  BY <1>3 DEF CallState
<1>7. (d.assigned <=> c.assigned) /\ (d.waiting <=> c.waiting)
  BY <1>3 DEF CallState
<1>8. Answer(c, d)
  BY <1>5, <1>6, <1>7 DEF Answer
<1>9. d.todo \subseteq c.todo \ {k} /\ (k = t.primary => d.todo = {}) /\ d.err # "nil"
      /\ d.err = (IF c.err = "nil" THEN err ELSE c.err)
  BY <1>1, <1>2, <1>5
<1> QED BY <1>4, <1>6, <1>8, <1>9 DEF FailedAnswer

(* A request fails; the lock may have been written, though not in spite of *)
(* a newer version.                                                        *)
FailedLock(l, t, k, err, m) ==
    m = l \/ (err # "refused" /\ m = [l EXCEPT ![k] = [fts |-> t.fts, primary |-> t.primary]])

LEMMA FailedBusy ==
    ASSUME NEW l, NEW v, NEW n \in Nat, NEW s \in Nat, NEW t, NEW c \in CallState,
           Busy(l, v, n, s, t, c), ~c.waiting, NEW k \in c.todo,
           t.primary \in c.todo => k = t.primary,
           NEW err \in {"refused", "failed", "deadlock"},
           err = "refused" => v[k] # 0 /\ (t.agg.on => c.mode = "insert"),
           NEW m, FailedLock(l, t, k, err, m),
           NEW d, d = FailedCall(t, c, k, err)
    PROVE  Busy(m, v, n, s, t, d) /\ d \in CallState
<1>1. t \in TxnState
  BY TxnType DEF Busy, Tidy
<1>2. Requestable(l, n, s, t, c, k)
  BY RequestedKey
<1>3. /\ k \in Keys /\ k \in c.keys /\ t.fts = s /\ s <= n
      /\ l[k].fts \in Nat /\ (l[k] # NoLock => l[k].fts < s)
  BY <1>2 DEF Requestable
<1>5. FailedAnswer(t, c, k, err, d)
  BY FailedCallFacts
<1>6. /\ Answer(c, d) /\ d.todo \subseteq c.todo \ {k} /\ (k = t.primary => d.todo = {})
      /\ d.err = (IF c.err = "nil" THEN err ELSE c.err) /\ d.err # "nil"
      /\ d.lwc = c.lwc /\ d.absent = c.absent
  BY <1>5 DEF FailedAnswer
<1>7. /\ d \in CallState /\ d.keys = c.keys /\ d.mode = c.mode /\ (d.assigned <=> c.assigned)
      /\ ~d.waiting
  BY <1>6 DEF Answer
<1>8. k \notin DOMAIN c.lwc /\ k \notin c.absent
  BY DEF Busy, CallKnown
<1>9. \A i \in Keys : lwcOf(d, i) = lwcOf(c, i)
  BY <1>6 DEF lwcOf
<1>11. t.primary \in Keys /\ t.primary # NoKey
  BY <1>1, TxnFacts DEF Busy, Assigns, KeyOrNone
<1>13. m \in [Keys -> [fts : 0..n, primary : KeyOrNone]] /\ \A j \in Keys \ {k} : m[j] = l[j]
  <2>1. [fts |-> t.fts, primary |-> t.primary] \in [fts : 0..n, primary : KeyOrNone]
    BY <1>3, <1>11 DEF KeyOrNone
  <2> QED BY <1>3, <2>1 DEF Busy, Bounded, FailedLock
<1>14. Carried(m, v, n, s, t, d)
  <2>1. d.todo \subseteq c.todo /\ k \notin d.todo
    BY <1>6
  <2>2. PICK u : u = t
    OBVIOUS
  <2>3. AfterRequest(t, m, v, n, s, u, d)
    <3>1. u = t \/ u = run(t)
      BY <2>2
    <3>2. d \in CallState /\ d.keys = c.keys
      BY <1>7
    <3> QED BY <1>13, <2>1, <3>1, <3>2, RequestParts, SMTT(60)
  <2> QED BY <2>2, <2>3 DEF AfterRequest
<1>15. Assigns(m, t, d)
  <2>1. t.primary \notin d.todo
    BY <1>6
  <2>2. /\ t.primary # NoKey /\ (~c.assigned => HeldBy(t) # {})
        /\ c.assigned => /\ HeldBy(t) = {} /\ t.primary \in c.keys
                         /\ t.agg.on => t.agg.assigned /\ t.agg.primary = t.primary
                         /\ c.mode = "ifExists" => c.keys = {t.primary}
    BY DEF Busy, Assigns
  <2> QED BY <1>6, <1>7, <2>1, <2>2 DEF Assigns
<1>16. CallKnown(m, v, n, s, t, d)
  <2>1. /\ d.keys \cap Recorded(t) = {} /\ d.todo \subseteq d.keys
        /\ d.absent \subseteq d.keys \ d.todo /\ DOMAIN d.lwc \subseteq d.keys \ d.todo
        /\ d.todo # d.keys
    BY <1>3, <1>6, <1>7 DEF Busy, CallKnown
  <2>2. /\ t.agg.on => \E i \in Keys : d.keys = {i}
        /\ ~t.agg.on => DOMAIN d.lwc = {}
        /\ d.mode = "ifExists" => DOMAIN t.agg.last = {}
        /\ t.fts = s
        /\ d.err = "refused" /\ t.agg.on => d.mode = "insert"
    BY <1>6, <1>7 DEF Busy, CallKnown
  <2>3. \A i \in DOMAIN d.lwc : d.lwc[i] <= n
    BY <1>6 DEF Busy, CallKnown
  <2>4. d.err = "refused" /\ d.keys = {k} => err = "refused"
    <3>1. c.keys = {k} => c.todo = c.keys
      BY DEF Busy, CallKnown
    <3> QED BY <1>6, <1>7, <3>1 DEF Busy, CallKnown
  <2>5. ASSUME NEW j \in d.keys, j # k
        PROVE  OtherKnown(m, v, t, d, j)
    <3>1. j \in c.keys
      BY <1>7
    <3>2. SameElse(l, t, c, k, m, t, d)
      BY <1>6, <1>9, <1>13 DEF SameElse
    <3> QED BY <2>5, <3>1, <3>2, OtherKeys
  <2>6. m[k] # NoLock => m[k].fts <= MaxOf(t.fts, lwcOf(d, k))
    <3>1. lwcOf(d, k) = 0
      BY <1>6, <1>8 DEF lwcOf
    <3>2. m[k] # NoLock => m[k].fts \in Nat /\ m[k].fts <= t.fts
      <4>1. CASE m = l
        BY <1>3, <4>1
      <4>2. CASE m = [l EXCEPT ![k] = [fts |-> t.fts, primary |-> t.primary]]
        <5>1. m[k] = [fts |-> t.fts, primary |-> t.primary]
          BY <1>3, <4>2 DEF Busy, Bounded
        <5> QED BY <1>3, <5>1
      <4> QED BY <4>1, <4>2 DEF FailedLock
    <3> QED BY <1>3, <3>1, <3>2 DEF MaxOf
  <2>7. err = "refused" => Covered(m, t, k) \/ (t.agg.on /\ d.mode \in {"plain", "value"})
    <3>1. \/ Covered(l, t, k)
          \/ t.agg.on /\ c.mode \in {"plain", "value"}
          \/ c.mode = "insert" /\ v[k] = 0
      BY <1>3 DEF Busy, CallKnown
    <3> QED BY <1>7, <3>1 DEF FailedLock
  <2>8. ASSUME NEW j \in d.keys
        PROVE  /\ m[j] # NoLock => m[j].fts <= MaxOf(t.fts, lwcOf(d, j))
               /\ (j \in d.todo \/ (d.mode = "ifExists" /\ j \in d.absent)
                     \/ (d.err = "refused" /\ d.keys = {j})) =>
                     \/ Covered(m, t, j)
                     \/ t.agg.on /\ d.mode \in {"plain", "value"}
                     \/ j \in d.todo /\ d.mode = "insert" /\ v[j] = 0
               /\ j \in d.absent /\ m[j] # NoLock => v[j] = 0
    <3>1. CASE j = k
      BY <1>6, <1>8, <2>4, <2>6, <2>7, <3>1
    <3>2. CASE j # k
      <4>1. d.keys # {j}
        BY <1>3, <1>7, <3>2
      <4> QED BY <2>5, <3>2, <4>1 DEF OtherKnown
    <3> QED BY <3>1, <3>2
  <2> QED BY <1>6, <1>7, <2>1, <2>2, <2>3, <2>8 DEF CallKnown
<1> QED BY <1>7, <1>14, <1>15, <1>16 DEF Carried, Busy

-----------------------------------------------------------------------------
(* LockKeys after the requests.                                            *)

LEMMA LargestLWC ==
    ASSUME NEW l, NEW v, NEW n \in Nat, NEW s \in Nat, NEW t, NEW c \in CallState,
           CallKnown(l, v, n, s, t, c)
    PROVE  /\ MaxLWC(c) \in Nat /\ MaxLWC(c) <= n
           /\ \A k \in c.keys : lwcOf(c, k) \in Nat /\ lwcOf(c, k) <= MaxLWC(c)
           /\ ~t.agg.on => \A k \in c.keys : lwcOf(c, k) = 0
<1>1. c.lwc \in TSMaps /\ c.keys \in SUBSET Keys
  BY CallFacts
<1>2. \A k \in DOMAIN c.lwc : c.lwc[k] \in Nat /\ c.lwc[k] <= n
  BY <1>1, MapFacts DEF CallKnown
<1>3. CASE DOMAIN c.lwc = {}
  <2>1. Range(c.lwc) = {}
    BY <1>3 DEF Range
  <2>2. Max({0}) = 0
    BY DEF Max
  <2>3. MaxLWC(c) = 0
    BY <2>1, <2>2 DEF MaxLWC
  <2> QED BY <1>3, <2>3 DEF lwcOf
<1>4. CASE DOMAIN c.lwc # {}
  <2>1. t.agg.on
    BY <1>4 DEF CallKnown
  <2>2. PICK k \in Keys : c.keys = {k} /\ DOMAIN c.lwc = {k}
    BY <1>4, <2>1 DEF CallKnown
  <2>3. PICK x \in Nat : x = c.lwc[k] /\ x <= n
    BY <1>2, <2>2
  <2>4. Range(c.lwc) = {x}
    BY <2>2, <2>3 DEF Range
  <2>5. PICK S : S = {0} \cup {x}
    OBVIOUS
  <2>6. x \in S /\ \A y \in S : x >= y
    BY <2>3, <2>5
  <2>7. \E z \in S : \A y \in S : z >= y
    BY <2>6
  <2>8. Max(S) \in S /\ \A y \in S : Max(S) >= y
    BY <2>7 DEF Max
  <2>9. Max(S) = x
    BY <2>3, <2>5, <2>8
  <2>10. MaxLWC(c) = x /\ lwcOf(c, k) = x
    BY <2>2, <2>3, <2>4, <2>5, <2>9 DEF MaxLWC, lwcOf
  <2> QED BY <2>1, <2>2, <2>3, <2>10
<1> QED BY <1>3, <1>4

(* The attempt's largest conflicting version takes those of the call in.   *)
Counted(t, c) == IF t.agg.on THEN [t EXCEPT !.agg.maxLWC = MaxOf(@, MaxLWC(c))] ELSE t

OnlyLWC(t, u) ==
    /\ u \in TxnState /\ SameRecords(t, u) /\ u.primary = t.primary /\ u.fts = t.fts
    /\ u.ttl = t.ttl /\ u.beat = t.beat /\ u.lockedCnt = t.lockedCnt /\ u.bg = t.bg
    /\ (u.agg.on <=> t.agg.on) /\ u.agg.last = t.agg.last /\ u.agg.cur = t.agg.cur
    /\ u.agg.lastPrimary = t.agg.lastPrimary /\ (u.agg.lastAssigned <=> t.agg.lastAssigned)
    /\ u.agg.primary = t.agg.primary /\ (u.agg.assigned <=> t.agg.assigned)
    /\ (u.agg.lastOld <=> t.agg.lastOld)

LEMMA CountedFacts ==
    ASSUME NEW t \in TxnState, NEW c, MaxLWC(c) \in Nat
    PROVE  LET u == Counted(t, c) IN
           /\ OnlyLWC(t, u)
           /\ u.agg.maxLWC = IF t.agg.on THEN MaxOf(t.agg.maxLWC, MaxLWC(c)) ELSE t.agg.maxLWC
<1>1. CASE ~t.agg.on
  BY <1>1 DEF Counted, OnlyLWC, SameRecords
<1>2. CASE t.agg.on
  <2>1. PICK x \in Nat : x = MaxOf(t.agg.maxLWC, MaxLWC(c))
    BY TxnFacts, MaxFacts
  <2>2. PICK b : b = [t.agg EXCEPT !.maxLWC = x]
    OBVIOUS
  <2>3. /\ b \in Context /\ b.last = t.agg.last /\ b.cur = t.agg.cur
        /\ b.lastPrimary = t.agg.lastPrimary /\ b.primary = t.agg.primary /\ b.maxLWC = x
    BY <2>2, TxnFacts DEF Context
  <2>4. /\ (b.on <=> t.agg.on) /\ (b.lastAssigned <=> t.agg.lastAssigned)
        /\ (b.assigned <=> t.agg.assigned) /\ (b.lastOld <=> t.agg.lastOld)
    BY <2>2, TxnFacts DEF Context
  <2>5. PICK u : u = [t EXCEPT !.agg = b]
    OBVIOUS
  <2>6. Counted(t, c) = u
    BY <1>2, <2>1, <2>2, <2>5 DEF Counted, TxnState, Context
  <2>7. u \in TxnState /\ SameRecords(t, u) /\ u.primary = t.primary /\ u.fts = t.fts
        /\ u.ttl = t.ttl /\ u.lockedCnt = t.lockedCnt /\ u.bg = t.bg /\ u.agg = b
    BY <2>3, <2>5 DEF TxnState, SameRecords
  <2>8. u.beat = t.beat
    BY <2>5 DEF TxnState
  <2>9. OnlyLWC(t, u)
    BY <2>3, <2>4, <2>7, <2>8 DEF OnlyLWC
  <2> QED BY <1>2, <2>1, <2>3, <2>6, <2>7, <2>9
<1> QED BY <1>1, <1>2, TxnFacts

LEMMA CountedBusy ==
    ASSUME NEW l, NEW v, NEW n \in Nat, NEW s \in Nat, NEW t, NEW c \in CallState,
           Busy(l, v, n, s, t, c), NEW u, u = Counted(t, c)
    PROVE  /\ Busy(l, v, n, s, u, c) /\ HeldBy(u) = HeldBy(t) /\ Recorded(u) = Recorded(t)
           /\ u.agg.on => MaxLWC(c) <= u.agg.maxLWC
<1>1. t \in TxnState
  BY TxnType DEF Busy, Tidy
<1>2. MaxLWC(c) \in Nat /\ MaxLWC(c) <= n
  BY LargestLWC DEF Busy
<1>3. /\ OnlyLWC(t, u)
      /\ u.agg.maxLWC = IF t.agg.on THEN MaxOf(t.agg.maxLWC, MaxLWC(c)) ELSE t.agg.maxLWC
  BY <1>1, <1>2, CountedFacts
<1>4. /\ u \in TxnState /\ u.flags = t.flags /\ u.checks = t.checks /\ u.maxLWC = t.maxLWC
      /\ u.notExist = t.notExist /\ u.primary = t.primary /\ u.fts = t.fts
      /\ u.ttl = t.ttl /\ u.beat = t.beat /\ u.lockedCnt = t.lockedCnt /\ u.bg = t.bg
      /\ (u.agg.on <=> t.agg.on) /\ u.agg.last = t.agg.last /\ u.agg.cur = t.agg.cur
      /\ u.agg.lastPrimary = t.agg.lastPrimary /\ (u.agg.lastAssigned <=> t.agg.lastAssigned)
      /\ u.agg.primary = t.agg.primary /\ (u.agg.assigned <=> t.agg.assigned)
      /\ (u.agg.lastOld <=> t.agg.lastOld)
  BY <1>3 DEF OnlyLWC, SameRecords
<1>5. /\ t.agg.maxLWC \in Nat /\ u.agg.maxLWC \in Nat /\ t.agg.maxLWC <= u.agg.maxLWC
      /\ u.agg.maxLWC <= n
      /\ u.agg.on => MaxLWC(c) <= u.agg.maxLWC
  <2>1. t.agg.maxLWC \in Nat /\ t.agg.maxLWC <= n
    BY <1>1, TxnFacts DEF Busy, Bounded
  <2> QED BY <1>2, <1>3, <1>4, <2>1 DEF MaxOf
<1>6. HeldBy(u) = HeldBy(t) /\ Recorded(u) = Recorded(t)
  BY <1>4 DEF HeldBy, Recorded
<1>7. \A k : (Safe(l, u, k) <=> Safe(l, t, k)) /\ (Covered(l, u, k) <=> Covered(l, t, k))
             /\ (KeptAlive(l, u, k) <=> KeptAlive(l, t, k))
             /\ \A p : Kept(l, u, k, p) <=> Kept(l, t, k, p)
  BY <1>4 DEF Safe, Covered, KeptAlive, Kept
<1>8. \A k \in Keys : l[k].fts <= MaxOf(t.fts, t.agg.maxLWC) => l[k].fts <= MaxOf(u.fts, u.agg.maxLWC)
  <2> SUFFICES ASSUME NEW k \in Keys, l[k].fts <= MaxOf(t.fts, t.agg.maxLWC)
               PROVE  l[k].fts <= MaxOf(u.fts, u.agg.maxLWC)
    OBVIOUS
  <2>1. l[k].fts \in Nat /\ t.fts \in Nat
    BY <1>1, TxnFacts, LockFacts DEF Busy
  <2> QED BY <1>4, <1>5, <2>1 DEF MaxOf
<1>9. Tidy(u)
  BY <1>4, <1>6, TxnType DEF Busy, Tidy
<1>10. Bounded(l, v, n, u)
  BY <1>4, <1>5 DEF Busy, Bounded
<1>11. PrimaryKnown(u)
  BY <1>4 DEF Busy, PrimaryKnown
<1>12. HeldKept(l, u)
  BY <1>4, <1>6, <1>7 DEF Busy, HeldKept
<1>13. RecordsRight(l, u)
  <2>1. DOMAIN t.agg.cur \in SUBSET Keys
    BY <1>1, TxnFacts
  <2> QED BY <1>4, <1>8, <2>1 DEF Busy, RecordsRight
<1>14. LastKept(l, u)
  <2>1. DOMAIN t.agg.last \in SUBSET Keys
    BY <1>1, TxnFacts
  <2>2. Claimable(u) <=> Claimable(t)
    BY <1>4 DEF Claimable
  <2> QED BY <1>4, <1>7, <1>8, <2>1, <2>2 DEF Busy, LastKept
<1>20. AbsentKnown(l, v, u)
  BY <1>4 DEF Busy, AbsentKnown
<1>15. NothingKept(l, u)
  BY <1>4 DEF Busy, Assigns, NothingKept
<1>16. Fresh(l, n, s, "some", u, c)
  BY <1>4, <1>6 DEF Busy, Fresh
<1>17. Accounted(l, u, c)
  BY <1>6, <1>7 DEF Busy, Accounted
<1>18. Assigns(l, u, c)
  BY <1>4, <1>6, <1>7 DEF Busy, Assigns
<1>19. CallKnown(l, v, n, s, u, c)
  BY <1>4, <1>6, <1>7 DEF Busy, CallKnown
<1> QED BY <1>5, <1>6, <1>9, <1>10, <1>11, <1>12, <1>13, <1>14, <1>15, <1>16, <1>17, <1>18, <1>19, <1>20 DEF Busy

(* Nothing of the call is left but locks that are going to be removed.      *)
Ended(l, v, n, s, t, c) ==
    /\ Tidy(t) /\ Bounded(l, v, n, t) /\ PrimaryKnown(t) /\ HeldKept(l, t)
    /\ RecordsRight(l, t) /\ LastKept(l, t) /\ AbsentKnown(l, v, t) /\ Accounted(l, t, c)
    /\ \A k \in c.absent : l[k] # NoLock => v[k] = 0
    /\ s <= n /\ t.fts = s /\ t.primary # NoKey
    /\ ~c.assigned => HeldBy(t) # {}
    /\ c.assigned => HeldBy(t) = {} /\ (t.agg.on => t.agg.assigned /\ t.agg.primary = t.primary)
    /\ \A k \in c.keys : Covered(l, t, k)

RolledBack(t, c) ==
    IF Cardinality(c.keys) > 1 \/ keyMayBeLocked(c.err)
    THEN asyncPessimisticRollback(t, c.keys, MaxOf(t.fts, MaxLWC(c))) ELSE t

LEMMA FailsEnded ==
    ASSUME NEW l, NEW v, NEW n \in Nat, NEW s \in Nat, NEW t, NEW c \in CallState,
           Busy(l, v, n, s, t, c), c.err # "nil", NEW u, u = RolledBack(t, c)
    PROVE  Ended(l, v, n, s, u, c) /\ HeldBy(u) = HeldBy(t) /\ Recorded(u) = Recorded(t)
           /\ u.primary = t.primary /\ u.agg = t.agg
<1>1. t \in TxnState
  BY TxnType DEF Busy, Tidy
<1>2. MaxLWC(c) \in Nat /\ MaxLWC(c) <= n /\ c.keys \in SUBSET Keys
      /\ \A k \in c.keys : lwcOf(c, k) \in Nat /\ lwcOf(c, k) <= MaxLWC(c)
  BY LargestLWC, CallFacts DEF Busy
<1>3. t.fts \in Nat /\ t.fts = s /\ s <= n
  BY <1>1, TxnFacts DEF Busy, CallKnown, Fresh
<1>4. PICK f \in Nat : f = MaxOf(t.fts, MaxLWC(c)) /\ f <= n
  BY <1>2, <1>3, MaxFacts
<1>5. MaxOf(t.fts, f) = f /\ \A k \in c.keys : l[k] # NoLock => l[k].fts <= f
  <2>1. MaxOf(t.fts, f) = f
    BY <1>2, <1>3, <1>4 DEF MaxOf
  <2>2. ASSUME NEW k \in c.keys, l[k] # NoLock PROVE l[k].fts <= f
    <3>1. l[k].fts \in Nat /\ l[k].fts <= MaxOf(t.fts, lwcOf(c, k))
      BY <1>2, <2>2, LockFacts DEF Busy, CallKnown
    <3> QED BY <1>2, <1>3, <1>4, <3>1 DEF MaxOf
  <2> QED BY <2>1, <2>2
<1>6. /\ u \in TxnState /\ SameRecords(t, u) /\ u.primary = t.primary /\ u.fts = t.fts
      /\ u.ttl = t.ttl /\ u.beat = t.beat /\ u.lockedCnt = t.lockedCnt
      /\ u.agg = t.agg /\ (u = t \/ Adds(t, u, c.keys, f))
  <2>1. CASE u = t
    BY <1>1, <2>1 DEF SameRecords
  <2>2. CASE u = asyncPessimisticRollback(t, c.keys, f)
    BY <1>1, <1>2, <1>5, <2>2, AsyncFacts
  <2> QED BY <1>4, <2>1, <2>2 DEF RolledBack
<1>7. u.flags = t.flags /\ u.checks = t.checks /\ u.maxLWC = t.maxLWC
      /\ u.notExist = t.notExist
      /\ HeldBy(u) = HeldBy(t) /\ Recorded(u) = Recorded(t)
  BY <1>6 DEF SameRecords, HeldBy, Recorded
<1>19. \A k : \A p : Kept(l, t, k, p) => Kept(l, u, k, p)
  BY <1>6 DEF Kept
<1>8. c.keys \cap Recorded(t) = {}
  BY DEF Busy, CallKnown
<1>9. \A k \in Recorded(t) : Safe(l, t, k) => Safe(l, u, k)
  BY <1>6, <1>8, AddsSafe
<1>10. \A k : Covered(l, t, k) => Covered(l, u, k)
  BY <1>6, AddsCovers
<1>11. \A k \in c.keys : Covered(l, u, k)
  <2>1. CASE Cardinality(c.keys) > 1 \/ keyMayBeLocked(c.err)
    <3>1. u = asyncPessimisticRollback(t, c.keys, f)
      BY <1>4, <2>1 DEF RolledBack
    <3>2. Adds(t, u, c.keys, f)
      BY <1>1, <1>2, <1>5, <3>1, AsyncFacts
    <3>3. \A k \in c.keys : l[k].fts \in Nat
      BY <1>2, LockFacts DEF Busy
    <3> QED BY <1>5, <3>2, <3>3, AddsCovers DEF Covered
  <2>2. CASE ~(Cardinality(c.keys) > 1 \/ keyMayBeLocked(c.err))
    <3>1. c.err = "refused" /\ \E k \in Keys : c.keys = {k}
      BY <1>2, <2>2, SetFacts, CallFacts DEF keyMayBeLocked
    <3>2. \A k \in c.keys : Covered(l, t, k)
      BY <3>1 DEF Busy, CallKnown
    <3> QED BY <1>10, <3>2
  <2> QED BY <2>1, <2>2
<1>12. Tidy(u)
  BY <1>6, <1>7, TxnType DEF Busy, Tidy
<1>13. Bounded(l, v, n, u)
  BY <1>4, <1>6, <1>7 DEF Busy, Bounded, Adds
<1>14. PrimaryKnown(u) /\ RecordsRight(l, u)
  BY <1>6, <1>7 DEF Busy, PrimaryKnown, RecordsRight
<1>15. HeldKept(l, u)
  BY <1>6, <1>7, <1>9, <1>19 DEF Busy, HeldKept, Recorded
<1>16. LastKept(l, u)
  <2>1. Claimable(u) <=> Claimable(t)
    BY <1>6 DEF Claimable
  <2> QED BY <1>6, <1>7, <1>9, <1>19, <2>1 DEF Busy, LastKept, Recorded
<1>20. AbsentKnown(l, v, u) /\ \A k \in c.absent : l[k] # NoLock => v[k] = 0
  BY <1>6, <1>7 DEF Busy, AbsentKnown, CallKnown
<1>17. Accounted(l, u, c)
  BY <1>7, <1>10 DEF Busy, Accounted
<1>18. /\ u.primary # NoKey
       /\ ~c.assigned => HeldBy(u) # {}
       /\ c.assigned => HeldBy(u) = {} /\ (u.agg.on => u.agg.assigned /\ u.agg.primary = u.primary)
  BY <1>6, <1>7 DEF Busy, Assigns
<1> QED BY <1>3, <1>6, <1>7, <1>11, <1>12, <1>13, <1>14, <1>15, <1>16, <1>17, <1>18, <1>20 DEF Ended

LEMMA WaitedEnded ==
    ASSUME NEW l, NEW v, NEW n \in Nat, NEW s \in Nat, NEW t, NEW c \in CallState,
           Busy(l, v, n, s, t, c), c.waiting
    PROVE  Ended(l, v, n, s, t, c)
  BY DEF Busy, Ended, Assigns, CallKnown, Fresh

(* A deadlock waits for the rollbacks of the call's keys.                  *)
LEMMA WaitsBusy ==
    ASSUME NEW l, NEW v, NEW n \in Nat, NEW s \in Nat, NEW t, NEW c \in CallState,
           Busy(l, v, n, s, t, c), c.err = "deadlock", c.todo = {}, NEW u, u = RolledBack(t, c),
           NEW d, d = [c EXCEPT !.waiting = TRUE]
    PROVE  Busy(l, v, n, s, u, d) /\ d \in CallState /\ Recorded(u) = Recorded(t)
<1>1. Ended(l, v, n, s, u, c) /\ HeldBy(u) = HeldBy(t) /\ Recorded(u) = Recorded(t)
      /\ u.primary = t.primary /\ u.agg = t.agg
  BY FailsEnded
<1>2. /\ d \in CallState /\ d.keys = c.keys /\ d.todo = c.todo /\ d.mode = c.mode
      /\ d.err = c.err /\ d.lwc = c.lwc /\ d.absent = c.absent
  BY DEF CallState
<1>3. d.waiting /\ (d.assigned <=> c.assigned)
  BY DEF CallState
<1>4. d # NoCall /\ \A k : lwcOf(d, k) = lwcOf(c, k)
  <2>1. d # NoCall
    BY <1>2, CallFacts
  <2>2. \A k : lwcOf(d, k) = lwcOf(c, k)
    BY <1>2 DEF lwcOf
  <2> QED BY <2>1, <2>2
<1>5. NothingKept(l, u)
  BY <1>1 DEF Ended, NothingKept
<1>6. Fresh(l, n, s, "some", u, d)
  <2>1. u.primary # NoKey /\ s <= n /\ u.fts <= s
    BY <1>1 DEF Ended
  <2> QED BY <1>3, <1>4, <2>1 DEF Fresh
<1>7. Accounted(l, u, d)
  BY <1>1, <1>2 DEF Ended, Accounted
<1>8. Assigns(l, u, d)
  BY <1>1, <1>2, <1>3 DEF Ended, Assigns, Busy
<1>9. CallKnown(l, v, n, s, u, d)
  <2>1. t.fts = s /\ u.fts = s
    BY <1>1 DEF Busy, CallKnown, Ended
  <2>2. \A k \in d.keys : /\ l[k] # NoLock => l[k].fts <= MaxOf(u.fts, lwcOf(d, k))
                          /\ Covered(l, u, k)
                          /\ k \in d.absent /\ l[k] # NoLock => v[k] = 0
    BY <1>1, <1>2, <1>4, <2>1 DEF Busy, CallKnown, Ended
  <2>3. /\ d.keys \cap Recorded(u) = {} /\ d.todo \subseteq d.keys
        /\ d.absent \subseteq d.keys \ d.todo /\ DOMAIN d.lwc \subseteq d.keys \ d.todo
        /\ d.todo # d.keys
    BY <1>1, <1>2, CallFacts DEF Busy, CallKnown
  <2>4. /\ u.agg.on => \E i \in Keys : d.keys = {i}
        /\ ~u.agg.on => DOMAIN d.lwc = {}
        /\ d.mode = "ifExists" => DOMAIN u.agg.last = {}
        /\ \A k \in DOMAIN d.lwc : d.lwc[k] <= n
    BY <1>1, <1>2 DEF Busy, CallKnown
  <2> QED BY <1>2, <2>1, <2>2, <2>3, <2>4 DEF CallKnown
<1> QED BY <1>1, <1>2, <1>5, <1>6, <1>7, <1>8, <1>9 DEF Ended, Busy

UnsetResult(t, u) ==
    /\ u \in TxnState /\ SameRecords(t, u) /\ u.primary = NoKey /\ u.fts = t.fts
    /\ u.ttl = NoKey /\ u.beat = "none" /\ u.lockedCnt = t.lockedCnt /\ u.agg = t.agg /\ u.bg = t.bg

LEMMA UnsetFacts ==
    ASSUME NEW t \in TxnState
    PROVE  UnsetResult(t, resetPrimary(t, FALSE))
<1>1. PICK w : w = [t EXCEPT !.primary = NoKey]
  OBVIOUS
<1>2. /\ w \in TxnState /\ SameRecords(t, w) /\ w.primary = NoKey /\ w.fts = t.fts
      /\ w.lockedCnt = t.lockedCnt /\ w.agg = t.agg /\ w.bg = t.bg
  BY <1>1 DEF TxnState, SameRecords, KeyOrNone
<1>3. resetPrimary(t, FALSE) = reset(w)
  BY <1>1 DEF resetPrimary
<1>4. PICK u : u = reset(w)
  OBVIOUS
<1>5. /\ u \in TxnState /\ SameRecords(w, u) /\ u.primary = w.primary /\ u.fts = w.fts
      /\ u.ttl = NoKey /\ u.lockedCnt = w.lockedCnt /\ u.agg = w.agg /\ u.bg = w.bg
  BY <1>2, <1>4, ResetFacts
<1>6. u.beat = "none"
  BY <1>2, <1>4, ResetFacts
<1>7. SameRecords(t, u)
  BY <1>2, <1>5 DEF SameRecords
<1> QED BY <1>2, <1>3, <1>4, <1>5, <1>6, <1>7 DEF UnsetResult

(* The primary that the call chose is forgotten with the call.             *)
Forgets(t, c) == IF c.assigned THEN resetPrimary(t, FALSE) ELSE t

Returned(l, v, n, s, t, c, u) ==
    /\ Quiet(l, v, n, u) /\ Fresh(l, n, s, "failed", u, NoCall)
    /\ HeldBy(u) = HeldBy(t) /\ Recorded(u) = Recorded(t)
    /\ u.fts = t.fts /\ u.bg = t.bg /\ u.agg = t.agg
    /\ u.primary = IF c.assigned THEN NoKey ELSE t.primary

LEMMA ReturnsQuiet ==
    ASSUME NEW l, NEW v, NEW n \in Nat, NEW s \in Nat, NEW t, NEW c \in CallState,
           Ended(l, v, n, s, t, c), NEW u,
           u = Forgets(t, c)
    PROVE  Returned(l, v, n, s, t, c, u)
<1>1. t \in TxnState
  BY TxnType DEF Ended, Tidy
<1>2. Accounted(l, t, NoCall)
  BY DEF Ended, Accounted, NoCall
<1>3. CASE ~c.assigned
  <2>1. u = t
    BY <1>3 DEF Forgets
  <2>2. NothingKept(l, t) /\ Fresh(l, n, s, "failed", t, NoCall)
    BY <1>1, TxnFacts DEF Ended, NothingKept, Fresh
  <2> QED BY <1>2, <1>3, <2>1, <2>2 DEF Ended, Quiet, Returned
<1>4. CASE c.assigned
  <2>1. UnsetResult(t, u)
    BY <1>1, <1>4, UnsetFacts DEF Forgets
  <2>2. /\ u \in TxnState /\ u.flags = t.flags /\ u.checks = t.checks /\ u.maxLWC = t.maxLWC
        /\ u.notExist = t.notExist /\ u.primary = NoKey /\ u.fts = t.fts /\ u.ttl = NoKey /\ u.beat = "none"
        /\ u.lockedCnt = t.lockedCnt /\ u.agg = t.agg /\ u.bg = t.bg
    BY <2>1 DEF UnsetResult, SameRecords
  <2>3. HeldBy(u) = HeldBy(t) /\ Recorded(u) = Recorded(t) /\ HeldBy(u) = {} /\ t.flags = {}
        /\ (t.agg.on => t.agg.assigned /\ t.agg.primary = t.primary)
    BY <1>4, <2>2 DEF HeldBy, Recorded, Ended
  <2>4. \A k : (Safe(l, u, k) <=> Safe(l, t, k)) /\ (Covered(l, u, k) <=> Covered(l, t, k))
    BY <2>2 DEF Safe, Covered
  <2>5. Tidy(u)
    BY <2>2, <2>3, TxnType DEF Ended, Tidy
  <2>6. Bounded(l, v, n, u)
    BY <2>2 DEF Ended, Bounded
  <2>7. t.agg.on /\ DOMAIN t.agg.last # {} => t.agg.lastPrimary # NoKey
    BY <2>3 DEF Ended, PrimaryKnown
  <2>8. PrimaryKnown(u)
    BY <2>2, <2>3, <2>7 DEF Ended, PrimaryKnown
  <2>9. HeldKept(l, u) /\ RecordsRight(l, u) /\ AbsentKnown(l, v, u)
    BY <2>2, <2>3 DEF Ended, HeldKept, RecordsRight, AbsentKnown
  <2>10. LastKept(l, u)
    <3>1. DOMAIN t.agg.last # {} => t.agg.lastPrimary # NoKey
      BY <1>1, <2>7, TxnFacts DEF Ended, Tidy
    <3>2. DOMAIN t.agg.last # {} => t.agg.on
      BY <1>1, TxnFacts DEF Ended, Tidy
    <3>3. DOMAIN t.agg.last # {} => ~Claimable(u)
      BY <2>2, <2>3, <3>1, <3>2 DEF Claimable
    <3> QED BY <2>2, <2>4, <3>1, <3>3 DEF Ended, LastKept
  <2>11. NothingKept(l, u)
    BY <2>2, <2>3 DEF NothingKept
  <2>12. Accounted(l, u, NoCall)
    BY <1>2, <2>3, <2>4 DEF Accounted
  <2>13. Fresh(l, n, s, "failed", u, NoCall)
    <3>1. s <= n /\ u.fts = s
      BY <2>2 DEF Ended
    <3>2. u.fts <= s
      BY <3>1
    <3> QED BY <3>1, <3>2 DEF Fresh
  <2> QED BY <1>4, <2>2, <2>3, <2>5, <2>6, <2>8, <2>9, <2>10, <2>11, <2>12, <2>13 DEF Quiet, Returned
<1> QED BY <1>3, <1>4, CallFacts

(* The keys that the call has locked are recorded.                         *)
Locked(c) == IF c.mode = "ifExists" THEN c.keys \ c.absent ELSE c.keys

EntryFor(t, c, k) ==
    [hasValue |-> ReturnValues(c.mode), lwc |-> lwcOf(c, k),
     exists |-> k \notin c.absent /\ (lwcOf(c, k) # 0 \/ ReturnValues(c.mode)),
     fts |-> MaxOf(t.fts, lwcOf(c, k))]

Records(t, c, L) ==
    LET u == IF t.agg.on
             THEN [t EXCEPT !.agg.cur = Merge([k \in L |-> EntryFor(t, c, k)], @)]
             ELSE [t EXCEPT !.flags = @ \cup L, !.notExist = @ \cup (L \cap c.absent)]
    IN [u EXCEPT !.lockedCnt = @ + Cardinality(L)]

RecordsResult(t, c, L, u) ==
    /\ u \in TxnState /\ u.checks = t.checks /\ u.maxLWC = t.maxLWC /\ u.primary = t.primary
    /\ u.fts = t.fts /\ u.ttl = t.ttl /\ u.beat = t.beat /\ u.bg = t.bg
    /\ u.lockedCnt = t.lockedCnt + Cardinality(L)
    /\ SameAttempt(t.agg, u.agg) /\ u.agg.last = t.agg.last /\ u.agg.primary = t.agg.primary
    /\ (u.agg.assigned <=> t.agg.assigned)
    /\ ~t.agg.on => /\ u.agg = t.agg /\ u.flags = t.flags \cup L
                    /\ u.notExist = t.notExist \cup (L \cap c.absent)
    /\ t.agg.on => /\ u.flags = t.flags /\ DOMAIN u.agg.cur = DOMAIN t.agg.cur \cup L
                   /\ u.notExist = t.notExist
                   /\ \A k \in L : u.agg.cur[k].fts = MaxOf(t.fts, lwcOf(c, k))
                   /\ \A k \in L : Missing(u.agg.cur, k) => k \in c.absent
                   /\ \A k \in DOMAIN t.agg.cur \ L : u.agg.cur[k] = t.agg.cur[k]

LEMMA EntryFacts ==
    ASSUME NEW t \in TxnState, NEW c, NEW k, lwcOf(c, k) \in Nat
    PROVE  /\ EntryFor(t, c, k) \in Entry /\ EntryFor(t, c, k).fts = MaxOf(t.fts, lwcOf(c, k))
           /\ EntryFor(t, c, k).hasValue /\ ~EntryFor(t, c, k).exists => k \in c.absent
<1>1. PICK h \in BOOLEAN : h = ReturnValues(c.mode)
  <2>1. ReturnValues(c.mode) \in BOOLEAN
    BY DEF ReturnValues
  <2> QED BY <2>1, Zenon
<1>2. PICK e \in BOOLEAN : e = (k \notin c.absent /\ (lwcOf(c, k) # 0 \/ ReturnValues(c.mode)))
  OBVIOUS
<1>3. PICK f \in Nat : f = MaxOf(t.fts, lwcOf(c, k))
  BY TxnFacts, MaxFacts
<1>4. EntryFor(t, c, k) = [hasValue |-> h, lwc |-> lwcOf(c, k), exists |-> e, fts |-> f]
  BY <1>1, <1>2, <1>3, Zenon DEF EntryFor
<1>5. h /\ ~e => k \in c.absent
  BY <1>1, <1>2, Zenon
<1> QED BY <1>3, <1>4, <1>5 DEF Entry

LEMMA RecordsFacts ==
    ASSUME NEW t \in TxnState, NEW c, NEW L \in SUBSET Keys, \A k \in L : lwcOf(c, k) \in Nat
    PROVE  RecordsResult(t, c, L, Records(t, c, L))
<1>1. PICK x \in Int : x = t.lockedCnt + Cardinality(L)
  BY TxnFacts, SetFacts
<1>2. CASE ~t.agg.on
  <2>1. PICK u : u = [t EXCEPT !.flags = t.flags \cup L, !.lockedCnt = x,
                               !.notExist = t.notExist \cup (L \cap c.absent)]
    OBVIOUS
  <2>2. Records(t, c, L) = u
    BY <1>1, <1>2, <2>1 DEF Records, TxnState
  <2>3. u \in TxnState /\ u.checks = t.checks /\ u.maxLWC = t.maxLWC /\ u.primary = t.primary
        /\ u.fts = t.fts /\ u.ttl = t.ttl /\ u.bg = t.bg /\ u.lockedCnt = x
        /\ u.agg = t.agg /\ u.flags = t.flags \cup L
        /\ u.notExist = t.notExist \cup (L \cap c.absent)
    BY <2>1 DEF TxnState
  <2>4. u.beat = t.beat
    BY <2>1 DEF TxnState
  <2> QED BY <1>1, <1>2, <2>2, <2>3, <2>4 DEF RecordsResult, SameAttempt
<1>3. CASE t.agg.on
  <2>1. PICK g : g = [k \in L |-> EntryFor(t, c, k)]
    OBVIOUS
  <2>2. g \in [L -> Entry] /\ DOMAIN g = L /\ \A k \in L : g[k].fts = MaxOf(t.fts, lwcOf(c, k))
    BY <2>1, EntryFacts
  <2>15. \A k \in L : g[k].hasValue /\ ~g[k].exists => k \in c.absent
    BY <2>1, EntryFacts
  <2>3. g \in EntryMaps /\ t.agg.cur \in EntryMaps
    BY <2>2, MakeMap, TxnFacts
  <2>4. PICK cu : cu = Merge(g, t.agg.cur)
    OBVIOUS
  <2>5. /\ cu \in EntryMaps /\ DOMAIN cu = L \cup DOMAIN t.agg.cur
        /\ \A k \in L : cu[k] = g[k]
        /\ \A k \in DOMAIN t.agg.cur \ L : cu[k] = t.agg.cur[k]
    BY <2>2, <2>3, <2>4, JoinEntries
  <2>6. PICK b : b = [t.agg EXCEPT !.cur = cu]
    OBVIOUS
  <2>7. b \in Context /\ b.last = t.agg.last /\ b.cur = cu /\ b.primary = t.agg.primary
    BY <2>5, <2>6, TxnFacts DEF Context
  <2>8. SameAttempt(t.agg, b) /\ (b.assigned <=> t.agg.assigned)
    BY <2>6, TxnFacts DEF Context, SameAttempt
  <2>9. PICK u : u = [t EXCEPT !.agg = b, !.lockedCnt = x]
    OBVIOUS
  <2>10. Records(t, c, L) = u
    <3>1. PICK w : w = [t EXCEPT !.agg.cur = Merge(g, @)]
      OBVIOUS
    <3>2. w = [t EXCEPT !.agg = b]
      BY <2>4, <2>6, <3>1 DEF TxnState, Context
    <3>3. Records(t, c, L) = [w EXCEPT !.lockedCnt = @ + Cardinality(L)]
      BY <1>3, <2>1, <3>1 DEF Records
    <3> QED BY <1>1, <2>9, <3>2, <3>3 DEF TxnState
  <2>11. u \in TxnState /\ u.checks = t.checks /\ u.maxLWC = t.maxLWC /\ u.primary = t.primary
         /\ u.fts = t.fts /\ u.ttl = t.ttl /\ u.bg = t.bg /\ u.lockedCnt = x
         /\ u.agg = b /\ u.flags = t.flags /\ u.notExist = t.notExist
    BY <2>7, <2>9 DEF TxnState
  <2>12. u.beat = t.beat
    BY <2>9 DEF TxnState
  <2>13. /\ DOMAIN u.agg.cur = DOMAIN t.agg.cur \cup L
         /\ \A k \in L : u.agg.cur[k].fts = MaxOf(t.fts, lwcOf(c, k))
         /\ \A k \in DOMAIN t.agg.cur \ L : u.agg.cur[k] = t.agg.cur[k]
    BY <2>2, <2>5, <2>7, <2>11
  <2>14. \A k \in L : Missing(u.agg.cur, k) => k \in c.absent
    <3>1. u.agg.cur = cu
      BY <2>7, <2>11
    <3>2. \A k \in L : u.agg.cur[k].hasValue /\ ~u.agg.cur[k].exists => k \in c.absent
      <4> SUFFICES ASSUME NEW k \in L, u.agg.cur[k].hasValue, ~u.agg.cur[k].exists
                   PROVE  k \in c.absent
        OBVIOUS
      <4>1. u.agg.cur[k] = g[k]
        BY <2>5, <3>1
      <4> QED BY <2>15, <4>1
    <3> QED BY <3>2 DEF Missing
  <2> QED BY <1>1, <1>3, <2>7, <2>8, <2>10, <2>11, <2>12, <2>13, <2>14 DEF RecordsResult
<1> QED BY <1>2, <1>3, TxnFacts

LEMMA RecordsNone ==
    ASSUME NEW t \in TxnState, NEW c
    PROVE  Records(t, c, {}) = t
<1>1. Cardinality({}) = 0 /\ t.lockedCnt + 0 = t.lockedCnt
  BY FS_EmptySet, TxnFacts
<1>2. CASE ~t.agg.on
  BY <1>1, <1>2 DEF Records, TxnState
<1>3. CASE t.agg.on
  <2>1. PICK g : g = [k \in {} |-> EntryFor(t, c, k)]
    OBVIOUS
  <2>2. DOMAIN g = {}
    BY <2>1
  <2>3. Merge(g, t.agg.cur) = t.agg.cur
    <3>1. PICK D : t.agg.cur \in [D -> Entry]
      BY TxnFacts DEF EntryMaps, Maps
    <3>2. PICK f : f = Merge(g, t.agg.cur)
      OBVIOUS
    <3>3. f = [k \in D |-> t.agg.cur[k]]
      BY <2>2, <3>1, <3>2 DEF Merge
    <3>4. t.agg.cur = [k \in D |-> t.agg.cur[k]]
      BY <3>1
    <3> QED BY <3>2, <3>3, <3>4
  <2>4. PICK w : w = [t EXCEPT !.agg.cur = Merge(g, @)]
    OBVIOUS
  <2>5. w = [t EXCEPT !.agg = [t.agg EXCEPT !.cur = t.agg.cur]]
    BY <2>3, <2>4 DEF TxnState, Context
  <2>6. [t.agg EXCEPT !.cur = t.agg.cur] = t.agg
    BY TxnFacts DEF Context
  <2>7. w = t
    BY <2>5, <2>6 DEF TxnState
  <2>8. Records(t, c, {}) = [w EXCEPT !.lockedCnt = @ + Cardinality({})]
    BY <1>3, <2>1, <2>4 DEF Records
  <2> QED BY <1>1, <2>7, <2>8 DEF TxnState
<1> QED BY <1>2, <1>3, TxnFacts

(* The call has locked all its keys, or found that they do not exist.      *)
AllDone(l, v, n, s, t, c) ==
    /\ ~c.waiting /\ Locked(c) \subseteq c.keys /\ c.keys \in SUBSET Keys
    /\ t.fts = s /\ s <= n
    /\ \A k \in Locked(c) : /\ Kept(l, t, k, t.primary) /\ Safe(l, t, k)
                            /\ l[k] # NoLock => /\ l[k].fts = MaxOf(t.fts, lwcOf(c, k))
                                                /\ c.mode = "insert" => v[k] = 0
    /\ \A k \in c.absent : l[k] # NoLock => v[k] = 0
    /\ \A k \in c.keys \ Locked(c) : Covered(l, t, k)
    /\ \A k \in Keys : l[k] # NoLock /\ l[k].fts >= s => k \in HeldBy(t) \cup Locked(c)

LEMMA DoneParts ==
    ASSUME NEW l, NEW v, NEW n \in Nat, NEW s \in Nat, NEW t, NEW c \in CallState,
           Busy(l, v, n, s, t, c), c.err = "nil", c.todo = {}
    PROVE  AllDone(l, v, n, s, t, c)
<1>1. t \in TxnState /\ c.keys \in SUBSET Keys
  BY TxnType, CallFacts DEF Busy, Tidy
<1>2. ~c.waiting /\ t.fts = s /\ s <= n /\ \A r \in t.bg : r.fts < s
  BY DEF Busy, CallKnown, Fresh
<1>3. Locked(c) \subseteq c.keys
  BY DEF Locked
<1>4. ASSUME NEW k \in Locked(c)
      PROVE  /\ Kept(l, t, k, t.primary) /\ Safe(l, t, k)
             /\ l[k] # NoLock => /\ l[k].fts = MaxOf(t.fts, lwcOf(c, k))
                                 /\ c.mode = "insert" => v[k] = 0
  <2>1. /\ Kept(l, t, k, t.primary)
        /\ l[k] # NoLock => /\ l[k].fts = MaxOf(t.fts, lwcOf(c, k))
                            /\ c.mode = "insert" => v[k] = 0
    BY <1>3 DEF Busy, CallKnown, Locked
  <2>2. lwcOf(c, k) \in Nat
    BY <1>3, LargestLWC DEF Busy
  <2>3. l[k] # NoLock => l[k].fts \in Nat /\ l[k].fts >= s
    BY <1>2, <2>1, <2>2, MaxFacts
  <2>4. \A r \in t.bg : r.fts \in Nat
    BY <1>1, TxnFacts
  <2>5. Safe(l, t, k)
    BY <1>2, <2>3, <2>4 DEF Safe
  <2> QED BY <2>1, <2>5
<1>5. \A k \in c.keys \ Locked(c) : Covered(l, t, k)
  BY DEF Busy, CallKnown, Locked
<1>6. ASSUME NEW k \in Keys, l[k] # NoLock, l[k].fts >= s PROVE k \in HeldBy(t) \cup Locked(c)
  <2>1. k \in HeldBy(t) \/ k \in c.keys
    BY <1>2, <1>6, CallFacts DEF Busy, Fresh
  <2>2. k \in c.keys \ Locked(c) => FALSE
    <3> SUFFICES ASSUME k \in c.keys \ Locked(c) PROVE FALSE
      OBVIOUS
    <3>1. PICK r \in t.bg : r.fts >= l[k].fts
      BY <1>5, <1>6 DEF Covered
    <3>2. r.fts \in Nat /\ l[k].fts \in Nat /\ r.fts < s
      BY <1>1, <1>2, TxnFacts, LockFacts DEF Busy
    <3> QED BY <1>6, <3>1, <3>2
  <2> QED BY <2>1, <2>2
<1>7. \A k \in c.absent : l[k] # NoLock => v[k] = 0
  BY DEF Busy, CallKnown
<1> QED BY <1>1, <1>2, <1>3, <1>4, <1>5, <1>6, <1>7 DEF AllDone

LEMMA RecordedQuiet ==
    ASSUME NEW l, NEW v, NEW n \in Nat, NEW s \in Nat, NEW t, NEW c \in CallState,
           Busy(l, v, n, s, t, c), c.err = "nil", c.todo = {},
           t.agg.on => MaxLWC(c) <= t.agg.maxLWC,
           ~(c.assigned /\ c.mode = "ifExists" /\ t.primary \in c.absent),
           NEW u, u = Records(t, c, Locked(c))
    PROVE  /\ Quiet(l, v, n, u) /\ Fresh(l, n, s, "some", u, NoCall)
           /\ Recorded(u) = Recorded(t) \cup Locked(c)
<1>1. t \in TxnState /\ c.keys \in SUBSET Keys
  BY TxnType, CallFacts DEF Busy, Tidy
<1> DEFINE L == Locked(c)
<1>2. /\ ~c.waiting /\ L \subseteq c.keys /\ t.fts = s /\ s <= n
      /\ \A k \in L : /\ Kept(l, t, k, t.primary) /\ Safe(l, t, k)
                      /\ l[k] # NoLock => l[k].fts = MaxOf(t.fts, lwcOf(c, k))
      /\ \A k \in c.keys \ L : Covered(l, t, k)
      /\ \A k \in Keys : l[k] # NoLock /\ l[k].fts >= s => k \in HeldBy(t) \cup L
  <2>1. AllDone(l, v, n, s, t, c)
    BY DoneParts
  <2>2. ~c.waiting /\ L \subseteq c.keys /\ t.fts = s /\ s <= n
    BY <2>1 DEF AllDone
  <2>3. \A k \in L : /\ Kept(l, t, k, t.primary) /\ Safe(l, t, k)
                     /\ l[k] # NoLock => l[k].fts = MaxOf(t.fts, lwcOf(c, k))
    BY <2>1 DEF AllDone
  <2>4. \A k \in c.keys \ L : Covered(l, t, k)
    BY <2>1 DEF AllDone
  <2>5. \A k \in Keys : l[k] # NoLock /\ l[k].fts >= s => k \in HeldBy(t) \cup L
    BY <2>1 DEF AllDone
  <2> HIDE DEF L
  <2> QED BY <2>2, <2>3, <2>4, <2>5
<1> HIDE DEF L
<1>3. /\ MaxLWC(c) \in Nat
      /\ \A k \in L : lwcOf(c, k) \in Nat /\ lwcOf(c, k) <= MaxLWC(c)
      /\ ~t.agg.on => \A k \in L : lwcOf(c, k) = 0
  <2>1. CallKnown(l, v, n, s, t, c)
    BY DEF Busy
  <2> QED BY <1>2, <2>1, LargestLWC
<1>4. RecordsResult(t, c, L, u)
  BY <1>1, <1>2, <1>3, RecordsFacts DEF L
<1>5. /\ u \in TxnState /\ u.checks = t.checks /\ u.maxLWC = t.maxLWC /\ u.primary = t.primary
      /\ u.fts = t.fts /\ u.ttl = t.ttl /\ u.beat = t.beat /\ u.bg = t.bg
      /\ u.lockedCnt = t.lockedCnt + Cardinality(L)
      /\ u.agg.last = t.agg.last /\ u.agg.primary = t.agg.primary
      /\ (u.agg.assigned <=> t.agg.assigned)
  BY <1>4 DEF RecordsResult
<1>6. /\ ~t.agg.on => /\ u.agg = t.agg /\ u.flags = t.flags \cup L
                      /\ u.notExist = t.notExist \cup (L \cap c.absent)
      /\ t.agg.on => /\ u.flags = t.flags /\ DOMAIN u.agg.cur = DOMAIN t.agg.cur \cup L
                     /\ u.notExist = t.notExist
                     /\ \A k \in L : Missing(u.agg.cur, k) => k \in c.absent
                     /\ \A k \in L : u.agg.cur[k].fts = MaxOf(t.fts, lwcOf(c, k))
                     /\ \A k \in DOMAIN t.agg.cur \ L : u.agg.cur[k] = t.agg.cur[k]
  BY <1>4 DEF RecordsResult
<1>7. /\ (u.agg.on <=> t.agg.on) /\ u.agg.lastPrimary = t.agg.lastPrimary
      /\ (u.agg.lastAssigned <=> t.agg.lastAssigned) /\ u.agg.maxLWC = t.agg.maxLWC
      /\ (u.agg.lastOld <=> t.agg.lastOld)
  BY <1>4 DEF RecordsResult, SameAttempt
<1>8. /\ HeldBy(u) = HeldBy(t) \cup L /\ Recorded(u) = Recorded(t) \cup L
      /\ L \cap Recorded(t) = {} /\ Recorded(t) \in SUBSET Keys /\ L \in SUBSET Keys
  <2>1. HeldBy(u) = HeldBy(t) \cup L
    BY <1>1, <1>6, TxnFacts DEF HeldBy
  <2>2. Recorded(u) = Recorded(t) \cup L
    BY <1>5, <2>1 DEF Recorded
  <2>3. c.keys \cap Recorded(t) = {}
    BY DEF Busy, CallKnown
  <2>4. Recorded(t) \in SUBSET Keys
    BY <1>1, TxnFacts DEF Recorded, HeldBy
  <2> QED BY <1>1, <1>2, <2>1, <2>2, <2>3, <2>4
<1>9. \A k : (Safe(l, u, k) <=> Safe(l, t, k)) /\ (Covered(l, u, k) <=> Covered(l, t, k))
  BY <1>5 DEF Safe, Covered
<1>10. Tidy(u)
  <2>1. Cardinality(Recorded(u)) = Cardinality(Recorded(t)) + Cardinality(L)
    BY <1>8, Counts
  <2>2. u.lockedCnt >= Cardinality(Recorded(u))
    BY <1>1, <1>5, <1>8, <2>1, SetFacts, TxnFacts DEF Busy, Tidy
  <2>3. /\ u.flags \cap DOMAIN u.agg.cur = {} /\ DOMAIN u.checks \subseteq u.flags
        /\ u.notExist \subseteq u.flags /\ (u.beat # "none" => u.ttl # NoKey)
        /\ ~u.agg.on => DOMAIN u.agg.cur = {} /\ DOMAIN u.agg.last = {} /\ ~u.agg.assigned
    <3>1. L \cap t.flags = {}
      BY <1>8 DEF Recorded, HeldBy
    <3>2. CASE t.agg.on
      BY <1>5, <1>6, <1>7, <3>1, <3>2 DEF Busy, Tidy
    <3>3. CASE ~t.agg.on
      BY <1>5, <1>6, <1>7, <3>3 DEF Busy, Tidy
    <3> QED BY <3>2, <3>3
  <2>4. HeldBy(u) \cap DOMAIN u.agg.last = {}
    BY <1>5, <1>8 DEF Busy, Tidy, Recorded
  <2> QED BY <1>5, <2>2, <2>3, <2>4, TxnType DEF Tidy
<1>11. Bounded(l, v, n, u)
  BY <1>5, <1>7 DEF Busy, Bounded
<1>12. t.primary # NoKey /\ (~c.assigned => HeldBy(t) # {})
       /\ (c.assigned => HeldBy(t) = {} /\ (t.agg.on => t.agg.assigned) /\ t.primary \in c.keys)
  BY DEF Busy, Assigns
<1>13. PrimaryKnown(u)
  <2>1. CASE t.agg.on
    BY <1>5, <1>6, <1>7, <2>1 DEF Busy, PrimaryKnown
  <2>2. CASE ~t.agg.on
    BY <1>7, <2>2 DEF PrimaryKnown
  <2> QED BY <2>1, <2>2
<1>14. HeldKept(l, u)
  <2>1. \A k \in HeldBy(u) : Kept(l, u, k, u.primary) /\ Safe(l, u, k)
    BY <1>2, <1>5, <1>8, <1>9 DEF Busy, HeldKept, Kept
  <2>2. u.primary \in HeldBy(u) /\ u.ttl = u.primary /\ u.beat # "none"
    <3>1. CASE c.assigned
      <4>1. t.ttl = t.primary /\ t.beat # "none"
        BY <1>2, <3>1 DEF Busy, Assigns
      <4>2. t.primary \in L
        BY <1>12, <3>1 DEF L, Locked
      <4> QED BY <1>5, <1>8, <4>1, <4>2
    <3>2. CASE ~c.assigned
      BY <1>5, <1>8, <1>12, <3>2 DEF Busy, HeldKept
    <3> QED BY <3>1, <3>2
  <2> QED BY <2>1, <2>2 DEF HeldKept
<1>15. RecordsRight(l, u)
  <2>1. \A k \in DOMAIN u.checks : l[k] # NoLock => l[k].fts = u.checks[k]
    BY <1>5 DEF Busy, RecordsRight
  <2>2. CASE t.agg.on
    <3>1. \A k \in u.flags : l[k].fts <= MaxOf(u.fts, u.maxLWC)
      BY <1>5, <1>6, <2>2 DEF Busy, RecordsRight
    <3>2. ASSUME NEW k \in DOMAIN u.agg.cur
          PROVE  /\ l[k] # NoLock => l[k].fts = u.agg.cur[k].fts
                 /\ l[k].fts <= MaxOf(u.fts, u.agg.maxLWC)
      <4>1. CASE k \in L
        <5>1. /\ t.fts \in Nat /\ t.agg.maxLWC \in Nat /\ lwcOf(c, k) \in Nat
              /\ lwcOf(c, k) <= t.agg.maxLWC
          BY <1>1, <1>3, <2>2, <4>1, TxnFacts
        <5>2. /\ MaxOf(t.fts, lwcOf(c, k)) <= MaxOf(t.fts, t.agg.maxLWC)
              /\ 0 <= MaxOf(t.fts, t.agg.maxLWC)
          BY <5>1 DEF MaxOf
        <5> QED BY <1>2, <1>5, <1>6, <1>7, <2>2, <4>1, <5>2, NoLockTS
      <4>2. CASE k \notin L
        BY <1>5, <1>6, <1>7, <2>2, <4>2 DEF Busy, RecordsRight
      <4> QED BY <4>1, <4>2
    <3> QED BY <2>1, <3>1, <3>2 DEF RecordsRight
  <2>3. CASE ~t.agg.on
    <3>1. ASSUME NEW k \in u.flags PROVE l[k].fts <= MaxOf(u.fts, u.maxLWC)
      <4>1. CASE k \in L
        <5>1. t.fts \in Nat /\ t.maxLWC \in Nat /\ lwcOf(c, k) = 0
          BY <1>1, <1>3, <2>3, <4>1, TxnFacts
        <5>2. MaxOf(t.fts, 0) <= MaxOf(t.fts, t.maxLWC) /\ 0 <= MaxOf(t.fts, t.maxLWC)
          BY <5>1 DEF MaxOf
        <5> QED BY <1>2, <1>5, <4>1, <5>1, <5>2, NoLockTS
      <4>2. CASE k \in t.flags
        BY <1>5, <4>2 DEF Busy, RecordsRight
      <4> QED BY <1>6, <2>3, <4>1, <4>2
    <3>2. u.agg = t.agg /\ DOMAIN t.agg.cur = {}
      BY <1>6, <2>3 DEF Busy, Tidy
    <3> QED BY <2>1, <3>1, <3>2 DEF RecordsRight
  <2> QED BY <2>2, <2>3
<1>16. LastKept(l, u)
  <2>1. Claimable(u) <=> Claimable(t)
    BY <1>5, <1>7 DEF Claimable
  <2> QED BY <1>5, <1>7, <1>9, <2>1 DEF Busy, LastKept, Kept
<1>21. AbsentKnown(l, v, u)
  <2> SUFFICES ASSUME NEW k \in Keys, l[k] # NoLock,
                      k \in u.notExist \/ Missing(u.agg.cur, k) \/ Missing(u.agg.last, k)
               PROVE  v[k] = 0
    BY DEF AbsentKnown
  <2>1. CASE k \in c.absent
    BY <2>1 DEF Busy, CallKnown
  <2>2. CASE k \notin c.absent
    <3>1. k \in t.notExist \/ Missing(t.agg.cur, k) \/ Missing(t.agg.last, k)
      <4>1. CASE t.agg.on
        BY <1>5, <1>6, <2>2, <4>1 DEF Missing
      <4>2. CASE ~t.agg.on
        BY <1>5, <1>6, <2>2, <4>2
      <4> QED BY <4>1, <4>2
    <3> QED BY <3>1 DEF Busy, AbsentKnown
  <2> QED BY <2>1, <2>2
<1>17. NothingKept(l, u)
  BY <1>5, <1>12 DEF NothingKept
<1>18. Accounted(l, u, NoCall)
  <2> SUFFICES ASSUME NEW k \in Keys, k \notin Recorded(u) PROVE Covered(l, u, k)
    BY DEF Accounted
  <2>1. CASE k \in c.keys
    BY <1>2, <1>8, <1>9, <2>1
  <2>2. CASE k \notin c.keys
    BY <1>8, <1>9, <2>2 DEF Busy, Accounted
  <2> QED BY <2>1, <2>2
<1>19. Fresh(l, n, s, "some", u, NoCall)
  <2>1. \A r \in u.bg : r.fts < s
    BY <1>2, <1>5 DEF Busy, Fresh
  <2>2. \A k \in Keys : l[k] # NoLock /\ l[k].fts >= s => k \in HeldBy(u)
    BY <1>2, <1>8
  <2>3. u.fts <= s /\ u.primary # NoKey
    BY <1>2, <1>5, <1>12
  <2> QED BY <1>2, <2>1, <2>2, <2>3 DEF Fresh
<1>20. HeldBy(u) # {}
  <2>1. CASE c.assigned
    <3>1. t.primary \in L
      BY <1>12, <2>1 DEF L, Locked
    <3> QED BY <1>8, <3>1
  <2>2. CASE ~c.assigned
    BY <1>8, <1>12, <2>2
  <2> QED BY <2>1, <2>2
<1> QED BY <1>8, <1>10, <1>11, <1>13, <1>14, <1>15, <1>16, <1>17, <1>18, <1>19, <1>20, <1>21 DEF Quiet, L

(* The only key of a call that chose it as the primary does not exist.      *)
LEMMA AbsentQuiet ==
    ASSUME NEW l, NEW v, NEW n \in Nat, NEW s \in Nat, NEW t, NEW c \in CallState,
           Busy(l, v, n, s, t, c), c.err = "nil", c.todo = {},
           c.assigned, c.mode = "ifExists", t.primary \in c.absent,
           NEW u, u = Forgets(t, c)
    PROVE  /\ Quiet(l, v, n, u) /\ Fresh(l, n, s, "some", u, NoCall)
           /\ Recorded(u) = Recorded(t) /\ Locked(c) = {}
<1>1. Locked(c) = {}
  BY DEF Busy, Assigns, Locked
<1>2. AllDone(l, v, n, s, t, c)
  BY DoneParts
<1>3. /\ t.fts = s /\ s <= n /\ \A k \in c.keys : Covered(l, t, k)
      /\ \A k \in Keys : l[k] # NoLock /\ l[k].fts >= s => k \in HeldBy(t)
  BY <1>1, <1>2 DEF AllDone
<1>4. Ended(l, v, n, s, t, c)
  BY <1>2, <1>3 DEF Busy, Ended, Assigns, AllDone
<1>6. /\ Quiet(l, v, n, u) /\ HeldBy(u) = HeldBy(t) /\ u.fts = t.fts /\ u.bg = t.bg
      /\ u.agg = t.agg /\ Recorded(u) = Recorded(t)
  <2>1. Returned(l, v, n, s, t, c, u)
    BY <1>4, ReturnsQuiet
  <2> QED BY <2>1 DEF Returned
<1>7. (\A r \in t.bg : r.fts < s) /\ DOMAIN t.agg.last = {}
  <2>1. ~c.waiting
    BY <1>2 DEF AllDone
  <2> QED BY <2>1 DEF Busy, Fresh, CallKnown
<1>8. Fresh(l, n, s, "some", u, NoCall)
  <2>1. u.fts <= s
    BY <1>3, <1>6
  <2>2. /\ \A r \in u.bg : r.fts < s
        /\ \A k \in Keys : l[k] # NoLock /\ l[k].fts >= s => k \in HeldBy(u)
    BY <1>3, <1>6, <1>7
  <2>3. DOMAIN u.agg.last = {}
    BY <1>6, <1>7
  <2> QED BY <1>3, <2>1, <2>2, <2>3 DEF Fresh
<1> QED BY <1>1, <1>6, <1>8

-----------------------------------------------------------------------------
(* The background and the other transactions.                              *)

Open(l, v, n, s, cs, t, c) ==
    /\ Tidy(t) /\ Bounded(l, v, n, t) /\ PrimaryKnown(t) /\ HeldKept(l, t)
    /\ RecordsRight(l, t) /\ LastKept(l, t) /\ NothingKept(l, t) /\ AbsentKnown(l, v, t)
    /\ Fresh(l, n, s, cs, t, c) /\ Accounted(l, t, c)
    /\ c = NoCall /\ t.primary # NoKey => HeldBy(t) # {}
    /\ c # NoCall => Assigns(l, t, c) /\ CallKnown(l, v, n, s, t, c)

LEMMA OpenQuiet ==
    ASSUME NEW l, NEW v, NEW n, NEW s, NEW cs, NEW t
    PROVE  Open(l, v, n, s, cs, t, NoCall) <=> Quiet(l, v, n, t) /\ Fresh(l, n, s, cs, t, NoCall)
BY DEF Open, Quiet

LEMMA OpenBusy ==
    ASSUME NEW l, NEW v, NEW n, NEW s, NEW t, NEW c, c # NoCall
    PROVE  Open(l, v, n, s, "some", t, c) <=> Busy(l, v, n, s, t, c)
BY DEF Open, Busy

(* The call has locked k.                                                  *)
Granted(c, k) ==
    /\ c # NoCall /\ k \in c.keys /\ c.err = "nil" /\ k \notin c.todo
    /\ ~(c.mode = "ifExists" /\ k \in c.absent)

(* A lock goes that is neither held nor kept alive, or that keepAlive has   *)
(* given up.                                                               *)
LEMMA LockGone ==
    ASSUME NEW l, NEW v, NEW n \in Nat, NEW s, NEW cs, NEW t, NEW c,
           Open(l, v, n, s, cs, t, c), c # NoCall => c \in CallState, NEW k \in Keys,
           \/ t.beat = "over"
           \/ /\ k \notin HeldBy(t) /\ (k \in DOMAIN t.agg.last => t.agg.lastOld)
              /\ ~KeptAlive(l, t, k) /\ ~Granted(c, k),
           NEW m, m = [l EXCEPT ![k] = NoLock]
    PROVE  Open(m, v, n, s, cs, t, c)
<1>1. l \in [Keys -> [fts : 0..n, primary : KeyOrNone]]
  BY DEF Open, Bounded
<1>2. m[k] = NoLock /\ \A j \in Keys \ {k} : m[j] = l[j]
  BY <1>1
<1>3. m \in [Keys -> [fts : 0..n, primary : KeyOrNone]]
  BY <1>1 DEF NoLock, KeyOrNone
<1>4. t \in TxnState
  BY TxnType DEF Open, Tidy
<1>5. Tidy(t) /\ PrimaryKnown(t) /\ Bounded(m, v, n, t)
  BY <1>3 DEF Open, Bounded
<1>16. \A j \in Keys : \A p : (j # k \/ t.beat = "over") /\ Kept(l, t, j, p) => Kept(m, t, j, p)
  BY <1>2 DEF Kept
<1>6. \A j \in Keys : /\ Covered(l, t, j) => Covered(m, t, j)
                      /\ Safe(l, t, j) => Safe(m, t, j)
                      /\ KeptAlive(l, t, j) => KeptAlive(m, t, j)
  <2>1. \A j \in Keys : /\ Covered(l, t, j) => Covered(m, t, j)
                        /\ Safe(l, t, j) => Safe(m, t, j)
    BY <1>2 DEF Covered, Safe
  <2> QED BY <1>16, <2>1 DEF KeptAlive
<1>17. Covered(m, t, k) /\ Safe(m, t, k)
  BY <1>2 DEF Covered, Safe
<1>7. HeldBy(t) \in SUBSET Keys /\ DOMAIN t.agg.last \in SUBSET Keys
      /\ t.flags \in SUBSET HeldBy(t) /\ DOMAIN t.agg.cur \in SUBSET HeldBy(t)
      /\ DOMAIN t.checks \in SUBSET HeldBy(t)
  BY <1>4, TxnFacts DEF HeldBy, Open, Tidy
<1>8. HeldKept(m, t)
  BY <1>6, <1>7, <1>16 DEF Open, HeldKept
<1>9. RecordsRight(m, t)
  <2>1. \A j \in DOMAIN t.checks : m[j] # NoLock => m[j].fts = t.checks[j]
    BY <1>2, <1>7 DEF Open, RecordsRight
  <2>2. m[k].fts <= MaxOf(t.fts, t.maxLWC) /\ m[k].fts <= MaxOf(t.fts, t.agg.maxLWC)
    BY <1>2, <1>4, NoLockTS, TxnFacts DEF MaxOf
  <2>3. \A j \in t.flags : m[j].fts <= MaxOf(t.fts, t.maxLWC)
    BY <1>2, <1>7, <2>2 DEF Open, RecordsRight
  <2>4. \A j \in DOMAIN t.agg.cur : /\ m[j] # NoLock => m[j].fts = t.agg.cur[j].fts
                                    /\ m[j].fts <= MaxOf(t.fts, t.agg.maxLWC)
    BY <1>2, <1>7, <2>2 DEF Open, RecordsRight
  <2> QED BY <2>1, <2>3, <2>4 DEF RecordsRight
<1>10. LastKept(m, t)
  <2> SUFFICES ASSUME NEW j \in DOMAIN t.agg.last
               PROVE  /\ Safe(m, t, j)
                      /\ m[j] # NoLock => /\ m[j].fts = t.agg.last[j].fts
                                          /\ m[j].fts <= MaxOf(t.fts, t.agg.maxLWC)
                      /\ ~t.agg.lastOld /\ Claimable(t) =>
                            Kept(m, t, j, IF t.agg.lastPrimary # NoKey THEN t.agg.lastPrimary
                                          ELSE t.primary)
    BY DEF LastKept
  <2>1. j \in Keys /\ LastKept(l, t)
    BY <1>7 DEF Open
  <2>2. CASE j = k
    <3>1. t.agg.lastOld \/ t.beat = "over"
      BY <2>2
    <3> QED BY <1>2, <1>16, <1>17, <2>1, <2>2, <3>1 DEF LastKept
  <2>3. CASE j # k
    BY <1>2, <1>6, <1>16, <2>1, <2>3 DEF LastKept
  <2> QED BY <2>2, <2>3
<1>18. AbsentKnown(m, v, t)
  BY <1>2 DEF Open, AbsentKnown
<1>11. NothingKept(m, t)
  BY <1>6, <1>7 DEF Open, NothingKept
<1>12. Fresh(m, n, s, cs, t, c)
  BY <1>2 DEF Open, Fresh
<1>13. Accounted(m, t, c)
  BY <1>6 DEF Open, Accounted
<1>14. ASSUME c # NoCall PROVE Assigns(m, t, c)
  <2>1. Assigns(l, t, c)
    BY <1>14 DEF Open
  <2>2. t.primary \in Keys
    BY <1>4, <2>1, TxnFacts DEF Assigns, KeyOrNone
  <2> QED BY <1>6, <2>1, <2>2 DEF Assigns
<1>15. ASSUME c # NoCall PROVE CallKnown(m, v, n, s, t, c)
  <2>1. CallKnown(l, v, n, s, t, c)
    BY <1>15 DEF Open
  <2>2. c.keys \in SUBSET Keys
    BY <1>15, CallFacts
  <2>3. Granted(c, k) => t.beat = "over"
    OBVIOUS
  <2>4. ASSUME NEW j \in c.keys
        PROVE  /\ m[j] # NoLock => m[j].fts <= MaxOf(t.fts, lwcOf(c, j))
               /\ (j \in c.todo \/ (c.mode = "ifExists" /\ j \in c.absent)
                      \/ (c.err = "refused" /\ c.keys = {j})) =>
                     \/ Covered(m, t, j)
                     \/ t.agg.on /\ c.mode \in {"plain", "value"}
                     \/ j \in c.todo /\ c.mode = "insert" /\ v[j] = 0
               /\ j \in c.absent /\ m[j] # NoLock => v[j] = 0
               /\ c.err = "nil" /\ j \notin c.todo /\ ~(c.mode = "ifExists" /\ j \in c.absent) =>
                     /\ Kept(m, t, j, t.primary)
                     /\ m[j] # NoLock => /\ m[j].fts = MaxOf(t.fts, lwcOf(c, j))
                                         /\ c.mode = "insert" => v[j] = 0
    <3>1. CASE j = k
      BY <1>2, <1>15, <1>16, <1>17, <2>1, <2>3, <3>1 DEF CallKnown, Granted
    <3>2. CASE j # k
      BY <1>2, <1>6, <1>16, <2>1, <2>2, <3>2 DEF CallKnown
    <3> QED BY <3>1, <3>2
  <2>5. c.waiting => \A j \in c.keys : Covered(m, t, j)
    BY <1>6, <2>1, <2>2 DEF CallKnown
  <2> QED BY <2>1, <2>4, <2>5 DEF CallKnown
<1> QED BY <1>5, <1>8, <1>9, <1>10, <1>11, <1>12, <1>13, <1>14, <1>15, <1>18 DEF Open

(* What differs is at most the pending rollbacks.                          *)
SameButBG(t, u) ==
    /\ u \in TxnState /\ SameRecords(t, u) /\ u.primary = t.primary /\ u.fts = t.fts
    /\ u.ttl = t.ttl /\ u.beat = t.beat /\ u.lockedCnt = t.lockedCnt /\ u.agg = t.agg

LEMMA RanFacts ==
    ASSUME NEW t \in TxnState, NEW r, NEW u, u = [t EXCEPT !.bg = @ \ {r}]
    PROVE  SameButBG(t, u) /\ u.bg = t.bg \ {r}
<1>1. u.bg = t.bg \ {r} /\ t.bg \ {r} \in SUBSET [key : Keys, fts : Nat]
  BY DEF TxnState
<1>2. u \in TxnState
  BY <1>1 DEF TxnState
<1> QED BY <1>1, <1>2 DEF TxnState, SameButBG, SameRecords

(* A rollback that has nothing to remove has run.                          *)
Ran(l, v, n, t, r, u) ==
    /\ Tidy(u) /\ Bounded(l, v, n, u) /\ SameButBG(t, u) /\ u.bg = t.bg \ {r}
    /\ \A k \in Keys : /\ Covered(l, t, k) => Covered(l, u, k)
                       /\ Safe(l, t, k) => Safe(l, u, k)

LEMMA RollbackRan ==
    ASSUME NEW l, NEW v, NEW n \in Nat, NEW t, Tidy(t), Bounded(l, v, n, t), NEW r \in t.bg,
           ~(l[r.key] # NoLock /\ l[r.key].fts <= r.fts),
           NEW u, u = [t EXCEPT !.bg = @ \ {r}]
    PROVE  Ran(l, v, n, t, r, u)
<1>1. t \in TxnState
  BY TxnType DEF Tidy
<1>2. SameButBG(t, u) /\ u.bg = t.bg \ {r}
  BY <1>1, RanFacts
<1>3. r \in [key : Keys, fts : Nat]
  BY <1>1, TxnFacts
<1>4. ASSUME NEW k \in Keys, Covered(l, t, k) PROVE Covered(l, u, k)
  <2> SUFFICES ASSUME l[k] # NoLock PROVE \E q \in u.bg : q.key = k /\ q.fts >= l[k].fts
    BY DEF Covered
  <2>1. PICK q \in t.bg : q.key = k /\ q.fts >= l[k].fts
    BY <1>4 DEF Covered
  <2>2. l[k].fts \in Nat /\ q.fts \in Nat
    BY <1>1, TxnFacts, LockFacts
  <2>3. q # r
    BY <2>1, <2>2
  <2> QED BY <1>2, <2>1, <2>3
<1>5. \A k \in Keys : Safe(l, t, k) => Safe(l, u, k)
  BY <1>2 DEF Safe
<1>6. HeldBy(u) = HeldBy(t) /\ Recorded(u) = Recorded(t)
  BY <1>2 DEF SameButBG, SameRecords, HeldBy, Recorded
<1>7. Tidy(u)
  BY <1>2, <1>6, TxnType DEF SameButBG, SameRecords, Tidy
<1>8. Bounded(l, v, n, u)
  BY <1>2 DEF SameButBG, SameRecords, Bounded
<1> QED BY <1>2, <1>4, <1>5, <1>7, <1>8 DEF Ran

LEMMA RollbackRanOpen ==
    ASSUME NEW l, NEW v, NEW n \in Nat, NEW s, NEW cs, NEW t, NEW c,
           Open(l, v, n, s, cs, t, c), c # NoCall => c \in CallState, NEW r \in t.bg,
           ~(l[r.key] # NoLock /\ l[r.key].fts <= r.fts),
           NEW u, u = [t EXCEPT !.bg = @ \ {r}]
    PROVE  Open(l, v, n, s, cs, u, c) /\ Recorded(u) = Recorded(t)
<1>1. /\ Tidy(u) /\ Bounded(l, v, n, u) /\ SameButBG(t, u) /\ u.bg = t.bg \ {r}
      /\ \A k \in Keys : /\ Covered(l, t, k) => Covered(l, u, k)
                         /\ Safe(l, t, k) => Safe(l, u, k)
  <2>1. Tidy(t) /\ Bounded(l, v, n, t)
    BY DEF Open
  <2>2. Ran(l, v, n, t, r, u)
    BY <2>1, RollbackRan
  <2> QED BY <2>2 DEF Ran
<1>2. t \in TxnState
  BY TxnType DEF Open, Tidy
<1>3. /\ u.flags = t.flags /\ u.checks = t.checks /\ u.maxLWC = t.maxLWC
      /\ u.primary = t.primary /\ u.fts = t.fts /\ u.ttl = t.ttl /\ u.beat = t.beat
      /\ u.agg = t.agg /\ u.bg \subseteq t.bg /\ u.notExist = t.notExist
  BY <1>1 DEF SameButBG, SameRecords
<1>16. (\A k, p : Kept(l, u, k, p) <=> Kept(l, t, k, p)) /\ (Claimable(u) <=> Claimable(t))
  BY <1>3 DEF Kept, Claimable
<1>4. HeldBy(u) = HeldBy(t) /\ Recorded(u) = Recorded(t)
  BY <1>3 DEF HeldBy, Recorded
<1>5. /\ HeldBy(t) \in SUBSET Keys /\ DOMAIN t.agg.last \in SUBSET Keys
      /\ t.agg.lastPrimary \in KeyOrNone
  BY <1>2, TxnFacts DEF HeldBy
<1>6. \A k \in Keys : KeptAlive(l, t, k) => KeptAlive(l, u, k)
  BY <1>1, <1>3, <1>16 DEF KeptAlive
<1>7. PrimaryKnown(u)
  BY <1>3 DEF Open, PrimaryKnown
<1>8. HeldKept(l, u)
  BY <1>1, <1>3, <1>4, <1>5, <1>16 DEF Open, HeldKept
<1>9. RecordsRight(l, u) /\ AbsentKnown(l, v, u)
  BY <1>3 DEF Open, RecordsRight, AbsentKnown
<1>10. LastKept(l, u)
  BY <1>1, <1>3, <1>5, <1>16 DEF Open, LastKept
<1>11. NothingKept(l, u)
  BY <1>3, <1>5, <1>6 DEF Open, NothingKept
<1>12. Fresh(l, n, s, cs, u, c)
  BY <1>3, <1>4 DEF Open, Fresh
<1>13. Accounted(l, u, c)
  BY <1>1, <1>4 DEF Open, Accounted
<1>14. ASSUME c # NoCall PROVE Assigns(l, u, c)
  <2>1. Assigns(l, t, c)
    BY <1>14 DEF Open
  <2>2. t.primary \in Keys
    BY <1>2, <2>1, TxnFacts DEF Assigns, KeyOrNone
  <2> QED BY <1>3, <1>4, <1>6, <2>1, <2>2 DEF Assigns
<1>15. ASSUME c # NoCall PROVE CallKnown(l, v, n, s, u, c)
  <2>1. CallKnown(l, v, n, s, t, c)
    BY <1>15 DEF Open
  <2>2. c.keys \in SUBSET Keys
    BY <1>15, CallFacts
  <2> QED BY <1>1, <1>3, <1>4, <1>16, <2>1, <2>2 DEF CallKnown
<1> QED BY <1>1, <1>3, <1>4, <1>7, <1>8, <1>9, <1>10, <1>11, <1>12, <1>13, <1>14, <1>15 DEF Open

Gone(l, v, n, t, k, f, m) ==
    /\ ~(m[k] # NoLock /\ m[k].fts <= f) /\ Bounded(m, v, n, t)
    /\ m = l \/ (l[k] # NoLock /\ l[k].fts <= f /\ m = [l EXCEPT ![k] = NoLock])
    /\ \A j \in Keys : m[j] \in {l[j], NoLock}

LEMMA RollbackGone ==
    ASSUME NEW l, NEW v, NEW n \in Nat, NEW t, Bounded(l, v, n, t), NEW k \in Keys, NEW f \in Nat,
           NEW m, m = pessimisticRollbackKey(l, k, f)
    PROVE  Gone(l, v, n, t, k, f, m)
<1>1. l \in [Keys -> [fts : 0..n, primary : KeyOrNone]]
  BY DEF Bounded
<1>2. CASE l[k] # NoLock /\ l[k].fts <= f
  <2>1. m = [l EXCEPT ![k] = NoLock]
    BY <1>2 DEF pessimisticRollbackKey
  <2>2. m \in [Keys -> [fts : 0..n, primary : KeyOrNone]] /\ m[k] = NoLock
        /\ \A j \in Keys \ {k} : m[j] = l[j]
    BY <1>1, <2>1 DEF NoLock, KeyOrNone
  <2>3. Bounded(m, v, n, t)
    BY <2>2 DEF Bounded
  <2> QED BY <1>2, <2>1, <2>2, <2>3 DEF Gone
<1>3. CASE ~(l[k] # NoLock /\ l[k].fts <= f)
  <2>1. m = l
    BY <1>3 DEF pessimisticRollbackKey
  <2> QED BY <1>3, <2>1 DEF Gone
<1> QED BY <1>2, <1>3

(* A background rollback removes no lock that the client relies on.        *)
LEMMA BackgroundOpen ==
    ASSUME NEW l, NEW v, NEW n \in Nat, NEW s \in Nat, NEW cs, NEW t, NEW c,
           Open(l, v, n, s, cs, t, c), c # NoCall => c \in CallState /\ cs = "some",
           NEW r \in t.bg,
           NEW m, m = pessimisticRollbackKey(l, r.key, r.fts),
           NEW u, u = [t EXCEPT !.bg = @ \ {r}]
    PROVE  Open(m, v, n, s, cs, u, c) /\ Recorded(u) = Recorded(t)
<1>1. t \in TxnState /\ Bounded(l, v, n, t)
  BY TxnType DEF Open, Tidy
<1>2. PICK k \in Keys : k = r.key
  BY <1>1, TxnFacts
<1>3. PICK f \in Nat : f = r.fts
  BY <1>1, TxnFacts
<1>4. /\ ~(m[k] # NoLock /\ m[k].fts <= f)
      /\ m = l \/ (l[k] # NoLock /\ l[k].fts <= f /\ m = [l EXCEPT ![k] = NoLock])
  <2>1. m = pessimisticRollbackKey(l, k, f)
    BY <1>2, <1>3
  <2>2. Gone(l, v, n, t, k, f, m)
    BY <1>1, <2>1, RollbackGone
  <2> QED BY <2>2 DEF Gone
<1>5. Open(m, v, n, s, cs, t, c)
  <2>1. CASE m = l
    BY <2>1
  <2>2. CASE l[k] # NoLock /\ l[k].fts <= f /\ m = [l EXCEPT ![k] = NoLock]
    <3>0. l[k].fts \in Nat
      BY <1>1, LockFacts
    <3>1. ~Safe(l, t, k)
      BY <1>2, <1>3, <2>2, <3>0 DEF Safe
    <3>2. k \notin HeldBy(t) /\ k \notin DOMAIN t.agg.last /\ ~KeptAlive(l, t, k)
      BY <3>1 DEF Open, HeldKept, LastKept, KeptAlive
    <3>3. ~Granted(c, k)
      <4> SUFFICES ASSUME Granted(c, k) PROVE FALSE
        OBVIOUS
      <4>1. c # NoCall /\ c \in CallState /\ cs = "some" /\ k \in c.keys
        BY DEF Granted
      <4>2. CallKnown(l, v, n, s, t, c)
        BY <4>1 DEF Open
      <4>3. ~c.waiting /\ t.fts = s /\ l[k].fts = MaxOf(t.fts, lwcOf(c, k))
        BY <2>2, <4>2 DEF CallKnown, Granted
      <4>4. lwcOf(c, k) \in Nat
        BY <4>1, <4>2, LargestLWC
      <4>5. l[k].fts >= s
        BY <4>3, <4>4, MaxFacts
      <4>6. r.fts < s
        BY <4>1, <4>3 DEF Open, Fresh
      <4> QED BY <1>3, <2>2, <3>0, <4>5, <4>6
    <3> QED BY <2>2, <3>2, <3>3, LockGone
  <2> QED BY <1>4, <2>1, <2>2
<1>6. ~(m[r.key] # NoLock /\ m[r.key].fts <= r.fts)
  BY <1>2, <1>3, <1>4
<1> QED BY <1>5, <1>6, RollbackRanOpen

(* Locks of a transaction that rolled back are removed or still covered.   *)
StillCovered(l, t, v, n, m, u) ==
    /\ Tidy(u) /\ Bounded(m, v, n, u)
    /\ (\A k \in Keys : Covered(l, t, k)) => \A k \in Keys : Covered(m, u, k)

LEMMA BackgroundCovers ==
    ASSUME NEW l, NEW v, NEW n \in Nat, NEW t, Tidy(t), Bounded(l, v, n, t), NEW r \in t.bg,
           NEW m, m = pessimisticRollbackKey(l, r.key, r.fts),
           NEW u, u = [t EXCEPT !.bg = @ \ {r}]
    PROVE  StillCovered(l, t, v, n, m, u)
<1>1. t \in TxnState
  BY TxnType DEF Tidy
<1>2. PICK k \in Keys : k = r.key
  BY <1>1, TxnFacts
<1>3. PICK f \in Nat : f = r.fts
  BY <1>1, TxnFacts
<1>4. /\ ~(m[k] # NoLock /\ m[k].fts <= f) /\ Bounded(m, v, n, t)
      /\ \A j \in Keys : m[j] \in {l[j], NoLock}
  <2>1. m = pessimisticRollbackKey(l, k, f)
    BY <1>2, <1>3
  <2>2. Gone(l, v, n, t, k, f, m)
    BY <1>1, <2>1, RollbackGone
  <2> QED BY <2>2 DEF Gone
<1>5. /\ Tidy(u) /\ Bounded(m, v, n, u)
      /\ \A j \in Keys : Covered(m, t, j) => Covered(m, u, j)
  <2>1. ~(m[r.key] # NoLock /\ m[r.key].fts <= r.fts)
    BY <1>2, <1>3, <1>4
  <2>2. Ran(m, v, n, t, r, u)
    BY <1>4, <2>1, RollbackRan
  <2> QED BY <2>2 DEF Ran
<1>6. \A j \in Keys : Covered(l, t, j) => Covered(m, t, j)
  BY <1>4 DEF Covered
<1> QED BY <1>5, <1>6 DEF StillCovered

(* A lock that nobody keeps alive expires.                                 *)
LEMMA ExpireOpen ==
    ASSUME NEW l, NEW v, NEW n \in Nat, NEW s, NEW cs, NEW t, NEW c,
           Open(l, v, n, s, cs, t, c), c # NoCall => c \in CallState /\ cs = "some",
           NEW k \in Keys, l[k] # NoLock,
           \/ t.beat = "over"
           \/ /\ c # NoCall => k \notin c.keys
              /\ ~(t.beat = "beats" /\ l[k].primary = t.ttl)
              /\ k \in DOMAIN t.agg.last => t.agg.lastOld,
           NEW m, m = [l EXCEPT ![k] = NoLock]
    PROVE  Open(m, v, n, s, cs, t, c)
<1>1. CASE t.beat = "over"
  BY <1>1, LockGone
<1>2. CASE t.beat # "over"
  <2>1. t.beat \in {"none", "beats"}
    BY <1>2, TxnType, TxnFacts DEF Open, Tidy
  <2>2. k \notin HeldBy(t)
    BY <1>2, <2>1 DEF Open, HeldKept, Kept
  <2>3. ~KeptAlive(l, t, k) /\ ~Granted(c, k)
    BY <1>2, <2>1 DEF KeptAlive, Granted, Kept
  <2> QED BY <1>2, <2>2, <2>3, LockGone
<1> QED BY <1>1, <1>2

(* Another transaction commits a version of a key that is not locked.      *)
Committed(l, v, w, n, s, cs, t, c, k) ==
    Open(l, w, n, s, cs, t, c) /\ \A j \in Keys \ {k} : w[j] = v[j]

LEMMA OtherOpen ==
    ASSUME NEW l, NEW v, NEW n \in Nat, NEW s, NEW cs, NEW t, NEW c,
           Open(l, v, n, s, cs, t, c), s \in Nat, c # NoCall => c \in CallState /\ cs = "some",
           NEW k \in Keys, l[k] = NoLock,
           NEW w, w = [v EXCEPT ![k] = n + 1]
    PROVE  Committed(l, v, w, n + 1, s, cs, t, c, k)
<1>1. l \in [Keys -> [fts : 0..n, primary : KeyOrNone]] /\ v \in [Keys -> 0..n]
  BY DEF Open, Bounded
<1>2. t \in TxnState
  BY TxnType DEF Open, Tidy
<1>3. w \in [Keys -> 0..(n + 1)] /\ \A j \in Keys \ {k} : w[j] = v[j]
  BY <1>1
<1>4. l \in [Keys -> [fts : 0..(n + 1), primary : KeyOrNone]]
  <2>1. 0..n \subseteq 0..(n + 1)
    OBVIOUS
  <2> QED BY <1>1, <2>1
<1>5. Bounded(l, w, n + 1, t)
  <2>1. /\ t.fts \in Nat /\ t.maxLWC \in Nat /\ t.agg.maxLWC \in Nat
        /\ \A r \in t.bg : r.fts \in Nat
    BY <1>2, TxnFacts
  <2>2. /\ t.fts <= n /\ t.maxLWC <= n /\ t.agg.maxLWC <= n /\ \A r \in t.bg : r.fts <= n
    BY DEF Open, Bounded
  <2>3. /\ t.fts <= n + 1 /\ t.maxLWC <= n + 1 /\ t.agg.maxLWC <= n + 1
        /\ \A r \in t.bg : r.fts <= n + 1
    BY <2>1, <2>2
  <2> QED BY <1>3, <1>4, <2>3 DEF Bounded
<1>6. Fresh(l, n + 1, s, cs, t, c)
  <2>1. s <= n
    BY DEF Open, Fresh
  <2>2. s <= n + 1
    BY <2>1
  <2> QED BY <2>2 DEF Open, Fresh
<1>7. ASSUME c # NoCall PROVE CallKnown(l, w, n + 1, s, t, c)
  <2>1. CallKnown(l, v, n, s, t, c)
    BY <1>7 DEF Open
  <2>2. c.keys \in SUBSET Keys /\ c.lwc \in TSMaps
    BY <1>7, CallFacts
  <2>3. \A j \in DOMAIN c.lwc : c.lwc[j] \in Nat /\ c.lwc[j] <= n
    BY <2>1, <2>2, MapFacts DEF CallKnown
  <2>4. \A j \in DOMAIN c.lwc : c.lwc[j] <= n + 1
    BY <2>3
  <2>5. Covered(l, t, k)
    BY DEF Covered
  <2> QED BY <1>3, <2>1, <2>2, <2>4, <2>5 DEF CallKnown
<1>8. AbsentKnown(l, w, t)
  BY <1>3 DEF Open, AbsentKnown
<1> QED BY <1>3, <1>5, <1>6, <1>7, <1>8 DEF Open, Committed

(* What is neither of the ttlManager nor the age of the last attempt; the   *)
(* ttlManager is as it was, or keepAlive is over.                          *)
SameAccounts(t, u) ==
    /\ u \in TxnState /\ SameRecords(t, u) /\ u.primary = t.primary /\ u.fts = t.fts
    /\ u.lockedCnt = t.lockedCnt /\ u.bg = t.bg
    /\ (u.agg.on <=> t.agg.on) /\ u.agg.last = t.agg.last /\ u.agg.cur = t.agg.cur
    /\ u.agg.lastPrimary = t.agg.lastPrimary /\ (u.agg.lastAssigned <=> t.agg.lastAssigned)
    /\ u.agg.primary = t.agg.primary /\ (u.agg.assigned <=> t.agg.assigned)
    /\ u.agg.maxLWC = t.agg.maxLWC
    /\ u.ttl = t.ttl /\ (u.beat # "none" => t.beat # "none") /\ (t.beat = "over" => u.beat = "over")

(* What the ttlManager and that age have no part in.                       *)
Accounts(l, v, n, s, cs, t, c) ==
    /\ Tidy(t) /\ Bounded(l, v, n, t) /\ PrimaryKnown(t) /\ RecordsRight(l, t)
    /\ AbsentKnown(l, v, t)
    /\ Fresh(l, n, s, cs, t, c) /\ Accounted(l, t, c)
    /\ c = NoCall /\ t.primary # NoKey => HeldBy(t) # {}
    /\ c # NoCall => CallKnown(l, v, n, s, t, c)

LEMMA SameSets ==
    ASSUME NEW t, NEW u, SameAccounts(t, u)
    PROVE  /\ HeldBy(u) = HeldBy(t) /\ Recorded(u) = Recorded(t)
           /\ \A l, k : (Covered(l, u, k) <=> Covered(l, t, k)) /\ (Safe(l, u, k) <=> Safe(l, t, k))
           /\ \A l, k, p : Kept(l, t, k, p) => Kept(l, u, k, p)
           /\ Claimable(u) <=> Claimable(t)
<1>1. /\ HeldBy(u) = HeldBy(t) /\ Recorded(u) = Recorded(t)
      /\ \A l, k : (Covered(l, u, k) <=> Covered(l, t, k)) /\ (Safe(l, u, k) <=> Safe(l, t, k))
  BY DEF SameAccounts, SameRecords, HeldBy, Recorded, Covered, Safe
<1>2. \A l, k, p : Kept(l, t, k, p) => Kept(l, u, k, p)
  BY DEF SameAccounts, Kept
<1>3. Claimable(u) <=> Claimable(t)
  BY DEF SameAccounts, Claimable
<1> QED BY <1>1, <1>2, <1>3

LEMMA SameBase ==
    ASSUME NEW l, NEW v, NEW n, NEW t, NEW u, SameAccounts(t, u), Tidy(t), Bounded(l, v, n, t)
    PROVE  Tidy(u) /\ Bounded(l, v, n, u)
<1>1. Tidy(u)
  BY SameSets, TxnType DEF Tidy, SameAccounts, SameRecords
<1>2. Bounded(l, v, n, u)
  BY DEF Bounded, SameAccounts, SameRecords
<1> QED BY <1>1, <1>2

LEMMA SameAccounted ==
    ASSUME NEW l, NEW v, NEW n, NEW s, NEW cs, NEW t, NEW c, NEW u,
           Open(l, v, n, s, cs, t, c), SameAccounts(t, u)
    PROVE  Accounts(l, v, n, s, cs, u, c)
<1>1. Tidy(u) /\ Bounded(l, v, n, u)
  BY SameBase DEF Open
<1>2. /\ HeldBy(u) = HeldBy(t) /\ Recorded(u) = Recorded(t)
      /\ \A k : Covered(l, u, k) <=> Covered(l, t, k)
      /\ \A k, p : Kept(l, t, k, p) => Kept(l, u, k, p)
  BY SameSets
<1>3. /\ u.flags = t.flags /\ u.checks = t.checks /\ u.maxLWC = t.maxLWC
      /\ u.notExist = t.notExist /\ u.primary = t.primary /\ u.fts = t.fts /\ u.bg = t.bg
  BY DEF SameAccounts, SameRecords
<1>4. /\ (u.agg.on <=> t.agg.on) /\ u.agg.last = t.agg.last /\ u.agg.cur = t.agg.cur
      /\ u.agg.lastPrimary = t.agg.lastPrimary /\ (u.agg.lastAssigned <=> t.agg.lastAssigned)
      /\ u.agg.primary = t.agg.primary /\ (u.agg.assigned <=> t.agg.assigned)
      /\ u.agg.maxLWC = t.agg.maxLWC
  BY DEF SameAccounts
<1>5. PrimaryKnown(u)
  BY <1>3, <1>4 DEF Open, PrimaryKnown
<1>6. RecordsRight(l, u) /\ AbsentKnown(l, v, u)
  BY <1>3, <1>4 DEF Open, RecordsRight, AbsentKnown
<1>7. Fresh(l, n, s, cs, u, c)
  BY <1>2, <1>3, <1>4 DEF Open, Fresh
<1>8. Accounted(l, u, c)
  BY <1>2 DEF Open, Accounted
<1>9. ASSUME c # NoCall PROVE CallKnown(l, v, n, s, u, c)
  <2>1. CallKnown(l, v, n, s, t, c)
    BY <1>9 DEF Open
  <2> QED BY <1>2, <1>3, <1>4, <2>1 DEF CallKnown
<1>10. c = NoCall /\ u.primary # NoKey => HeldBy(u) # {}
  BY <1>2, <1>3 DEF Open
<1> QED BY <1>1, <1>5, <1>6, <1>7, <1>8, <1>9, <1>10 DEF Accounts

LEMMA StopFacts ==
    ASSUME NEW t \in TxnState, t.beat = "beats", NEW b \in {"none", "over"},
           NEW u, u = [t EXCEPT !.beat = b]
    PROVE  SameAccounts(t, u) /\ u.agg = t.agg /\ u.ttl = t.ttl /\ u.beat = b
<1>1. u \in TxnState
  BY DEF TxnState
<1>2. SameRecords(t, u) /\ u.agg = t.agg /\ u.ttl = t.ttl /\ u.primary = t.primary
      /\ u.fts = t.fts /\ u.lockedCnt = t.lockedCnt /\ u.bg = t.bg
  BY DEF TxnState, SameRecords
<1>3. u.beat = b
  BY DEF TxnState
<1> QED BY <1>1, <1>2, <1>3 DEF SameAccounts

(* The heartbeats stop only when there is nothing that they keep alive.    *)
LEMMA StopsOpen ==
    ASSUME NEW l, NEW v, NEW n \in Nat, NEW s, NEW cs, NEW t, NEW c,
           Open(l, v, n, s, cs, t, c), c # NoCall => c \in CallState /\ cs = "some",
           t.beat = "beats", ~(l[t.ttl] # NoLock /\ l[t.ttl].primary = t.ttl),
           NEW u, u = [t EXCEPT !.beat = "none"]
    PROVE  Open(l, v, n, s, cs, u, c) /\ Recorded(u) = Recorded(t)
<1>1. t \in TxnState
  BY TxnType DEF Open, Tidy
<1>2. SameAccounts(t, u) /\ u.agg = t.agg /\ u.ttl = t.ttl
  BY <1>1, StopFacts
<1>3. Accounts(l, v, n, s, cs, u, c)
  BY <1>2, SameAccounted
<1>4. /\ HeldBy(u) = HeldBy(t) /\ Recorded(u) = Recorded(t)
      /\ \A k : Safe(l, u, k) <=> Safe(l, t, k)
      /\ \A k, p : Kept(l, t, k, p) => Kept(l, u, k, p)
      /\ Claimable(u) <=> Claimable(t)
  BY <1>2, SameSets
<1>5. u.primary = t.primary /\ u.fts = t.fts
  BY <1>2 DEF SameAccounts
<1>6. \A k : ~KeptAlive(l, t, k)
  BY DEF KeptAlive, Kept
<1>7. HeldBy(t) = {}
  BY DEF Open, HeldKept, Kept
<1>8. HeldKept(l, u)
  BY <1>4, <1>7 DEF HeldKept
<1>9. LastKept(l, u)
  BY <1>2, <1>4, <1>5 DEF Open, LastKept
<1>10. NothingKept(l, u)
  BY <1>2, <1>5, <1>6 DEF Open, NothingKept
<1>11. ASSUME c # NoCall PROVE Assigns(l, u, c)
  <2>1. Assigns(l, t, c) /\ CallKnown(l, v, n, s, t, c)
    BY <1>11 DEF Open
  <2>2. c.assigned /\ t.primary \in c.keys
    BY <1>7, <2>1 DEF Assigns
  <2>3. ~c.waiting /\ t.primary \notin c.todo /\ c.err = "nil" =>
           c.mode = "ifExists" /\ t.primary \in c.absent
    BY <2>1, <2>2 DEF Assigns, CallKnown, Kept
  <2>4. ~c.waiting /\ t.primary \in c.todo => t.ttl = NoKey
    BY <1>6, <2>1, <2>2 DEF Assigns
  <2> QED BY <1>2, <1>4, <1>5, <2>1, <2>3, <2>4 DEF Assigns
<1> QED BY <1>3, <1>4, <1>8, <1>9, <1>10, <1>11 DEF Open, Accounts

(* When keepAlive ends by itself, nothing is claimed of the locks any more. *)
LEMMA OverOpen ==
    ASSUME NEW l, NEW v, NEW n \in Nat, NEW s, NEW cs, NEW t, NEW c,
           Open(l, v, n, s, cs, t, c), t.beat = "beats", NEW u, u = [t EXCEPT !.beat = "over"]
    PROVE  Open(l, v, n, s, cs, u, c) /\ Recorded(u) = Recorded(t)
<1>1. t \in TxnState
  BY TxnType DEF Open, Tidy
<1>2. SameAccounts(t, u) /\ u.agg = t.agg /\ u.ttl = t.ttl /\ u.beat = "over"
  BY <1>1, StopFacts
<1>3. Accounts(l, v, n, s, cs, u, c)
  BY <1>2, SameAccounted
<1>4. /\ HeldBy(u) = HeldBy(t) /\ Recorded(u) = Recorded(t)
      /\ \A k : Safe(l, u, k) <=> Safe(l, t, k)
      /\ \A k, p : Kept(l, t, k, p) => Kept(l, u, k, p)
      /\ Claimable(u) <=> Claimable(t)
  BY <1>2, SameSets
<1>5. u.primary = t.primary /\ u.fts = t.fts
  BY <1>2 DEF SameAccounts
<1>6. \A k : KeptAlive(l, t, k) => KeptAlive(l, u, k)
  BY <1>2, <1>4 DEF KeptAlive
<1>7. HeldKept(l, u)
  BY <1>2, <1>4, <1>5 DEF Open, HeldKept
<1>8. LastKept(l, u)
  BY <1>2, <1>4, <1>5 DEF Open, LastKept
<1>9. NothingKept(l, u)
  BY <1>2, <1>5, <1>6 DEF Open, NothingKept
<1>10. ASSUME c # NoCall PROVE Assigns(l, u, c)
  <2>1. Assigns(l, t, c)
    BY <1>10 DEF Open
  <2> QED BY <1>2, <1>4, <1>5, <1>6, <2>1 DEF Assigns
<1> QED BY <1>3, <1>4, <1>7, <1>8, <1>9, <1>10 DEF Open, Accounts

LEMMA AgeFacts ==
    ASSUME NEW t \in TxnState, NEW u, u = [t EXCEPT !.agg.lastOld = TRUE]
    PROVE  SameAccounts(t, u) /\ u.ttl = t.ttl /\ u.beat = t.beat /\ u.agg.lastOld
<1>1. PICK a : a = [t.agg EXCEPT !.lastOld = TRUE]
  OBVIOUS
<1>2. a \in Context /\ a.lastOld
  BY <1>1, TxnFacts DEF Context
<1>3. /\ (a.on <=> t.agg.on) /\ a.last = t.agg.last /\ a.cur = t.agg.cur
      /\ a.lastPrimary = t.agg.lastPrimary /\ (a.lastAssigned <=> t.agg.lastAssigned)
      /\ a.primary = t.agg.primary /\ (a.assigned <=> t.agg.assigned) /\ a.maxLWC = t.agg.maxLWC
  BY <1>1, TxnFacts DEF Context
<1>4. u = [t EXCEPT !.agg = a]
  BY <1>1 DEF TxnState
<1>5. u \in TxnState /\ u.agg = a
  BY <1>2, <1>4 DEF TxnState
<1>6. SameRecords(t, u) /\ u.ttl = t.ttl /\ u.primary = t.primary
      /\ u.fts = t.fts /\ u.lockedCnt = t.lockedCnt /\ u.bg = t.bg
  BY <1>4 DEF TxnState, SameRecords
<1>7. u.beat = t.beat
  BY <1>4 DEF TxnState
<1> QED BY <1>2, <1>3, <1>5, <1>6, <1>7 DEF SameAccounts

(* Nothing relies on the age of the last attempt's locks.                  *)
LEMMA AgeOpen ==
    ASSUME NEW l, NEW v, NEW n \in Nat, NEW s, NEW cs, NEW t, NEW c,
           Open(l, v, n, s, cs, t, c), NEW u, u = [t EXCEPT !.agg.lastOld = TRUE]
    PROVE  Open(l, v, n, s, cs, u, c) /\ Recorded(u) = Recorded(t)
<1>1. t \in TxnState
  BY TxnType DEF Open, Tidy
<1>2. SameAccounts(t, u) /\ u.ttl = t.ttl /\ u.beat = t.beat /\ u.agg.lastOld
  BY <1>1, AgeFacts
<1>3. Accounts(l, v, n, s, cs, u, c)
  BY <1>2, SameAccounted
<1>4. /\ HeldBy(u) = HeldBy(t) /\ Recorded(u) = Recorded(t)
      /\ \A k : Safe(l, u, k) <=> Safe(l, t, k)
      /\ \A k, p : Kept(l, t, k, p) => Kept(l, u, k, p)
      /\ Claimable(u) <=> Claimable(t)
  BY <1>2, SameSets
<1>5. u.primary = t.primary /\ u.fts = t.fts
      /\ (u.agg.on <=> t.agg.on) /\ u.agg.last = t.agg.last /\ u.agg.maxLWC = t.agg.maxLWC
      /\ u.agg.lastPrimary = t.agg.lastPrimary /\ (u.agg.lastAssigned <=> t.agg.lastAssigned)
      /\ u.agg.primary = t.agg.primary /\ (u.agg.assigned <=> t.agg.assigned)
  BY <1>2 DEF SameAccounts
<1>6. \A k : KeptAlive(l, t, k) => KeptAlive(l, u, k)
  BY <1>2, <1>4 DEF KeptAlive
<1>7. HeldKept(l, u)
  BY <1>2, <1>4, <1>5 DEF Open, HeldKept
<1>8. LastKept(l, u)
  BY <1>2, <1>4, <1>5 DEF Open, LastKept
<1>9. NothingKept(l, u)
  BY <1>2, <1>5, <1>6 DEF Open, NothingKept
<1>10. ASSUME c # NoCall PROVE Assigns(l, u, c)
  <2>1. Assigns(l, t, c)
    BY <1>10 DEF Open
  <2> QED BY <1>2, <1>4, <1>5, <1>6, <2>1 DEF Assigns
<1> QED BY <1>3, <1>4, <1>7, <1>8, <1>9, <1>10 DEF Open, Accounts

-----------------------------------------------------------------------------
(* The invariant of the state <<l, v, n, s, cs, t, c, st, ins>>.           *)

Inv(l, v, n, s, cs, t, c, st, ins) ==
    /\ Tidy(t) /\ Bounded(l, v, n, t) /\ n \in Nat /\ n <= MaxTS /\ s \in 0..n
    /\ InsertsKnown(l, v, ins) /\ ins \subseteq Keys
    /\ st \in {"open", "refused", "rolledBack", "committing"}
    /\ cs \in {"none", "some", "failed"}
    /\ c # NoCall => c \in CallState /\ st = "open" /\ cs = "some"
    /\ st = "open" => Open(l, v, n, s, cs, t, c) /\ ins \subseteq Recorded(t)
    /\ st = "rolledBack" => \A k \in Keys : Covered(l, t, k)

LEMMA InvIs == LockInv <=> Inv(lock, latest, ts, stmtTS, calls, txn, call, status, inserted)
BY CallType DEF LockInv, Inv, Open

Idling(l, v, n, s, cs, t, ins) ==
    /\ Quiet(l, v, n, t) /\ Fresh(l, n, s, cs, t, NoCall) /\ n \in Nat /\ n <= MaxTS
    /\ s \in Nat /\ s <= n /\ cs \in {"none", "some", "failed"}
    /\ InsertsKnown(l, v, ins) /\ ins \subseteq Recorded(t)

Calling(l, v, n, s, t, c, ins) ==
    /\ Busy(l, v, n, s, t, c) /\ c \in CallState /\ n \in Nat /\ n <= MaxTS
    /\ s \in Nat /\ s <= n
    /\ InsertsKnown(l, v, ins) /\ ins \subseteq Recorded(t)

LEMMA RecordedKeys == ASSUME NEW t, Tidy(t) PROVE Recorded(t) \subseteq Keys
<1>1. t \in TxnState
  BY TxnType DEF Tidy
<1> QED BY <1>1, TxnFacts DEF Recorded, HeldBy

LEMMA IdleInv ==
    ASSUME NEW l, NEW v, NEW n, NEW s, NEW cs, NEW t, NEW ins
    PROVE  Inv(l, v, n, s, cs, t, NoCall, "open", ins) <=> Idling(l, v, n, s, cs, t, ins)
<1>1. n \in Nat => (s \in 0..n <=> s \in Nat /\ s <= n)
  OBVIOUS
<1>2. Tidy(t) => Recorded(t) \subseteq Keys
  BY RecordedKeys
<1> QED BY <1>1, <1>2, OpenQuiet DEF Inv, Idling, Quiet

LEMMA CallInv ==
    ASSUME NEW l, NEW v, NEW n, NEW s, NEW cs, NEW t, NEW c, NEW ins, c # NoCall
    PROVE  /\ Inv(l, v, n, s, cs, t, c, "open", ins) => Calling(l, v, n, s, t, c, ins) /\ cs = "some"
           /\ Calling(l, v, n, s, t, c, ins) => Inv(l, v, n, s, "some", t, c, "open", ins)
<1>1. n \in Nat => (s \in 0..n <=> s \in Nat /\ s <= n)
  OBVIOUS
<1>2. Tidy(t) => Recorded(t) \subseteq Keys
  BY RecordedKeys
<1> QED BY <1>1, <1>2, OpenBusy DEF Inv, Calling, Busy

(* What is said of the keys to insert can be told apart from the rest.     *)
LEMMA WithInserts ==
    ASSUME NEW l, NEW v, NEW n, NEW s, NEW cs, NEW t, NEW c, NEW st, NEW i, NEW keys,
           Inv(l, v, n, s, cs, t, c, st, i), InsertsKnown(l, v, keys \cap Recorded(t))
    PROVE  Inv(l, v, n, s, cs, t, c, st, keys \cap Recorded(t))
<1>1. Recorded(t) \subseteq Keys
  BY RecordedKeys DEF Inv
<1> QED BY <1>1 DEF Inv

(* Locks that other keys get, or that are removed, do not matter to inserts.*)
LEMMA InsertsStay ==
    ASSUME NEW l, NEW m, NEW v, NEW ins, InsertsKnown(l, v, ins),
           \A k \in ins : m[k] \in {l[k], NoLock}
    PROVE  InsertsKnown(m, v, ins)
BY DEF InsertsKnown

LEMMA NoInserts == \A l, v, t : InsertsKnown(l, v, {}) /\ {} \subseteq Recorded(t)
BY DEF InsertsKnown

(* The next attempt, or statement, of a client with the state t begins.    *)
LEMMA AttemptBegins ==
    ASSUME NEW l, NEW v, NEW n \in Nat, NEW t, Quiet(l, v, n, t), n < MaxTS,
           DOMAIN t.agg.cur = {}, ~t.agg.assigned
    PROVE  Inv(l, v, n + 1, n + 1, "none", t, NoCall, "open", {})
<1>1. Quiet(l, v, n + 1, t) /\ Fresh(l, n + 1, n + 1, "none", t, NoCall)
  BY NewAttemptFresh
<1>2. n + 1 \in Nat /\ n + 1 <= MaxTS
  BY ConstantsOK
<1>3. Idling(l, v, n + 1, n + 1, "none", t, {})
  BY <1>1, <1>2, NoInserts DEF Idling
<1> QED BY <1>3, IdleInv

LEMMA RetryKeeps ==
    ASSUME NEW l, NEW v, NEW n, NEW s, NEW cs, NEW t, NEW ins, Idling(l, v, n, s, cs, t, ins),
           t.agg.on, n < MaxTS, NEW old \in BOOLEAN
    PROVE  Inv(l, v, n + 1, n + 1, "none", retryAggressiveLocking(t, old), NoCall, "open", {})
<1>1. n \in Nat /\ Quiet(l, v, n, t) /\ t \in TxnState
  BY TxnType DEF Idling, Quiet, Tidy
<1>2. PICK u : u = retryAggressiveLocking(t, old)
  OBVIOUS
<1>3. Quiet(l, v, n, u)
  BY <1>1, <1>2, RetryQuiet
<1>4. NextContext(t.agg, u.agg, old)
  BY <1>1, <1>2, RetryFacts
<1>5. DOMAIN u.agg.cur = {} /\ ~u.agg.assigned
  BY <1>4 DEF NextContext
<1> QED BY <1>1, <1>2, <1>3, <1>5, AttemptBegins

LEMMA CancelKeeps ==
    ASSUME NEW l, NEW v, NEW n, NEW s, NEW cs, NEW t, NEW ins, Idling(l, v, n, s, cs, t, ins),
           t.agg.on, n < MaxTS
    PROVE  Inv(l, v, n + 1, n + 1, "none", cancelAggressiveLocking(t), NoCall, "open", {})
<1>1. n \in Nat /\ Quiet(l, v, n, t) /\ t \in TxnState
  BY TxnType DEF Idling, Quiet, Tidy
<1>2. PICK u : u = cancelAggressiveLocking(t)
  OBVIOUS
<1>3. Quiet(l, v, n, u)
  BY <1>1, <1>2, CancelQuiet
<1>4. u.agg = NoAgg
  BY <1>1, <1>2, CancelFacts
<1>5. DOMAIN u.agg.cur = {} /\ ~u.agg.assigned
  BY <1>4, AggFacts
<1> QED BY <1>1, <1>2, <1>3, <1>5, AttemptBegins

LEMMA DoneKeeps ==
    ASSUME NEW l, NEW v, NEW n, NEW s, NEW cs, NEW t, NEW ins, Idling(l, v, n, s, cs, t, ins),
           t.agg.on, n < MaxTS
    PROVE  Inv(l, v, n + 1, n + 1, "none", doneAggressiveLocking(t), NoCall, "open", {})
<1>1. n \in Nat /\ Quiet(l, v, n, t) /\ t \in TxnState
  BY TxnType DEF Idling, Quiet, Tidy
<1>2. PICK u : u = doneAggressiveLocking(t)
  OBVIOUS
<1>3. Quiet(l, v, n, u)
  BY <1>1, <1>2, DoneQuiet
<1>4. u.agg = NoAgg
  BY <1>1, <1>2, DoneFacts
<1>5. DOMAIN u.agg.cur = {} /\ ~u.agg.assigned
  BY <1>4, AggFacts
<1> QED BY <1>1, <1>2, <1>3, <1>5, AttemptBegins

LEMMA NextStatementKeeps ==
    ASSUME NEW l, NEW v, NEW n, NEW s, NEW cs, NEW t, NEW ins, Idling(l, v, n, s, cs, t, ins),
           ~t.agg.on, n < MaxTS
    PROVE  Inv(l, v, n + 1, n + 1, "none", t, NoCall, "open", {})
<1>1. n \in Nat /\ Quiet(l, v, n, t) /\ DOMAIN t.agg.cur = {} /\ ~t.agg.assigned
  BY DEF Idling, Quiet, Tidy
<1> QED BY <1>1, AttemptBegins

LEMMA StartKeeps ==
    ASSUME NEW l, NEW v, NEW n, NEW s, NEW t, NEW ins, Idling(l, v, n, s, "none", t, ins),
           ~t.agg.on, NEW u, u = [t EXCEPT !.agg = NewAgg]
    PROVE  Inv(l, v, n, s, "none", u, NoCall, "open", ins)
<1>1. /\ n \in Nat /\ s \in Nat /\ s <= n /\ Quiet(l, v, n, t) /\ t \in TxnState
      /\ Fresh(l, n, s, "none", t, NoCall)
  BY TxnType DEF Idling, Quiet, Tidy
<1>2. u \in TxnState /\ SameRecords(t, u) /\ u.agg = NewAgg
  BY <1>1, AggFacts DEF TxnState, SameRecords
<1>3. /\ u.primary = t.primary /\ u.fts = t.fts /\ u.ttl = t.ttl /\ u.lockedCnt = t.lockedCnt
      /\ u.bg = t.bg
  BY <1>1 DEF TxnState
<1>4. u.beat = t.beat
  BY <1>1 DEF TxnState
<1>5. DOMAIN t.agg.cur = {} /\ DOMAIN t.agg.last = {}
  BY <1>1 DEF Quiet, Tidy
<1>6. HeldBy(u) = t.flags /\ HeldBy(t) = t.flags /\ Recorded(u) = Recorded(t)
  BY <1>2, <1>5, AggFacts DEF HeldBy, Recorded, SameRecords
<1>7. /\ \A k : (Safe(l, u, k) <=> Safe(l, t, k)) /\ (Covered(l, u, k) <=> Covered(l, t, k))
      /\ \A k, p : Kept(l, u, k, p) <=> Kept(l, t, k, p)
  BY <1>3, <1>4 DEF Safe, Covered, Kept
<1>8. Tidy(u)
  BY <1>1, <1>2, <1>3, <1>4, <1>6, AggFacts, TxnType DEF Quiet, Tidy, SameRecords
<1>9. Bounded(l, v, n, u)
  BY <1>1, <1>2, <1>3, AggFacts DEF Quiet, Bounded, SameRecords
<1>10. t.primary \in {NoKey} \cup t.flags
  BY <1>1, <1>6 DEF Quiet, HeldKept
<1>11. PrimaryKnown(u)
  BY <1>2, <1>3, <1>10, AggFacts DEF PrimaryKnown, SameRecords
<1>12. HeldKept(l, u)
  BY <1>1, <1>3, <1>4, <1>6, <1>7 DEF Quiet, HeldKept
<1>13. RecordsRight(l, u) /\ LastKept(l, u)
  BY <1>1, <1>2, <1>3, AggFacts DEF Quiet, RecordsRight, LastKept, SameRecords
<1>19. AbsentKnown(l, v, u)
  <2>1. u.notExist = t.notExist
    BY <1>2 DEF SameRecords
  <2> QED BY <1>1, <1>2, <2>1, AggFacts DEF Quiet, AbsentKnown, Missing
<1>14. NothingKept(l, u)
  BY <1>1, <1>2, <1>3, <1>5, AggFacts DEF Quiet, NothingKept
<1>15. Accounted(l, u, NoCall) /\ (u.primary # NoKey => HeldBy(u) # {})
  BY <1>1, <1>3, <1>6, <1>7 DEF Quiet, Accounted
<1>16. Fresh(l, n, s, "none", u, NoCall)
  <2>1. t.fts \in Nat /\ t.fts < s
    BY <1>1, TxnFacts DEF Fresh
  <2>2. 0 < s
    BY <1>1, <2>1
  <2> QED BY <1>1, <1>2, <1>3, <1>6, <2>2, AggFacts DEF Fresh
<1>17. Quiet(l, v, n, u)
  BY <1>8, <1>9, <1>11, <1>12, <1>13, <1>14, <1>15, <1>19 DEF Quiet
<1>18. Idling(l, v, n, s, "none", u, ins)
  BY <1>6, <1>16, <1>17 DEF Idling
<1> QED BY <1>18, IdleInv

LEMMA FreshGoesOn ==
    ASSUME NEW l, NEW n, NEW s, NEW cs, NEW t, Fresh(l, n, s, cs, t, NoCall)
    PROVE  /\ cs # "failed" => Fresh(l, n, s, "some", t, NoCall)
           /\ Fresh(l, n, s, "failed", t, NoCall)
BY DEF Fresh

(* More than one key ends the aggressive mode.                             *)
LEMMA ExitKeeps ==
    ASSUME NEW l, NEW v, NEW n, NEW s, NEW cs, NEW t, NEW ins, Idling(l, v, n, s, cs, t, ins),
           NEW keysInput, t.agg.on /\ Cardinality(keysInput) > 1 => cs = "none",
           NEW u, u = exitAggressiveLockingIfInapplicable(t, keysInput)
    PROVE  /\ Idling(l, v, n, s, cs, u, {}) /\ DOMAIN u.agg.last \subseteq DOMAIN t.agg.last
           /\ u.agg.on => ~(Cardinality(keysInput) > 1) /\ u = t
<1>1. /\ n \in Nat /\ s \in Nat /\ s <= n /\ Quiet(l, v, n, t) /\ Fresh(l, n, s, cs, t, NoCall)
  BY DEF Idling
<1>2. /\ Quiet(l, v, n, u) /\ Fresh(l, n, s, cs, u, NoCall)
      /\ HeldBy(u) = HeldBy(t) /\ DOMAIN u.agg.last \subseteq DOMAIN t.agg.last
      /\ u.agg.on => ~(Cardinality(keysInput) > 1) /\ u = t
  <2>1. Exited(l, v, n, s, cs, t, keysInput, u)
    BY <1>1, ExitQuiet
  <2> QED BY <2>1 DEF Exited
<1>3. Idling(l, v, n, s, cs, u, {})
  BY <1>2, NoInserts DEF Idling
<1> QED BY <1>2, <1>3

LEMMA NoRequestKeeps ==
    ASSUME NEW l, NEW v, NEW n, NEW s, NEW cs, NEW t, NEW ins, Idling(l, v, n, s, cs, t, ins)
    PROVE  /\ cs # "failed" => Inv(l, v, n, s, "some", t, NoCall, "open", ins)
           /\ Inv(l, v, n, s, "failed", t, NoCall, "open", ins)
<1>1. /\ cs # "failed" => Idling(l, v, n, s, "some", t, ins)
      /\ Idling(l, v, n, s, "failed", t, ins)
  BY FreshGoesOn DEF Idling
<1> QED BY <1>1, IdleInv

LEMMA PlainKeeps ==
    ASSUME NEW l, NEW v, NEW n, NEW s, NEW cs, NEW t, NEW ins, Idling(l, v, n, s, cs, t, ins),
           cs # "failed", ~t.agg.on,
           NEW keys \in SUBSET Keys, keys # {}, keys \cap HeldBy(t) = {}, NEW mode \in AllModes,
           mode = "ifExists" /\ t.primary = NoKey => ~(Cardinality(keys) > 1),
           NEW as \in BOOLEAN, as <=> t.primary = NoKey
    PROVE  Inv(l, v, n, s, "some", Chosen(t, keys, s), NewCall(keys, mode, as), "open", {})
<1>1. /\ n \in Nat /\ n <= MaxTS /\ s \in Nat /\ s <= n
      /\ Quiet(l, v, n, t) /\ Fresh(l, n, s, cs, t, NoCall)
  BY DEF Idling
<1>2. mode = "ifExists" /\ t.primary = NoKey => \E k \in Keys : keys = {k}
  BY SetFacts
<1>3. PICK c : c = NewCall(keys, mode, as)
  OBVIOUS
<1>4. PICK u : u = Chosen(t, keys, s)
  OBVIOUS
<1>5. Busy(l, v, n, s, u, c) /\ HeldBy(u) = HeldBy(t)
  <2>1. Started(l, v, n, s, t, u, c)
    BY <1>1, <1>2, <1>3, <1>4, PlainCallStarts
  <2> QED BY <2>1 DEF Started
<1>6. c \in CallState /\ c # NoCall
  <2>1. NewlyCalled(c, keys, mode, as)
    BY <1>3, NewCallFacts
  <2> QED BY <2>1 DEF NewlyCalled
<1>7. Calling(l, v, n, s, u, c, {})
  BY <1>1, <1>5, <1>6, NoInserts DEF Calling
<1> QED BY <1>3, <1>4, <1>6, <1>7, CallInv

SkipsOrCalls(l, v, n, s, t, w, k, mode, u, c) ==
    /\ skips(w, k, mode) => /\ Inv(l, v, n, s, "some", u, NoCall, "open", {})
                            /\ k \in DOMAIN t.agg.last
    /\ ~skips(w, k, mode) => Inv(l, v, n, s, "some", u, c, "open", {})

LEMMA AggressiveKeeps ==
    ASSUME NEW l, NEW v, NEW n, NEW s, NEW cs, NEW t, NEW ins, Idling(l, v, n, s, cs, t, ins),
           cs # "failed", t.agg.on, NEW k \in Keys, k \notin HeldBy(t), NEW mode \in AllModes,
           mode = "insert" /\ k \in DOMAIN t.agg.last /\ l[k] # NoLock => v[k] = 0,
           mode = "ifExists" => DOMAIN t.agg.last = {},
           NEW as \in BOOLEAN, as <=> t.primary = NoKey,
           NEW keys, keys = {k}, NEW w, w = Chosen(t, keys, s), NEW u, u = Filtered(w, k, mode, as)
    PROVE  SkipsOrCalls(l, v, n, s, t, w, k, mode, u, NewCall(keys, mode, as))
<1>1. /\ n \in Nat /\ n <= MaxTS /\ s \in Nat /\ s <= n
      /\ Quiet(l, v, n, t) /\ Fresh(l, n, s, cs, t, NoCall)
  BY DEF Idling
<1>2. PICK c : c = NewCall({k}, mode, as)
  OBVIOUS
<1>3. /\ skips(w, k, mode) => /\ Quiet(l, v, n, u) /\ Fresh(l, n, s, "some", u, NoCall)
                              /\ HeldBy(u) = HeldBy(t) \cup {k} /\ k \in DOMAIN t.agg.last
      /\ ~skips(w, k, mode) => Busy(l, v, n, s, u, c) /\ HeldBy(u) = HeldBy(t)
  <2>1. Resumed(l, v, n, s, t, k, mode, w, u, c)
    BY <1>1, <1>2, AggressiveCallStarts
  <2> QED BY <2>1 DEF Resumed
<1>4. c \in CallState /\ c # NoCall
  <2>1. PICK ks \in SUBSET Keys : ks = {k}
    OBVIOUS
  <2>2. NewlyCalled(c, ks, mode, as)
    BY <1>2, <2>1, NewCallFacts
  <2> QED BY <2>2 DEF NewlyCalled
<1>5. CASE skips(w, k, mode)
  <2>1. Idling(l, v, n, s, "some", u, {})
    BY <1>1, <1>3, <1>5, NoInserts DEF Idling
  <2> QED BY <1>3, <1>5, <2>1, IdleInv DEF SkipsOrCalls
<1>6. CASE ~skips(w, k, mode)
  <2>1. Calling(l, v, n, s, u, c, {})
    BY <1>1, <1>3, <1>4, <1>6, NoInserts DEF Calling
  <2>2. Inv(l, v, n, s, "some", u, c, "open", {})
    BY <1>4, <2>1, CallInv
  <2> QED BY <1>2, <1>6, <2>2 DEF SkipsOrCalls
<1> QED BY <1>5, <1>6

-----------------------------------------------------------------------------
(* Every step keeps the invariant.                                         *)

InvNext == Inv(lock', latest', ts', stmtTS', calls', txn', call', status', inserted')

LEMMA InvIsNext == InvNext => LockInv'
BY CallType DEF LockInv, Inv, Open, InvNext

LEMMA IdleNow ==
    ASSUME LockInv, Idle
    PROVE  /\ Idling(lock, latest, ts, stmtTS, calls, txn, inserted)
           /\ call = NoCall /\ status = "open"
<1>1. Inv(lock, latest, ts, stmtTS, calls, txn, NoCall, "open", inserted)
  BY InvIs DEF Idle
<1> QED BY <1>1, IdleInv DEF Idle

LEMMA CallNow ==
    ASSUME LockInv, status = "open", call # NoCall
    PROVE  Calling(lock, latest, ts, stmtTS, txn, call, inserted) /\ calls = "some"
<1>1. Inv(lock, latest, ts, stmtTS, calls, txn, call, "open", inserted)
  BY InvIs
<1> QED BY <1>1, CallInv

LEMMA AttemptSteps ==
    ASSUME LockInv,
           \/ StartAggressiveLocking \/ RetryAggressiveLocking \/ CancelAggressiveLocking
           \/ DoneAggressiveLocking \/ NextStatement
    PROVE  LockInv'
<1>0. Idle
  BY DEF StartAggressiveLocking, RetryAggressiveLocking, CancelAggressiveLocking,
         DoneAggressiveLocking, NextStatement
<1>1. Idling(lock, latest, ts, stmtTS, calls, txn, inserted) /\ call = NoCall /\ status = "open"
  BY <1>0, IdleNow
<1>7. \A keys : InsertsKnown(lock, latest, inserted \cap keys)
  BY <1>1 DEF Idling, InsertsKnown
<1>2. CASE StartAggressiveLocking
  <2>1. ~txn.agg.on /\ calls = "none" /\ txn' = [txn EXCEPT !.agg = NewAgg]
    BY <1>2 DEF StartAggressiveLocking
  <2>2. /\ lock' = lock /\ latest' = latest /\ ts' = ts /\ stmtTS' = stmtTS /\ calls' = calls
        /\ call' = call /\ status' = status /\ inserted' = inserted
    BY <1>2 DEF StartAggressiveLocking
  <2>3. Inv(lock, latest, ts, stmtTS, "none", txn', NoCall, "open", inserted)
    BY <1>1, <2>1, StartKeeps
  <2> QED BY <1>1, <2>1, <2>2, <2>3, InvIsNext DEF InvNext
<1>3. CASE RetryAggressiveLocking
  <2>1. PICK old \in BOOLEAN : txn' = retryAggressiveLocking(txn, old)
    BY <1>3 DEF RetryAggressiveLocking
  <2>2. /\ txn.agg.on /\ ts < MaxTS /\ ts' = ts + 1 /\ stmtTS' = ts + 1 /\ calls' = "none"
        /\ inserted' = inserted \cap Recorded(txn') /\ lock' = lock /\ latest' = latest /\ call' = call /\ status' = status
    BY <1>3 DEF RetryAggressiveLocking, NewAttempt, Inserted
  <2>3. Inv(lock, latest, ts + 1, ts + 1, "none", txn', NoCall, "open", {})
    BY <1>1, <2>1, <2>2, RetryKeeps
  <2>4. Inv(lock, latest, ts + 1, ts + 1, "none", txn', NoCall, "open", inserted \cap Recorded(txn'))
    BY <1>7, <2>3, WithInserts
  <2> QED BY <1>1, <2>2, <2>4, InvIsNext DEF InvNext
<1>4. CASE CancelAggressiveLocking
  <2>1. txn' = cancelAggressiveLocking(txn)
    BY <1>4 DEF CancelAggressiveLocking
  <2>2. /\ txn.agg.on /\ ts < MaxTS /\ ts' = ts + 1 /\ stmtTS' = ts + 1 /\ calls' = "none"
        /\ inserted' = inserted \cap Recorded(txn') /\ lock' = lock /\ latest' = latest /\ call' = call /\ status' = status
    BY <1>4 DEF CancelAggressiveLocking, NewAttempt, Inserted
  <2>3. Inv(lock, latest, ts + 1, ts + 1, "none", txn', NoCall, "open", {})
    BY <1>1, <2>1, <2>2, CancelKeeps
  <2>4. Inv(lock, latest, ts + 1, ts + 1, "none", txn', NoCall, "open", inserted \cap Recorded(txn'))
    BY <1>7, <2>3, WithInserts
  <2> QED BY <1>1, <2>2, <2>4, InvIsNext DEF InvNext
<1>5. CASE DoneAggressiveLocking
  <2>1. txn' = doneAggressiveLocking(txn)
    BY <1>5 DEF DoneAggressiveLocking
  <2>2. /\ txn.agg.on /\ ts < MaxTS /\ ts' = ts + 1 /\ stmtTS' = ts + 1 /\ calls' = "none"
        /\ inserted' = inserted \cap Recorded(txn') /\ lock' = lock /\ latest' = latest /\ call' = call /\ status' = status
    BY <1>5 DEF DoneAggressiveLocking, NewAttempt, Inserted
  <2>3. Inv(lock, latest, ts + 1, ts + 1, "none", txn', NoCall, "open", {})
    BY <1>1, <2>1, <2>2, DoneKeeps
  <2>4. Inv(lock, latest, ts + 1, ts + 1, "none", txn', NoCall, "open", inserted \cap Recorded(txn'))
    BY <1>7, <2>3, WithInserts
  <2> QED BY <1>1, <2>2, <2>4, InvIsNext DEF InvNext
<1>6. CASE NextStatement
  <2>1. /\ ~txn.agg.on /\ ts < MaxTS /\ ts' = ts + 1 /\ stmtTS' = ts + 1 /\ calls' = "none"
        /\ inserted' = inserted \cap Recorded(txn') /\ lock' = lock /\ latest' = latest /\ call' = call /\ status' = status
        /\ txn' = txn
    BY <1>6 DEF NextStatement, NewAttempt, Inserted
  <2>2. Inv(lock, latest, ts + 1, ts + 1, "none", txn, NoCall, "open", {})
    BY <1>1, <2>1, NextStatementKeeps
  <2>3. Inv(lock, latest, ts + 1, ts + 1, "none", txn, NoCall, "open", inserted \cap Recorded(txn))
    BY <1>7, <2>2, WithInserts
  <2> QED BY <1>1, <2>1, <2>3, InvIsNext DEF InvNext
<1> QED BY <1>2, <1>3, <1>4, <1>5, <1>6

(* The keys of a call that may be inserted: what is recorded of them tells   *)
(* that they do not exist.                                                  *)
LEMMA MayInsert ==
    ASSUME NEW t, NEW keysInput, Idling(lock, latest, ts, stmtTS, calls, t, {}), t.agg.on => t = txn,
           InsertsKnown(lock, latest, inserted), ~FailsEarly(t, keysInput, "insert"),
           \A k \in keysInput : TellsExistence(txn.agg.cur, k) /\ TellsExistence(txn.agg.last, k),
           NEW k \in keysInput, k \in Recorded(t), lock[k] # NoLock
    PROVE  latest[k] = 0
<1>1. Tidy(t) /\ AbsentKnown(lock, latest, t) /\ t \in TxnState
  BY TxnType DEF Idling, Quiet, Tidy
<1>2. k \in Keys
  BY <1>1, TxnFacts DEF Recorded, HeldBy
<1>3. ~KnownToExist(t, k)
  BY DEF FailsEarly
<1>4. CASE k \in t.flags
  BY <1>1, <1>2, <1>3, <1>4 DEF KnownToExist, AbsentKnown
<1>5. CASE k \in DOMAIN t.agg.cur \/ k \in DOMAIN t.agg.last
  <2>1. t = txn
    BY <1>1, <1>5 DEF Tidy
  <2>2. k \in inserted \/ Missing(t.agg.cur, k) \/ Missing(t.agg.last, k)
    BY <1>3, <1>5, <2>1 DEF KnownToExist, TellsExistence, Missing
  <2> QED BY <1>1, <1>2, <2>2 DEF AbsentKnown, InsertsKnown
<1> QED BY <1>4, <1>5 DEF Recorded, HeldBy

LEMMA LockKeysStep ==
    ASSUME LockInv, Ordinarily, NEW keysInput \in (SUBSET Keys) \ {{}}, NEW mode \in Modes,
           LockKeys(keysInput, mode)
    PROVE  LockInv'
<1>0. Idle /\ Ordinary(keysInput, mode) /\ lock' = lock /\ latest' = latest /\ ts' = ts
      /\ stmtTS' = stmtTS /\ status' = status
  BY DEF LockKeys
<1>1. Idling(lock, latest, ts, stmtTS, calls, txn, inserted) /\ call = NoCall /\ status = "open"
  BY <1>0, IdleNow
<1>2. /\ calls # "failed"
      /\ Cardinality(keysInput) > 1 /\ txn.agg.on => calls = "none"
      /\ mode = "insert" => \A k \in keysInput : /\ TellsExistence(txn.agg.cur, k)
                                                 /\ TellsExistence(txn.agg.last, k)
      /\ mode = "ifExists" => DOMAIN txn.agg.last = {}
  BY <1>0, EmptyMap DEF Ordinary, Ordinarily
<1>3. mode \in AllModes
  BY ConstantsOK
<1>4. PICK t0 : t0 = exitAggressiveLockingIfInapplicable(txn, keysInput)
  OBVIOUS
<1>5. PICK keys : keys = ToLock(t0, keysInput)
  OBVIOUS
<1>6. PICK as \in BOOLEAN : as = (t0.primary = NoKey)
  OBVIOUS
<1>7. PICK t1 : t1 = Chosen(t0, keys, stmtTS)
  OBVIOUS
<1>8. PICK k : k = Min(keys)
  OBVIOUS
<1>9. PICK u : u = Filtered(t1, k, mode, as)
  OBVIOUS
<1>16. PICK more : more = IF mode = "insert" THEN inserted \cup keysInput ELSE inserted
  OBVIOUS
<1>10. \/ txn' = t0 /\ calls' = "failed" /\ call' = call /\ inserted' = inserted \cap Recorded(txn')
       \/ /\ ~FailsEarly(t0, keysInput, mode) /\ calls' = "some"
          /\ txn' = IF keys = {} THEN t0 ELSE IF t1.agg.on THEN u ELSE t1
          /\ call' = IF keys = {} \/ (t1.agg.on /\ skips(t1, k, mode)) THEN NoCall
                     ELSE NewCall(keys, mode, as)
          /\ inserted' = more \cap Recorded(txn')
  BY <1>4, <1>5, <1>6, <1>7, <1>8, <1>9, <1>16 DEF LockKeys, Chosen, Filtered, NewCall, Inserted
<1>11. /\ Idling(lock, latest, ts, stmtTS, calls, t0, {})
       /\ DOMAIN t0.agg.last \subseteq DOMAIN txn.agg.last
       /\ t0.agg.on => ~(Cardinality(keysInput) > 1) /\ t0 = txn
  BY <1>1, <1>2, <1>4, ExitKeeps
<1>12. keys = keysInput \ HeldBy(t0) /\ keys \in SUBSET Keys
  BY <1>5 DEF ToLock, HeldBy
<1>17. InsertsKnown(lock, latest, inserted) /\ \A S : InsertsKnown(lock, latest, inserted \cap S)
  BY <1>1 DEF Idling, InsertsKnown
<1>14. CASE /\ txn' = t0 /\ calls' = "failed" /\ call' = call
            /\ inserted' = inserted \cap Recorded(txn')
  <2>1. Inv(lock, latest, ts, stmtTS, "failed", t0, NoCall, "open", {})
    BY <1>11, NoRequestKeeps
  <2>2. Inv(lock, latest, ts, stmtTS, "failed", t0, NoCall, "open", inserted \cap Recorded(t0))
    BY <1>17, <2>1, WithInserts
  <2> QED BY <1>0, <1>1, <1>14, <2>2, InvIsNext DEF InvNext
<1>15. CASE /\ ~FailsEarly(t0, keysInput, mode) /\ calls' = "some"
            /\ txn' = IF keys = {} THEN t0 ELSE IF t1.agg.on THEN u ELSE t1
            /\ call' = IF keys = {} \/ (t1.agg.on /\ skips(t1, k, mode)) THEN NoCall
                       ELSE NewCall(keys, mode, as)
            /\ inserted' = more \cap Recorded(txn')
  <2>1. t0 \in TxnState /\ stmtTS \in Nat
    BY <1>11, TxnType DEF Idling, Quiet, Tidy
  <2>6. ASSUME mode = "insert", NEW j \in keysInput, j \in Recorded(t0), lock[j] # NoLock
        PROVE  latest[j] = 0
    BY <1>2, <1>11, <1>15, <1>17, <2>6, MayInsert
  <2>7. ASSUME NEW w, NEW c, Inv(lock, latest, ts, stmtTS, "some", w, c, "open", {}),
               txn' = w, call' = c,
               \A j \in keysInput \cap Recorded(w) : j \in Recorded(t0)
        PROVE  LockInv'
    <3>1. InsertsKnown(lock, latest, more \cap Recorded(w))
      BY <1>16, <1>17, <2>6, <2>7 DEF InsertsKnown
    <3>2. Inv(lock, latest, ts, stmtTS, "some", w, c, "open", more \cap Recorded(w))
      BY <2>7, <3>1, WithInserts
    <3> QED BY <1>0, <1>1, <1>15, <2>7, <3>2, InvIsNext DEF InvNext
  <2>8. ASSUME keys # {}, NEW w,
               Inv(lock, latest, ts, stmtTS, "some", w, NewCall(keys, mode, as), "open", {})
        PROVE  \A j \in keysInput \cap Recorded(w) : j \in Recorded(t0)
    <3>1. PICK c : c = NewCall(keys, mode, as)
      OBVIOUS
    <3>2. NewlyCalled(c, keys, mode, as)
      BY <1>3, <1>12, <2>8, <3>1, NewCallFacts
    <3>3. c.keys = keys /\ c # NoCall
      BY <3>2 DEF NewlyCalled
    <3>4. keys \cap Recorded(w) = {}
      BY <2>8, <3>1, <3>3 DEF Inv, Open, CallKnown
    <3> QED BY <1>12, <3>4 DEF Recorded
  <2>9. CASE keys = {}
    <3>1. Inv(lock, latest, ts, stmtTS, "some", t0, NoCall, "open", {})
      BY <1>2, <1>11, NoRequestKeeps
    <3>2. txn' = t0 /\ call' = NoCall
      BY <1>15, <2>9
    <3> QED BY <2>7, <3>1, <3>2
  <2>2. ASSUME keys # {} PROVE t1.agg.on <=> t0.agg.on
    <3>1. SameAttempt(t0.agg, t1.agg)
      BY <1>7, <1>12, <2>2, <2>1, ChosenFacts
    <3> QED BY <3>1 DEF SameAttempt
  <2>3. as <=> t0.primary = NoKey
    BY <1>6
  <2>4. CASE keys # {} /\ ~t0.agg.on
    <3>1. mode = "ifExists" /\ t0.primary = NoKey => ~(Cardinality(keys) > 1)
      BY <1>5, <1>15 DEF FailsEarly
    <3>2. Inv(lock, latest, ts, stmtTS, "some", t1, NewCall(keys, mode, as), "open", {})
      BY <1>2, <1>3, <1>7, <1>11, <1>12, <2>3, <2>4, <3>1, PlainKeeps
    <3>3. txn' = t1 /\ call' = NewCall(keys, mode, as)
      BY <1>15, <2>2, <2>4
    <3> QED BY <2>4, <2>7, <2>8, <3>2, <3>3
  <2>5. CASE keys # {} /\ t0.agg.on
    <3>1. PICK j \in Keys : keysInput = {j}
      BY <1>11, <2>5, SetFacts
    <3>2. keys = {j}
      BY <1>12, <2>5, <3>1
    <3>3. k = j
      BY <1>8, <1>12, <2>5, <3>2, MinIn
    <3>4. /\ k \in Keys /\ k \notin HeldBy(t0) /\ keys = {k}
          /\ mode = "insert" /\ k \in DOMAIN t0.agg.last /\ lock[k] # NoLock => latest[k] = 0
          /\ mode = "ifExists" => DOMAIN t0.agg.last = {}
      BY <1>2, <1>11, <1>12, <2>6, <3>1, <3>2, <3>3 DEF Recorded
    <3>5. /\ skips(t1, k, mode) =>
                /\ Inv(lock, latest, ts, stmtTS, "some", u, NoCall, "open", {})
                /\ k \in DOMAIN t0.agg.last
          /\ ~skips(t1, k, mode) =>
                Inv(lock, latest, ts, stmtTS, "some", u, NewCall(keys, mode, as), "open", {})
      <4>1. SkipsOrCalls(lock, latest, ts, stmtTS, t0, t1, k, mode, u, NewCall(keys, mode, as))
        BY <1>2, <1>3, <1>7, <1>9, <1>11, <2>3, <2>5, <3>4, AggressiveKeeps
      <4> QED BY <4>1 DEF SkipsOrCalls
    <3>6. CASE skips(t1, k, mode)
      <4>1. txn' = u /\ call' = NoCall
        BY <1>15, <2>2, <2>5, <3>6
      <4>2. \A i \in keysInput \cap Recorded(u) : i \in Recorded(t0)
        BY <3>1, <3>3, <3>5, <3>6 DEF Recorded
      <4> QED BY <2>7, <3>5, <3>6, <4>1, <4>2
    <3>7. CASE ~skips(t1, k, mode)
      <4>1. txn' = u /\ call' = NewCall(keys, mode, as)
        BY <1>15, <2>2, <2>5, <3>7
      <4> QED BY <2>5, <2>7, <2>8, <3>5, <3>7, <4>1
    <3> QED BY <3>6, <3>7
  <2> QED BY <2>4, <2>5, <2>9
<1> QED BY <1>10, <1>14, <1>15

LEMMA Waits ==
    ASSUME LockInv, NEW k, Requested(k)
    PROVE  /\ Calling(lock, latest, ts, stmtTS, txn, call, inserted) /\ status = "open"
           /\ calls = "some" /\ call # NoCall /\ call \in CallState /\ ~call.waiting
           /\ k \in call.todo /\ k \in Keys /\ (txn.primary \in call.todo => k = txn.primary)
           /\ Busy(lock, latest, ts, stmtTS, txn, call) /\ ts \in Nat /\ stmtTS \in Nat
<1>1. /\ status = "open" /\ call # NoCall /\ ~call.waiting /\ k \in call.todo
      /\ (txn.primary \in call.todo => k = txn.primary)
  BY DEF Requested
<1>2. Calling(lock, latest, ts, stmtTS, txn, call, inserted) /\ calls = "some"
  BY <1>1, CallNow
<1>3. /\ call \in CallState /\ Busy(lock, latest, ts, stmtTS, txn, call)
      /\ ts \in Nat /\ stmtTS \in Nat
  BY <1>2 DEF Calling
<1>4. k \in Keys
  BY <1>1, <1>3, CallFacts
<1> QED BY <1>1, <1>2, <1>3, <1>4

(* The lock that a request writes: one of this attempt is never found.     *)
LEMMA MutationIs ==
    ASSUME LockInv, Ordinarily, NEW k, Requested(k)
    PROVE  pessimisticLockMutation(k) =
             IF call.mode = "ifExists" /\ ~(latest[k] > 0) THEN lock
             ELSE [lock EXCEPT ![k] = [fts |-> IF latest[k] > txn.fts THEN latest[k] ELSE txn.fts,
                                       primary |-> txn.primary]]
<1>1. /\ call \in CallState /\ ~call.waiting /\ k \in call.todo
      /\ Busy(lock, latest, ts, stmtTS, txn, call) /\ ts \in Nat /\ stmtTS \in Nat
  BY Waits
<1>2. Requestable(lock, ts, stmtTS, txn, call, k)
  BY <1>1, RequestedKey
<1>3. lock[k] # NoLock => lock[k].fts \in Nat /\ lock[k].fts < txn.fts /\ txn.fts \in Nat
  BY <1>1, <1>2 DEF Requestable
<1>4. ~(lock[k] # NoLock /\ lock[k].fts >= txn.fts)
  BY <1>3
<1> QED BY <1>4 DEF pessimisticLockMutation, ForceLockTS, Conflicts, Exists, Ordinarily

(* A request writes the lock of a key that is not recorded.                *)
LEMMA RequestedInserts ==
    ASSUME NEW l, NEW v, NEW n, NEW s, NEW t, NEW c, NEW ins, Calling(l, v, n, s, t, c, ins),
           NEW k \in c.todo, NEW m, NEW x, m = l \/ m = [l EXCEPT ![k] = x]
    PROVE  InsertsKnown(m, v, ins)
<1>1. /\ InsertsKnown(l, v, ins) /\ ins \subseteq Recorded(t) /\ Tidy(t)
      /\ c.todo \subseteq c.keys /\ c.keys \cap Recorded(t) = {} /\ Bounded(l, v, n, t)
  BY DEF Calling, Busy, CallKnown
<1>2. l \in [Keys -> [fts : 0..n, primary : KeyOrNone]]
  BY <1>1 DEF Bounded
<1>3. \A j \in ins : j \in Keys /\ j # k
  BY <1>1, RecordedKeys
<1>4. \A j \in ins : m[j] = l[j]
  BY <1>2, <1>3
<1> QED BY <1>1, <1>4, InsertsStay

LEMMA GrantedKeeps ==
    ASSUME NEW l, NEW v, NEW n, NEW s, NEW t, NEW c, NEW ins, Calling(l, v, n, s, t, c, ins),
           ~c.waiting, NEW k \in c.todo, t.primary \in c.todo => k = t.primary,
           v[k] > t.fts => t.agg.on /\ c.mode # "insert", v[k] > 0 => c.mode # "insert",
           NEW m,
           m = IF c.mode = "ifExists" /\ ~(v[k] > 0) THEN l
               ELSE [l EXCEPT ![k] = [fts |-> IF v[k] > t.fts THEN v[k] ELSE t.fts,
                                      primary |-> t.primary]],
           NEW u, u = IF k = t.primary THEN run(t) ELSE t,
           NEW d, d = GrantedCall(v, t, c, k)
    PROVE  Inv(m, v, n, s, "some", u, d, "open", ins) /\ d # NoCall
<1>1. /\ Busy(l, v, n, s, t, c) /\ c \in CallState /\ n \in Nat /\ n <= MaxTS /\ s \in Nat /\ s <= n
  BY DEF Calling
<1>2. Busy(m, v, n, s, u, d) /\ d \in CallState /\ Recorded(u) = Recorded(t)
  BY <1>1, GrantedBusy
<1>3. d # NoCall
  BY <1>2, CallFacts
<1>4. InsertsKnown(m, v, ins)
  <2>1. PICK x : m = l \/ m = [l EXCEPT ![k] = x]
    OBVIOUS
  <2> QED BY <1>1, <2>1, RequestedInserts
<1>5. Calling(m, v, n, s, u, d, ins)
  BY <1>1, <1>2, <1>4 DEF Calling
<1> QED BY <1>3, <1>5, CallInv

LEMMA GrantedStep ==
    ASSUME LockInv, Ordinarily, NEW k \in Keys, LockGranted(k)
    PROVE  LockInv'
<1>1. Requested(k) /\ PessimisticLock(k).ok
  BY DEF LockGranted
<1>2. /\ Calling(lock, latest, ts, stmtTS, txn, call, inserted) /\ status = "open"
      /\ calls = "some" /\ ~call.waiting /\ k \in call.todo
      /\ (txn.primary \in call.todo => k = txn.primary)
  BY <1>1, Waits
<1>3. ~Refused(k)
  BY <1>1 DEF PessimisticLock
<1>4. /\ latest[k] > txn.fts => txn.agg.on /\ call.mode # "insert"
      /\ latest[k] > 0 => call.mode # "insert"
  BY <1>3 DEF Refused, Conflicts, Exists
<1>5. /\ PessimisticLock(k).lock = pessimisticLockMutation(k)
      /\ PessimisticLock(k).lwc = IF Conflicts(k) THEN [j \in {k} |-> latest[k]] ELSE <<>>
      /\ PessimisticLock(k).notFound = IF ReturnValues(call.mode) /\ ~Exists(k) THEN {k} ELSE {}
  BY <1>3 DEF PessimisticLock
<1>6. /\ lock' = pessimisticLockMutation(k) /\ call' = GrantedCall(latest, txn, call, k)
      /\ txn' = IF k = txn.primary THEN run(txn) ELSE txn
  BY <1>5 DEF LockGranted, GrantedCall, Conflicts, Exists, handlePessimisticLockResponse
<1>7. lock' = IF call.mode = "ifExists" /\ ~(latest[k] > 0) THEN lock
             ELSE [lock EXCEPT ![k] = [fts |-> IF latest[k] > txn.fts THEN latest[k] ELSE txn.fts,
                                       primary |-> txn.primary]]
  BY <1>1, <1>6, MutationIs
<1>8. Inv(lock', latest, ts, stmtTS, "some", txn', call', "open", inserted)
  BY <1>2, <1>4, <1>6, <1>7, GrantedKeeps
<1>9. latest' = latest /\ ts' = ts /\ stmtTS' = stmtTS /\ calls' = calls /\ status' = status
      /\ inserted' = inserted
  BY DEF LockGranted
<1> QED BY <1>2, <1>8, <1>9, InvIsNext DEF InvNext

LEMMA FailedKeeps ==
    ASSUME NEW l, NEW v, NEW n, NEW s, NEW t, NEW c, NEW ins, Calling(l, v, n, s, t, c, ins),
           ~c.waiting, NEW k \in c.todo, t.primary \in c.todo => k = t.primary,
           NEW err \in {"refused", "failed", "deadlock"},
           err = "refused" => v[k] # 0 /\ (t.agg.on => c.mode = "insert"),
           NEW m, FailedLock(l, t, k, err, m),
           NEW d, d = FailedCall(t, c, k, err)
    PROVE  Inv(m, v, n, s, "some", t, d, "open", ins) /\ d # NoCall
<1>1. /\ Busy(l, v, n, s, t, c) /\ c \in CallState /\ n \in Nat /\ n <= MaxTS /\ s \in Nat /\ s <= n
  BY DEF Calling
<1>2. Busy(m, v, n, s, t, d) /\ d \in CallState
  BY <1>1, FailedBusy
<1>3. d # NoCall
  BY <1>2, CallFacts
<1>4. InsertsKnown(m, v, ins)
  <2>1. m = l \/ m = [l EXCEPT ![k] = [fts |-> t.fts, primary |-> t.primary]]
    BY DEF FailedLock
  <2> QED BY <2>1, RequestedInserts
<1>5. Calling(m, v, n, s, t, d, ins)
  BY <1>1, <1>2, <1>4 DEF Calling
<1> QED BY <1>3, <1>5, CallInv

LEMMA FailedSteps ==
    ASSUME LockInv, Ordinarily, NEW k \in Keys, LockRefused(k) \/ LockFailed(k)
    PROVE  LockInv'
<1>1. Requested(k)
  BY DEF LockRefused, LockFailed
<1>2. /\ Calling(lock, latest, ts, stmtTS, txn, call, inserted) /\ status = "open"
      /\ calls = "some" /\ ~call.waiting /\ k \in call.todo
      /\ (txn.primary \in call.todo => k = txn.primary)
  BY <1>1, Waits
<1>3. /\ latest' = latest /\ ts' = ts /\ stmtTS' = stmtTS /\ calls' = calls /\ status' = status
      /\ inserted' = inserted /\ txn' = txn
  BY DEF LockRefused, LockFailed
<1>4. \E err \in {"refused", "failed", "deadlock"} :
         /\ call' = FailedCall(txn, call, k, err)
         /\ err = "refused" => latest[k] # 0 /\ (txn.agg.on => call.mode = "insert")
         /\ FailedLock(lock, txn, k, err, lock')
  <2>1. CASE LockRefused(k)
    <3>1. Refused(k)
      BY <2>1 DEF LockRefused, PessimisticLock
    <3>2. txn.agg.on => call.mode = "insert"
      BY <3>1 DEF Refused
    <3>3. call' = FailedCall(txn, call, k, "refused") /\ lock' = lock
      BY <2>1 DEF LockRefused, FailBatch, FailedCall
    <3>4. latest[k] # 0
      <4>1. latest[k] \in Nat /\ txn.fts \in Nat
        BY <1>2, LockFacts, TxnType, TxnFacts DEF Calling, Busy, Tidy
      <4> QED BY <3>1, <4>1 DEF Refused, Conflicts, Exists
    <3> QED BY <3>2, <3>3, <3>4 DEF FailedLock
  <2>2. CASE LockFailed(k)
    <3>1. PICK err \in {"failed", "deadlock"} : FailBatch(k, err)
      BY <2>2 DEF LockFailed
    <3>2. call' = FailedCall(txn, call, k, err)
      BY <3>1 DEF FailBatch, FailedCall
    <3>3. \/ lock' = lock
          \/ ~Conflicts(k) /\ PessimisticLock(k).ok /\ lock' = PessimisticLock(k).lock
      BY <2>2 DEF LockFailed, Ordinarily
    <3>4. ASSUME ~Conflicts(k), PessimisticLock(k).ok, lock' = PessimisticLock(k).lock
          PROVE  \/ lock' = lock
                 \/ lock' = [lock EXCEPT ![k] = [fts |-> txn.fts, primary |-> txn.primary]]
      <4>1. lock' = pessimisticLockMutation(k)
        BY <3>4 DEF PessimisticLock
      <4> QED BY <1>1, <3>4, <4>1, MutationIs DEF Conflicts
    <3> QED BY <3>1, <3>2, <3>3, <3>4 DEF FailedLock
  <2> QED BY <2>1, <2>2
<1>5. PICK err \in {"refused", "failed", "deadlock"} :
         /\ call' = FailedCall(txn, call, k, err)
         /\ err = "refused" => latest[k] # 0 /\ (txn.agg.on => call.mode = "insert")
         /\ FailedLock(lock, txn, k, err, lock')
  BY <1>4
<1>6. Inv(lock', latest, ts, stmtTS, "some", txn, call', "open", inserted)
  BY <1>2, <1>5, FailedKeeps
<1> QED BY <1>2, <1>3, <1>6, InvIsNext DEF InvNext

(* A call that returns with an error.                                      *)
LEMMA ReturnKeeps ==
    ASSUME NEW l, NEW v, NEW n \in Nat, NEW s \in Nat, NEW t, NEW c \in CallState, NEW ins,
           Ended(l, v, n, s, t, c), n <= MaxTS, s <= n, InsertsKnown(l, v, ins),
           ins \subseteq Recorded(t),
           NEW u, u = Forgets(t, c)
    PROVE  Inv(l, v, n, s, "failed", u, NoCall, "open", ins)
<1>1. Returned(l, v, n, s, t, c, u)
  BY ReturnsQuiet
<1>2. Quiet(l, v, n, u) /\ Fresh(l, n, s, "failed", u, NoCall) /\ Recorded(u) = Recorded(t)
  BY <1>1 DEF Returned
<1>3. Idling(l, v, n, s, "failed", u, ins)
  BY <1>2 DEF Idling
<1> QED BY <1>3, IdleInv

LEMMA FailsKeeps ==
    ASSUME NEW l, NEW v, NEW n, NEW s, NEW t, NEW c, NEW ins, Calling(l, v, n, s, t, c, ins),
           c.todo = {}, c.err # "nil", NEW u, u = RolledBack(Counted(t, c), c)
    PROVE  /\ c.err = "deadlock" =>
                Inv(l, v, n, s, "some", u, [c EXCEPT !.waiting = TRUE], "open", ins)
           /\ Inv(l, v, n, s, "failed", Forgets(u, c), NoCall, "open", ins)
<1>1. /\ Busy(l, v, n, s, t, c) /\ c \in CallState /\ n \in Nat /\ n <= MaxTS /\ s \in Nat /\ s <= n
      /\ InsertsKnown(l, v, ins) /\ ins \subseteq Recorded(t)
  BY DEF Calling
<1>2. PICK w : w = Counted(t, c)
  OBVIOUS
<1>3. Busy(l, v, n, s, w, c) /\ Recorded(w) = Recorded(t)
  BY <1>1, <1>2, CountedBusy
<1>4. u = RolledBack(w, c)
  BY <1>2
<1>5. ASSUME c.err = "deadlock"
      PROVE  Inv(l, v, n, s, "some", u, [c EXCEPT !.waiting = TRUE], "open", ins)
  <2>1. PICK d : d = [c EXCEPT !.waiting = TRUE]
    OBVIOUS
  <2>2. Busy(l, v, n, s, u, d) /\ d \in CallState /\ Recorded(u) = Recorded(w)
    BY <1>1, <1>3, <1>4, <1>5, <2>1, WaitsBusy
  <2>3. Calling(l, v, n, s, u, d, ins)
    BY <1>1, <1>3, <2>2 DEF Calling
  <2>4. d # NoCall
    BY <2>2, CallFacts
  <2>5. Inv(l, v, n, s, "some", u, d, "open", ins)
    BY <2>3, <2>4, CallInv
  <2> QED BY <2>1, <2>5
<1>6. Inv(l, v, n, s, "failed", Forgets(u, c), NoCall, "open", ins)
  <2>1. Ended(l, v, n, s, u, c) /\ Recorded(u) = Recorded(w)
    BY <1>1, <1>3, <1>4, FailsEnded
  <2>2. ins \subseteq Recorded(u)
    BY <1>1, <1>3, <2>1
  <2> QED BY <1>1, <2>1, <2>2, ReturnKeeps
<1> QED BY <1>5, <1>6

LEMMA WaitedKeeps ==
    ASSUME NEW l, NEW v, NEW n, NEW s, NEW t, NEW c, NEW ins, Calling(l, v, n, s, t, c, ins),
           c.waiting
    PROVE  Inv(l, v, n, s, "failed", Forgets(t, c), NoCall, "open", ins)
<1>1. /\ Busy(l, v, n, s, t, c) /\ c \in CallState /\ n \in Nat /\ n <= MaxTS /\ s \in Nat /\ s <= n
      /\ InsertsKnown(l, v, ins) /\ ins \subseteq Recorded(t)
  BY DEF Calling
<1>2. Ended(l, v, n, s, t, c)
  BY <1>1, WaitedEnded
<1> QED BY <1>1, <1>2, ReturnKeeps

(* A call that returns without an error.                                   *)
Unset(t, c) == IF c.assigned /\ c.mode = "ifExists" /\ t.primary \in c.absent
               THEN resetPrimary(t, FALSE) ELSE t

LEMMA DoneCallKeeps ==
    ASSUME NEW l, NEW v, NEW n, NEW s, NEW t, NEW c, NEW ins, Calling(l, v, n, s, t, c, ins),
           c.todo = {}, c.err = "nil", NEW w, w = Counted(t, c),
           NEW u, u = Records(Unset(w, c), c, Locked(c)), NEW more,
           more = IF c.mode = "insert" THEN ins \cup c.keys ELSE ins
    PROVE  Inv(l, v, n, s, "some", u, NoCall, "open", more \cap Recorded(u))
<1>1. /\ Busy(l, v, n, s, t, c) /\ c \in CallState /\ n \in Nat /\ n <= MaxTS /\ s \in Nat /\ s <= n
      /\ InsertsKnown(l, v, ins) /\ ins \subseteq Recorded(t)
  BY DEF Calling
<1>2. Busy(l, v, n, s, w, c) /\ Recorded(w) = Recorded(t) /\ (w.agg.on => MaxLWC(c) <= w.agg.maxLWC)
  BY <1>1, CountedBusy
<1>3. CASE c.assigned /\ c.mode = "ifExists" /\ w.primary \in c.absent
  <2>1. PICK x : x = Forgets(w, c)
    OBVIOUS
  <2>2. Unset(w, c) = x
    BY <1>3, <2>1 DEF Unset, Forgets
  <2>3. /\ Quiet(l, v, n, x) /\ Fresh(l, n, s, "some", x, NoCall)
        /\ Recorded(x) = Recorded(w) /\ Locked(c) = {}
    BY <1>1, <1>2, <1>3, <2>1, AbsentQuiet
  <2>4. x \in TxnState
    BY <2>3, TxnType DEF Quiet, Tidy
  <2>5. u = x
    BY <2>2, <2>3, <2>4, RecordsNone
  <2>6. more \cap Recorded(u) = ins
    BY <1>1, <1>2, <1>3, <2>3, <2>5
  <2>7. Idling(l, v, n, s, "some", u, ins)
    BY <1>1, <1>2, <2>3, <2>5 DEF Idling
  <2> QED BY <2>6, <2>7, IdleInv
<1>4. CASE ~(c.assigned /\ c.mode = "ifExists" /\ w.primary \in c.absent)
  <2>1. u = Records(w, c, Locked(c))
    BY <1>4 DEF Unset
  <2>2. /\ Quiet(l, v, n, u) /\ Fresh(l, n, s, "some", u, NoCall)
        /\ Recorded(u) = Recorded(w) \cup Locked(c)
    BY <1>1, <1>2, <1>4, <2>1, RecordedQuiet
  <2>3. AllDone(l, v, n, s, w, c)
    BY <1>1, <1>2, DoneParts
  <2>4. c.mode = "insert" => Locked(c) = c.keys /\ \A k \in c.keys : l[k] # NoLock => v[k] = 0
    BY <2>3 DEF AllDone, Locked
  <2>5. InsertsKnown(l, v, more \cap Recorded(u))
    BY <1>1, <2>4 DEF InsertsKnown
  <2>6. Idling(l, v, n, s, "some", u, more \cap Recorded(u))
    BY <1>1, <2>2, <2>5 DEF Idling
  <2> QED BY <2>6, IdleInv
<1> QED BY <1>3, <1>4

LEMMA FinishSteps ==
    ASSUME LockInv, LockKeysFails \/ DeadlockWaited \/ LockKeysDone
    PROVE  LockInv'
<1>1. call # NoCall /\ status = "open"
  <2>1. CASE LockKeysFails \/ LockKeysDone
    BY <2>1 DEF LockKeysFails, LockKeysDone, Idle
  <2>2. CASE DeadlockWaited
    BY <2>2 DEF DeadlockWaited, LockInv
  <2> QED BY <2>1, <2>2
<1>2. Calling(lock, latest, ts, stmtTS, txn, call, inserted) /\ calls = "some"
  BY <1>1, CallNow
<1>3. lock' = lock /\ latest' = latest /\ ts' = ts /\ stmtTS' = stmtTS /\ status' = status
  BY DEF LockKeysFails, DeadlockWaited, LockKeysDone
<1>4. CASE LockKeysFails
  <2>1. PICK u : u = RolledBack(Counted(txn, call), call)
    OBVIOUS
  <2>2. call.todo = {} /\ call.err # "nil" /\ inserted' = inserted
    BY <1>4 DEF LockKeysFails
  <2>3. \/ /\ call.err = "deadlock" /\ txn' = u /\ call' = [call EXCEPT !.waiting = TRUE]
           /\ calls' = calls
        \/ txn' = Forgets(u, call) /\ call' = NoCall /\ calls' = "failed"
    BY <1>4, <2>1 DEF LockKeysFails, rollbackFailedLock, RolledBack, WithMaxLWC, Counted, Returns,
                      Forgets
  <2>4. /\ call.err = "deadlock" =>
             Inv(lock, latest, ts, stmtTS, "some", u, [call EXCEPT !.waiting = TRUE], "open", inserted)
        /\ Inv(lock, latest, ts, stmtTS, "failed", Forgets(u, call), NoCall, "open", inserted)
    BY <1>2, <2>1, <2>2, FailsKeeps
  <2> QED BY <1>1, <1>2, <1>3, <2>2, <2>3, <2>4, InvIsNext DEF InvNext
<1>5. CASE DeadlockWaited
  <2>1. /\ call.waiting /\ txn' = Forgets(txn, call) /\ call' = NoCall /\ calls' = "failed"
        /\ inserted' = inserted
    BY <1>5 DEF DeadlockWaited, Returns, Forgets
  <2>2. Inv(lock, latest, ts, stmtTS, "failed", txn', NoCall, "open", inserted)
    BY <1>2, <2>1, WaitedKeeps
  <2> QED BY <1>1, <1>3, <2>1, <2>2, InvIsNext DEF InvNext
<1>6. CASE LockKeysDone
  <2>1. PICK w : w = Counted(txn, call)
    OBVIOUS
  <2>2. PICK t : t = Unset(w, call)
    OBVIOUS
  <2>3. /\ call.todo = {} /\ call.err = "nil" /\ call' = NoCall /\ calls' = calls
        /\ inserted' = (IF call.mode = "insert" THEN inserted \cup call.keys ELSE inserted)
                          \cap Recorded(txn')
    BY <1>6 DEF LockKeysDone, Inserted
  <2>4. t.fts = txn.fts
    <3>1. txn \in TxnState /\ MaxLWC(call) \in Nat
      <4>1. CallKnown(lock, latest, ts, stmtTS, txn, call) /\ call \in CallState /\ ts \in Nat
            /\ stmtTS \in Nat
        BY <1>2 DEF Calling, Busy
      <4> QED BY <1>2, <4>1, LargestLWC, TxnType DEF Calling, Busy, Tidy
    <3>2. w \in TxnState /\ w.fts = txn.fts
      <4>1. OnlyLWC(txn, w)
        BY <2>1, <3>1, CountedFacts
      <4> QED BY <4>1 DEF OnlyLWC
    <3>3. CASE t = w
      BY <3>2, <3>3
    <3>4. CASE t = resetPrimary(w, FALSE)
      <4>1. UnsetResult(w, t)
        BY <3>2, <3>4, UnsetFacts
      <4> QED BY <3>2, <4>1 DEF UnsetResult
    <3> QED BY <2>2, <3>3, <3>4 DEF Unset
  <2>5. \A k : entryOf(k) = EntryFor(t, call, k)
    BY <2>4 DEF entryOf, EntryFor, lwcOf
  <2>6. [k \in Locked(call) |-> entryOf(k)] = [k \in Locked(call) |-> EntryFor(t, call, k)]
    BY <2>5
  <2>7. txn' = [(IF t.agg.on
                 THEN [t EXCEPT !.agg.cur = Merge([k \in Locked(call) |-> entryOf(k)], @)]
                 ELSE [t EXCEPT !.flags = @ \cup Locked(call),
                                !.notExist = @ \cup (Locked(call) \cap call.absent)])
                   EXCEPT !.lockedCnt = @ + Cardinality(Locked(call))]
    BY <1>6, <2>1, <2>2 DEF LockKeysDone, WithMaxLWC, Counted, unsetPrimaryKeyIfNeeded, Unset, Locked,
                            CountLocked
  <2>8. txn' = Records(t, call, Locked(call))
    BY <2>6, <2>7 DEF Records
  <2>9. PICK more : more = IF call.mode = "insert" THEN inserted \cup call.keys ELSE inserted
    OBVIOUS
  <2>10. PICK u : u = Records(Unset(w, call), call, Locked(call))
    OBVIOUS
  <2>11. Inv(lock, latest, ts, stmtTS, "some", u, NoCall, "open", more \cap Recorded(u))
    BY <1>2, <2>1, <2>3, <2>9, <2>10, DoneCallKeeps
  <2>12. txn' = u /\ inserted' = more \cap Recorded(u)
    BY <2>2, <2>3, <2>8, <2>9, <2>10
  <2> QED BY <1>1, <1>2, <1>3, <2>3, <2>11, <2>12, InvIsNext DEF InvNext
<1> QED BY <1>4, <1>5, <1>6

(* A transaction that is not open keeps its accounts only.                 *)
LEMMA OtherInv ==
    ASSUME NEW l, NEW v, NEW n, NEW s, NEW cs, NEW t, NEW c, NEW st, NEW ins,
           Inv(l, v, n, s, cs, t, c, st, ins), NEW m, NEW w, NEW u, Tidy(u), Bounded(m, w, n, u),
           st = "open" => Open(m, w, n, s, cs, u, c) /\ Recorded(u) = Recorded(t),
           InsertsKnown(m, w, ins), st = "rolledBack" => \A k \in Keys : Covered(m, u, k)
    PROVE  Inv(m, w, n, s, cs, u, c, st, ins)
BY DEF Inv

LEMMA BackgroundKeeps ==
    ASSUME NEW l, NEW v, NEW n, NEW s, NEW cs, NEW t, NEW c, NEW st, NEW ins,
           Inv(l, v, n, s, cs, t, c, st, ins), NEW r \in t.bg,
           NEW m, m = pessimisticRollbackKey(l, r.key, r.fts),
           NEW u, u = [t EXCEPT !.bg = @ \ {r}]
    PROVE  Inv(m, v, n, s, cs, u, c, st, ins)
<1>1. /\ Tidy(t) /\ Bounded(l, v, n, t) /\ n \in Nat /\ s \in Nat
      /\ c # NoCall => c \in CallState /\ cs = "some"
  BY DEF Inv
<1>2. /\ Tidy(u) /\ Bounded(m, v, n, u)
      /\ (\A k \in Keys : Covered(l, t, k)) => \A k \in Keys : Covered(m, u, k)
  <2>1. StillCovered(l, t, v, n, m, u)
    BY <1>1, BackgroundCovers
  <2> QED BY <2>1 DEF StillCovered
<1>3. ASSUME st = "open" PROVE Open(m, v, n, s, cs, u, c) /\ Recorded(u) = Recorded(t)
  <2>1. Open(l, v, n, s, cs, t, c)
    BY <1>3 DEF Inv
  <2> QED BY <1>1, <2>1, BackgroundOpen
<1>4. st = "rolledBack" => \A k \in Keys : Covered(m, u, k)
  BY <1>2 DEF Inv
<1>5. InsertsKnown(m, v, ins)
  <2>1. r.key \in Keys /\ r.fts \in Nat
    BY <1>1, TxnType, TxnFacts DEF Tidy
  <2>2. Gone(l, v, n, t, r.key, r.fts, m)
    BY <1>1, <2>1, RollbackGone
  <2>3. \A j \in Keys : m[j] \in {l[j], NoLock}
    BY <2>2 DEF Gone
  <2> QED BY <2>3, InsertsStay DEF Inv
<1> QED BY <1>2, <1>3, <1>4, <1>5, OtherInv

LEMMA StopsKeeps ==
    ASSUME NEW l, NEW v, NEW n, NEW s, NEW cs, NEW t, NEW c, NEW st, NEW ins,
           Inv(l, v, n, s, cs, t, c, st, ins),
           t.beat = "beats", ~(l[t.ttl] # NoLock /\ l[t.ttl].primary = t.ttl),
           NEW u, u = [t EXCEPT !.beat = "none"]
    PROVE  Inv(l, v, n, s, cs, u, c, st, ins)
<1>1. /\ Tidy(t) /\ Bounded(l, v, n, t) /\ n \in Nat
      /\ c # NoCall => c \in CallState /\ cs = "some"
  BY DEF Inv
<1>2. t \in TxnState
  BY <1>1, TxnType DEF Tidy
<1>3. SameAccounts(t, u)
  BY <1>2, StopFacts
<1>4. Tidy(u) /\ Bounded(l, v, n, u)
  BY <1>1, <1>3, SameBase
<1>5. ASSUME st = "open" PROVE Open(l, v, n, s, cs, u, c) /\ Recorded(u) = Recorded(t)
  <2>1. Open(l, v, n, s, cs, t, c)
    BY <1>5 DEF Inv
  <2> QED BY <1>1, <2>1, StopsOpen
<1>6. st = "rolledBack" => \A k \in Keys : Covered(l, u, k)
  BY <1>3, SameSets DEF Inv
<1>7. InsertsKnown(l, v, ins)
  BY DEF Inv
<1> QED BY <1>4, <1>5, <1>6, <1>7, OtherInv

LEMMA OverKeeps ==
    ASSUME NEW l, NEW v, NEW n, NEW s, NEW cs, NEW t, NEW c, NEW st, NEW ins,
           Inv(l, v, n, s, cs, t, c, st, ins), t.beat = "beats",
           NEW u, u = [t EXCEPT !.beat = "over"]
    PROVE  Inv(l, v, n, s, cs, u, c, st, ins)
<1>1. Tidy(t) /\ Bounded(l, v, n, t) /\ n \in Nat /\ InsertsKnown(l, v, ins)
  BY DEF Inv
<1>2. t \in TxnState
  BY <1>1, TxnType DEF Tidy
<1>3. SameAccounts(t, u)
  BY <1>2, StopFacts
<1>4. Tidy(u) /\ Bounded(l, v, n, u)
  BY <1>1, <1>3, SameBase
<1>5. ASSUME st = "open" PROVE Open(l, v, n, s, cs, u, c) /\ Recorded(u) = Recorded(t)
  <2>1. Open(l, v, n, s, cs, t, c)
    BY <1>5 DEF Inv
  <2> QED BY <1>1, <2>1, OverOpen
<1>6. st = "rolledBack" => \A k \in Keys : Covered(l, u, k)
  BY <1>3, SameSets DEF Inv
<1> QED BY <1>1, <1>4, <1>5, <1>6, OtherInv

LEMMA AgeKeeps ==
    ASSUME NEW l, NEW v, NEW n, NEW s, NEW cs, NEW t, NEW c, NEW st, NEW ins,
           Inv(l, v, n, s, cs, t, c, st, ins), NEW u, u = [t EXCEPT !.agg.lastOld = TRUE]
    PROVE  Inv(l, v, n, s, cs, u, c, st, ins)
<1>1. Tidy(t) /\ Bounded(l, v, n, t) /\ n \in Nat
  BY DEF Inv
<1>2. t \in TxnState
  BY <1>1, TxnType DEF Tidy
<1>3. SameAccounts(t, u)
  BY <1>2, AgeFacts
<1>4. Tidy(u) /\ Bounded(l, v, n, u)
  BY <1>1, <1>3, SameBase
<1>5. ASSUME st = "open" PROVE Open(l, v, n, s, cs, u, c) /\ Recorded(u) = Recorded(t)
  <2>1. Open(l, v, n, s, cs, t, c)
    BY <1>5 DEF Inv
  <2> QED BY <1>1, <2>1, AgeOpen
<1>6. st = "rolledBack" => \A k \in Keys : Covered(l, u, k)
  BY <1>3, SameSets DEF Inv
<1> QED BY <1>4, <1>5, <1>6 DEF Inv

LEMMA ExpireKeeps ==
    ASSUME NEW l, NEW v, NEW n, NEW s, NEW cs, NEW t, NEW c, NEW ins,
           Inv(l, v, n, s, cs, t, c, "open", ins),
           NEW k \in Keys, l[k] # NoLock,
           \/ t.beat = "over"
           \/ /\ c # NoCall => k \notin c.keys
              /\ ~(t.beat = "beats" /\ l[k].primary = t.ttl)
              /\ k \in DOMAIN t.agg.last => t.agg.lastOld,
           NEW m, m = [l EXCEPT ![k] = NoLock]
    PROVE  Inv(m, v, n, s, cs, t, c, "open", ins)
<1>1. /\ Open(l, v, n, s, cs, t, c) /\ n \in Nat
      /\ c # NoCall => c \in CallState /\ cs = "some"
  BY DEF Inv
<1>2. Open(m, v, n, s, cs, t, c)
  BY <1>1, ExpireOpen
<1>3. InsertsKnown(m, v, ins)
  <2>1. l \in [Keys -> [fts : 0..n, primary : KeyOrNone]]
    BY <1>1 DEF Open, Bounded
  <2>2. \A j \in Keys : m[j] \in {l[j], NoLock}
    BY <2>1
  <2> QED BY <2>2, InsertsStay DEF Inv
<1> QED BY <1>2, <1>3 DEF Inv, Open

LEMMA OtherKeeps ==
    ASSUME NEW l, NEW v, NEW n, NEW s, NEW cs, NEW t, NEW c, NEW ins,
           Inv(l, v, n, s, cs, t, c, "open", ins), n < MaxTS,
           NEW k \in Keys, l[k] = NoLock,
           NEW w, w = [v EXCEPT ![k] = n + 1]
    PROVE  Inv(l, w, n + 1, s, cs, t, c, "open", ins)
<1>1. /\ Open(l, v, n, s, cs, t, c) /\ n \in Nat /\ s \in 0..n
      /\ c # NoCall => c \in CallState /\ cs = "some"
  BY DEF Inv
<1>2. Open(l, w, n + 1, s, cs, t, c) /\ \A j \in Keys \ {k} : w[j] = v[j]
  <2>1. s \in Nat
    BY <1>1
  <2>2. Committed(l, v, w, n + 1, s, cs, t, c, k)
    BY <1>1, <2>1, OtherOpen
  <2> QED BY <2>2 DEF Committed
<1>3. n + 1 \in Nat /\ n + 1 <= MaxTS /\ s \in 0..(n + 1)
  BY <1>1, ConstantsOK
<1>4. InsertsKnown(l, w, ins)
  <2>1. InsertsKnown(l, v, ins) /\ ins \subseteq Keys
    BY DEF Inv
  <2> QED BY <1>2, <2>1 DEF InsertsKnown
<1> QED BY <1>2, <1>3, <1>4 DEF Inv, Open

LEMMA OutsideSteps ==
    ASSUME LockInv, \/ Age \/ BackgroundRollback \/ HeartbeatStops \/ keepAliveEnds
                    \/ \E k \in Keys : Expire(k) \/ OtherCommits(k)
    PROVE  LockInv'
<1>1. Inv(lock, latest, ts, stmtTS, calls, txn, call, status, inserted)
  BY InvIs
<1>2. CASE Age
  <2>1. /\ txn' = [txn EXCEPT !.agg.lastOld = TRUE]
        /\ lock' = lock /\ latest' = latest /\ ts' = ts /\ stmtTS' = stmtTS /\ calls' = calls
        /\ call' = call /\ status' = status /\ inserted' = inserted
    BY <1>2 DEF Age
  <2>2. Inv(lock, latest, ts, stmtTS, calls, txn', call, status, inserted)
    BY <1>1, <2>1, AgeKeeps
  <2> QED BY <2>1, <2>2, InvIsNext DEF InvNext
<1>3. CASE BackgroundRollback
  <2>1. PICK r \in txn.bg :
          /\ lock' = pessimisticRollbackKey(lock, r.key, r.fts) /\ txn' = [txn EXCEPT !.bg = @ \ {r}]
          /\ latest' = latest /\ ts' = ts /\ stmtTS' = stmtTS /\ calls' = calls
          /\ call' = call /\ status' = status /\ inserted' = inserted
    BY <1>3 DEF BackgroundRollback
  <2>2. Inv(lock', latest, ts, stmtTS, calls, txn', call, status, inserted)
    BY <1>1, <2>1, BackgroundKeeps
  <2> QED BY <2>1, <2>2, InvIsNext DEF InvNext
<1>4. CASE HeartbeatStops
  <2>1. /\ txn.beat = "beats" /\ ~(lock[txn.ttl] # NoLock /\ lock[txn.ttl].primary = txn.ttl)
        /\ lock' = lock /\ latest' = latest /\ ts' = ts /\ stmtTS' = stmtTS /\ calls' = calls
        /\ call' = call /\ status' = status /\ inserted' = inserted
    BY <1>4 DEF HeartbeatStops, TxnHeartBeat
  <2>2. txn' = [txn EXCEPT !.beat = "none"]
    BY <1>4 DEF HeartbeatStops, sendTxnHeartBeat
  <2>3. Inv(lock, latest, ts, stmtTS, calls, txn', call, status, inserted)
    BY <1>1, <2>1, <2>2, StopsKeeps
  <2> QED BY <2>1, <2>3, InvIsNext DEF InvNext
<1>5. ASSUME NEW k \in Keys, Expire(k) PROVE LockInv'
  <2>1. /\ status = "open" /\ lock[k] # NoLock
        /\ \/ txn.beat = "over"
           \/ /\ call # NoCall => k \notin call.keys
              /\ ~(txn.beat = "beats" /\ lock[k].primary = txn.ttl)
              /\ k \in DOMAIN txn.agg.last => txn.agg.lastOld
    BY <1>5 DEF Expire
  <2>2. /\ lock' = [lock EXCEPT ![k] = NoLock]
        /\ latest' = latest /\ ts' = ts /\ stmtTS' = stmtTS /\ calls' = calls /\ txn' = txn
        /\ call' = call /\ status' = status /\ inserted' = inserted
    BY <1>5 DEF Expire
  <2>3. Inv(lock', latest, ts, stmtTS, calls, txn, call, "open", inserted)
    BY <1>1, <2>1, <2>2, ExpireKeeps
  <2> QED BY <2>1, <2>2, <2>3, InvIsNext DEF InvNext
<1>6. ASSUME NEW k \in Keys, OtherCommits(k) PROVE LockInv'
  <2>1. /\ status = "open" /\ lock[k] = NoLock /\ ts < MaxTS /\ ts' = ts + 1
        /\ latest' = [latest EXCEPT ![k] = ts + 1]
        /\ lock' = lock /\ stmtTS' = stmtTS /\ calls' = calls /\ txn' = txn
        /\ call' = call /\ status' = status /\ inserted' = inserted
    BY <1>6 DEF OtherCommits
  <2>2. Inv(lock, latest', ts + 1, stmtTS, calls, txn, call, "open", inserted)
    BY <1>1, <2>1, OtherKeeps
  <2> QED BY <2>1, <2>2, InvIsNext DEF InvNext
<1>7. CASE keepAliveEnds
  <2>1. /\ txn.beat = "beats" /\ txn' = [txn EXCEPT !.beat = "over"]
        /\ lock' = lock /\ latest' = latest /\ ts' = ts /\ stmtTS' = stmtTS /\ calls' = calls
        /\ call' = call /\ status' = status /\ inserted' = inserted
    BY <1>7 DEF keepAliveEnds
  <2>2. Inv(lock, latest, ts, stmtTS, calls, txn', call, status, inserted)
    BY <1>1, <2>1, OverKeeps
  <2> QED BY <2>1, <2>2, InvIsNext DEF InvNext
<1> QED BY <1>2, <1>3, <1>4, <1>5, <1>6, <1>7

(* Rollback removes what is recorded; the rest is going to be removed.      *)
LEMMA RollbackCovers ==
    ASSUME NEW l, NEW v, NEW n \in Nat, NEW t, Quiet(l, v, n, t), ~t.agg.on,
           NEW u, u = reset(t), NEW m, m = rollbackPessimisticLocks(t, l)
    PROVE  /\ Tidy(u) /\ Bounded(m, v, n, u) /\ \A k \in Keys : Covered(m, u, k)
           /\ \A k \in Keys : m[k] \in {l[k], NoLock}
<1>1. /\ t \in TxnState /\ l \in [Keys -> [fts : 0..n, primary : KeyOrNone]]
      /\ Bounded(l, v, n, t) /\ Tidy(t)
  BY TxnType DEF Quiet, Tidy, Bounded
<1>2. /\ u \in TxnState /\ SameRecords(t, u) /\ u.primary = t.primary /\ u.fts = t.fts
      /\ u.ttl = NoKey /\ u.beat = "none" /\ u.lockedCnt = t.lockedCnt /\ u.agg = t.agg
      /\ u.bg = t.bg
  BY <1>1, ResetFacts
<1>3. Tidy(u) /\ Bounded(l, v, n, u)
  <2>1. HeldBy(u) = HeldBy(t) /\ Recorded(u) = Recorded(t)
    BY <1>2 DEF HeldBy, Recorded, SameRecords
  <2>2. Tidy(u)
    BY <1>1, <1>2, <2>1, TxnType DEF Tidy, SameRecords
  <2> QED BY <1>1, <1>2, <2>2 DEF Bounded, SameRecords
<1>4. \A k : Covered(l, u, k) <=> Covered(l, t, k)
  BY <1>2 DEF Covered
<1>5. HeldBy(t) = t.flags /\ Recorded(t) = t.flags /\ t.flags \in SUBSET Keys
  BY <1>1, TxnFacts DEF Tidy, HeldBy, Recorded
<1>6. \A k \in Keys \ t.flags : Covered(l, t, k)
  BY <1>5 DEF Quiet, Accounted, NoCall
<1>7. CASE t.lockedCnt = 0
  <2>1. m = l
    BY <1>7 DEF rollbackPessimisticLocks
  <2>2. t.flags = {}
    <3>1. 0 >= Cardinality(t.flags)
      BY <1>1, <1>5, <1>7 DEF Tidy
    <3> QED BY <1>5, <3>1, SetFacts
  <2> QED BY <1>3, <1>4, <1>6, <2>1, <2>2
<1>8. CASE t.lockedCnt # 0
  <2>1. PICK f : f = MaxOf(t.fts, t.maxLWC)
    OBVIOUS
  <2>2. m = [k \in Keys |-> IF k \in t.flags THEN pessimisticRollbackKey(l, k, f)[k] ELSE l[k]]
    BY <1>8, <2>1 DEF rollbackPessimisticLocks
  <2>3. ASSUME NEW k \in t.flags PROVE pessimisticRollbackKey(l, k, f)[k] = NoLock
    <3>1. l[k].fts <= f
      BY <1>5, <2>1 DEF Quiet, RecordsRight
    <3> QED BY <1>1, <1>5, <3>1 DEF pessimisticRollbackKey
  <2>4. \A k \in Keys : m[k] = IF k \in t.flags THEN NoLock ELSE l[k]
    BY <2>2, <2>3
  <2>5. m \in [Keys -> [fts : 0..n, primary : KeyOrNone]]
    <3>1. NoLock \in [fts : 0..n, primary : KeyOrNone]
      BY DEF NoLock, KeyOrNone
    <3>2. \A k \in Keys : m[k] \in [fts : 0..n, primary : KeyOrNone]
      BY <1>1, <2>4, <3>1
    <3>3. m = [k \in Keys |-> m[k]]
      BY <2>2
    <3> QED BY <3>2, <3>3
  <2>6. Bounded(m, v, n, u)
    BY <1>3, <2>5 DEF Bounded
  <2>7. \A k \in Keys : Covered(m, u, k)
    BY <1>4, <1>6, <2>4 DEF Covered
  <2> QED BY <1>3, <2>4, <2>6, <2>7
<1> QED BY <1>7, <1>8

(* What ends: a refused transaction, one that rolled back, one that commits.*)
LEMMA EndedInv ==
    ASSUME NEW l, NEW v, NEW n, NEW s, NEW cs, NEW t, NEW ins, Idling(l, v, n, s, cs, t, ins),
           NEW st \in {"refused", "rolledBack", "committing"}, NEW m, NEW u,
           Tidy(u), Bounded(m, v, n, u), \A k \in Keys : m[k] \in {l[k], NoLock},
           st = "rolledBack" => \A k \in Keys : Covered(m, u, k)
    PROVE  Inv(m, v, n, s, cs, u, NoCall, st, ins)
<1>1. n \in Nat /\ n <= MaxTS /\ s \in 0..n /\ cs \in {"none", "some", "failed"}
  BY DEF Idling
<1>2. InsertsKnown(l, v, ins) /\ ins \subseteq Keys
  BY IdleInv DEF Inv
<1>3. InsertsKnown(m, v, ins)
  BY <1>2, InsertsStay
<1> QED BY <1>1, <1>2, <1>3 DEF Inv

LEMMA CancelledQuiet ==
    ASSUME NEW l, NEW v, NEW n \in Nat, NEW t, Quiet(l, v, n, t),
           NEW u, u = IF t.agg.on THEN cancelAggressiveLocking(t) ELSE t
    PROVE  Quiet(l, v, n, u) /\ ~u.agg.on
<1>1. CASE t.agg.on
  <2>1. u = cancelAggressiveLocking(t) /\ t \in TxnState
    BY <1>1, TxnType DEF Quiet, Tidy
  <2>2. u.agg = NoAgg
    BY <2>1, CancelFacts
  <2>3. Quiet(l, v, n, u)
    BY <1>1, <2>1, CancelQuiet
  <2> QED BY <2>2, <2>3, AggFacts
<1>2. CASE ~t.agg.on
  BY <1>2
<1> QED BY <1>1, <1>2

LEMMA EndSteps ==
    ASSUME LockInv, Rollback \/ Commit
    PROVE  LockInv'
<1>0. Idle
  BY DEF Rollback, Commit
<1>1. Idling(lock, latest, ts, stmtTS, calls, txn, inserted) /\ call = NoCall /\ status = "open"
  BY <1>0, IdleNow
<1>2. /\ latest' = latest /\ ts' = ts /\ stmtTS' = stmtTS /\ calls' = calls /\ call' = call
      /\ inserted' = inserted
  BY DEF Rollback, Commit
<1>3. /\ Quiet(lock, latest, ts, txn) /\ ts \in Nat
      /\ Tidy(txn) /\ Bounded(lock, latest, ts, txn)
  BY <1>1 DEF Idling, Quiet
<1>4. PICK t : t = IF txn.agg.on THEN cancelAggressiveLocking(txn) ELSE txn
  OBVIOUS
<1>5. Quiet(lock, latest, ts, t) /\ ~t.agg.on
  BY <1>3, <1>4, CancelledQuiet
<1>6. CASE status' = "refused" /\ lock' = lock /\ txn' = txn
  <2>1. Inv(lock, latest, ts, stmtTS, calls, txn, NoCall, "refused", inserted)
    BY <1>1, <1>3, EndedInv
  <2> QED BY <1>1, <1>2, <1>6, <2>1, InvIsNext DEF InvNext
<1>7. CASE /\ status' = "rolledBack" /\ txn' = reset(t)
           /\ lock' = rollbackPessimisticLocks(t, lock)
  <2>1. PICK u : u = reset(t)
    OBVIOUS
  <2>2. PICK m : m = rollbackPessimisticLocks(t, lock)
    OBVIOUS
  <2>3. /\ Tidy(u) /\ Bounded(m, latest, ts, u) /\ \A k \in Keys : Covered(m, u, k)
        /\ \A k \in Keys : m[k] \in {lock[k], NoLock}
    BY <1>3, <1>5, <2>1, <2>2, RollbackCovers
  <2>4. Inv(m, latest, ts, stmtTS, calls, u, NoCall, "rolledBack", inserted)
    BY <1>1, <2>3, EndedInv
  <2> QED BY <1>1, <1>2, <1>7, <2>1, <2>2, <2>4, InvIsNext DEF InvNext
<1>8. CASE status' = "committing" /\ lock' = lock /\ txn' = t
  <2>1. Tidy(t) /\ Bounded(lock, latest, ts, t)
    BY <1>5 DEF Quiet
  <2>2. Inv(lock, latest, ts, stmtTS, calls, t, NoCall, "committing", inserted)
    BY <1>1, <2>1, EndedInv
  <2> QED BY <1>1, <1>2, <1>8, <2>2, InvIsNext DEF InvNext
<1>9. CASE Rollback
  <2>1. CASE txn.agg.on /\ txn.agg.cur # <<>>
    <3>1. status' = "refused" /\ lock' = lock /\ txn' = txn
      BY <1>9, <2>1 DEF Rollback
    <3> QED BY <1>6, <3>1
  <2>2. CASE ~(txn.agg.on /\ txn.agg.cur # <<>>)
    <3>1. status' = "rolledBack" /\ txn' = reset(t) /\ lock' = rollbackPessimisticLocks(t, lock)
      BY <1>4, <1>9, <2>2 DEF Rollback
    <3> QED BY <1>7, <3>1
  <2> QED BY <2>1, <2>2
<1>10. CASE Commit
  <2>1. CASE txn.agg.on /\ txn.agg.cur # <<>>
    <3>1. status' = "refused" /\ lock' = lock /\ txn' = txn
      BY <1>10, <2>1 DEF Commit
    <3> QED BY <1>6, <3>1
  <2>2. CASE ~(txn.agg.on /\ txn.agg.cur # <<>>)
    <3>1. status' = "committing" /\ txn' = t /\ lock' = lock
      BY <1>4, <1>10, <2>2 DEF Commit
    <3> QED BY <1>8, <3>1
  <2> QED BY <2>1, <2>2
<1> QED BY <1>9, <1>10

-----------------------------------------------------------------------------
(* The theorems.                                                           *)

LEMMA InitInv ==
    ASSUME Init
    PROVE  LockInv
<1>1. /\ lock = [k \in Keys |-> NoLock] /\ latest \in [Keys -> {0, 1}]
      /\ ts = 2 /\ stmtTS = 2 /\ calls = "none"
      /\ call = NoCall /\ status = "open" /\ inserted = {}
  BY DEF Init
<1>2. PICK t : t = [flags |-> {}, notExist |-> {}, checks |-> <<>>, primary |-> NoKey, fts |-> 0,
                    maxLWC |-> 0, ttl |-> NoKey, beat |-> "none", lockedCnt |-> 0,
                    agg |-> NoAgg, bg |-> {}]
  OBVIOUS
<1>3. txn = t
  BY <1>2 DEF Init
<1>4. t \in TxnState
  BY <1>2, AggFacts, EmptyMap DEF TxnState, KeyOrNone
<1>5. /\ t.flags = {} /\ t.notExist = {} /\ t.beat = "none" /\ t.checks = <<>> /\ t.primary = NoKey /\ t.fts = 0 /\ t.maxLWC = 0
      /\ t.ttl = NoKey /\ t.lockedCnt = 0 /\ t.agg = NoAgg /\ t.bg = {}
  BY <1>2
<1>6. HeldBy(t) = {} /\ Recorded(t) = {}
  BY <1>5, AggFacts DEF HeldBy, Recorded
<1>7. PICK l : l = [k \in Keys |-> NoLock]
  OBVIOUS
<1>8. \A k \in Keys : l[k] = NoLock
  BY <1>7
<1>9. l \in [Keys -> [fts : 0..2, primary : KeyOrNone]] /\ latest \in [Keys -> 0..2]
  BY <1>1, <1>7 DEF NoLock, KeyOrNone
<1>10. Tidy(t)
  <2>1. Cardinality(Recorded(t)) = 0
    BY <1>6, FS_EmptySet
  <2>2. t.lockedCnt >= Cardinality(Recorded(t))
    BY <1>5, <2>1
  <2> QED BY <1>4, <1>5, <1>6, <2>2, AggFacts, EmptyMap, TxnType DEF Tidy
<1>11. Bounded(l, latest, 2, t)
  BY <1>5, <1>9, AggFacts DEF Bounded
<1>12. PrimaryKnown(t) /\ HeldKept(l, t) /\ RecordsRight(l, t) /\ LastKept(l, t)
  BY <1>5, <1>6, AggFacts, EmptyMap DEF PrimaryKnown, HeldKept, RecordsRight, LastKept
<1>13. NothingKept(l, t) /\ Accounted(l, t, NoCall) /\ AbsentKnown(l, latest, t)
  BY <1>5, <1>8, AggFacts DEF NothingKept, Accounted, Covered, AbsentKnown
<1>14. Fresh(l, 2, 2, "none", t, NoCall)
  BY <1>5, <1>8, AggFacts DEF Fresh
<1>15. Quiet(l, latest, 2, t)
  BY <1>5, <1>10, <1>11, <1>12, <1>13 DEF Quiet
<1>16. 2 <= MaxTS
  BY ConstantsOK
<1>17. Idling(l, latest, 2, 2, "none", t, {})
  BY <1>14, <1>15, <1>16, NoInserts DEF Idling
<1>18. Inv(l, latest, 2, 2, "none", t, NoCall, "open", {})
  BY <1>17, IdleInv
<1> QED BY <1>1, <1>3, <1>7, <1>18, InvIs

(* LockInv is inductive: it holds initially and every step keeps it.        *)
THEOREM Invariance == Ordinarily => (Spec => []LockInv)
<1> SUFFICES ASSUME Ordinarily PROVE Spec => []LockInv
  OBVIOUS
<1>1. Init => LockInv
  BY InitInv
<1>2. LockInv /\ [Next]_vars => LockInv'
  <2> SUFFICES ASSUME LockInv, [Next]_vars PROVE LockInv'
    OBVIOUS
  <2>1. CASE UNCHANGED vars
    <3>1. /\ lock' = lock /\ latest' = latest /\ ts' = ts /\ stmtTS' = stmtTS /\ calls' = calls
          /\ txn' = txn /\ call' = call /\ status' = status /\ inserted' = inserted
      BY <2>1 DEF vars
    <3> QED BY <3>1, InvIs, InvIsNext DEF InvNext
  <2>2. CASE \/ StartAggressiveLocking \/ RetryAggressiveLocking \/ CancelAggressiveLocking
             \/ DoneAggressiveLocking \/ NextStatement
    BY <2>2, AttemptSteps
  <2>3. ASSUME NEW keys \in (SUBSET Keys) \ {{}}, NEW mode \in Modes, LockKeys(keys, mode)
        PROVE  LockInv'
    BY <2>3, LockKeysStep
  <2>4. ASSUME NEW k \in Keys, LockGranted(k) PROVE LockInv'
    BY <2>4, GrantedStep
  <2>5. ASSUME NEW k \in Keys, LockRefused(k) \/ LockFailed(k) PROVE LockInv'
    BY <2>5, FailedSteps
  <2>6. CASE LockKeysFails \/ DeadlockWaited \/ LockKeysDone
    BY <2>6, FinishSteps
  <2>7. CASE \/ Age \/ BackgroundRollback \/ HeartbeatStops \/ keepAliveEnds
             \/ \E k \in Keys : Expire(k) \/ OtherCommits(k)
    BY <2>7, OutsideSteps
  <2>8. CASE Rollback \/ Commit
    BY <2>8, EndSteps
  <2> QED BY <2>1, <2>2, <2>3, <2>4, <2>5, <2>6, <2>7, <2>8 DEF Next
<1> QED BY <1>1, <1>2, PTL DEF Spec

(* All that the client believes of its locks is so: the bookkeeping is      *)
(* consistent; what it takes to be held is locked under a primary that the  *)
(* ttlManager was started for, unless keepAlive has ended by itself, when a *)
(* lock may be gone but never names another primary; and the forUpdateTS    *)
(* the prewrite will insist on is that of the lock.                         *)
THEOREM RecordTrue == Ordinarily => (Spec => []LockRecordTrue)
<1> SUFFICES ASSUME Ordinarily PROVE Spec => []LockRecordTrue
  OBVIOUS
<1>1. LockInv => LockRecordTrue
  <2> SUFFICES ASSUME LockInv PROVE LockRecordTrue
    OBVIOUS
  <2>1. /\ Tidy(txn) /\ Bounded(lock, latest, ts, txn) /\ ts \in Nat /\ ts <= MaxTS
        /\ stmtTS \in 0..ts /\ status \in {"open", "refused", "rolledBack", "committing"}
    BY DEF LockInv
  <2>2. txn \in TxnState
    BY <2>1, TxnType DEF Tidy
  <2>3. TypeOK
    <3>1. 0..ts \subseteq 0..MaxTS
      BY <2>1, ConstantsOK
    <3>2. /\ lock \in [Keys -> [fts : 0..MaxTS, primary : Keys \cup {NoKey}]]
          /\ latest \in [Keys -> 0..MaxTS]
      BY <2>1, <3>1 DEF Bounded, KeyOrNone
    <3>3. /\ txn.primary \in Keys \cup {NoKey} /\ txn.ttl \in Keys \cup {NoKey}
          /\ txn.flags \subseteq Keys
      BY <2>2, TxnFacts DEF KeyOrNone
    <3>4. DOMAIN txn.agg.cur \cap DOMAIN txn.agg.last = {}
      BY <2>1 DEF Tidy, HeldBy
    <3>5. txn.lockedCnt >= Cardinality(Held \cup DOMAIN txn.agg.last)
      BY <2>1 DEF Tidy, Recorded, HeldBy, Held
    <3> QED BY <2>1, <3>2, <3>3, <3>4, <3>5 DEF TypeOK
  <2>4. HeldLocksProtected
    BY DEF LockInv, HeldKept, Kept, HeldLocksProtected, Held, Idle
  <2>5. ConstraintMatchesLock
    BY DEF LockInv, RecordsRight, ConstraintMatchesLock, Idle
  <2> QED BY <2>3, <2>4, <2>5 DEF LockRecordTrue
<1>2. Ordinarily => (Spec => []LockInv)
  BY Invariance
<1> QED BY <1>1, <1>2, PTL

(* No lock is orphaned: each is recorded, the running call's, or the        *)
(* target of a background rollback that will remove it; and after Rollback  *)
(* the background rollbacks leave none.                                     *)
THEOREM NoOrphan == Ordinarily => (Spec => []NoOrphanLock)
<1> SUFFICES ASSUME Ordinarily PROVE Spec => []NoOrphanLock
  OBVIOUS
<1>1. LockInv => NoOrphanLock
  <2> SUFFICES ASSUME LockInv PROVE NoOrphanLock
    OBVIOUS
  <2>1. ASSUME status = "open", NEW k \in Keys, lock[k] # NoLock
        PROVE  \/ k \in Held \cup DOMAIN txn.agg.last
               \/ call # NoCall /\ k \in call.keys
               \/ \E r \in txn.bg : r.key = k /\ r.fts >= lock[k].fts
    <3>1. Accounted(lock, txn, call)
      BY <2>1 DEF LockInv
    <3>2. k \in Recorded(txn) => k \in Held \cup DOMAIN txn.agg.last
      BY DEF Recorded, HeldBy, Held
    <3>3. k \in call.keys => call # NoCall
      BY DEF NoCall
    <3> QED BY <2>1, <3>1, <3>2, <3>3 DEF Accounted, Covered
  <2>2. ASSUME status = "rolledBack", txn.bg = {}, NEW k \in Keys
        PROVE  lock[k] = NoLock
    BY <2>2 DEF LockInv, Covered
  <2> QED BY <2>1, <2>2 DEF NoOrphanLock
<1>2. Ordinarily => (Spec => []LockInv)
  BY Invariance
<1> QED BY <1>1, <1>2, PTL

(* A key accepted for an insert has no version as long as its lock is       *)
(* there: one locked by a request, one that was locked before and known to  *)
(* be absent, and one taken over from the last attempt of the statement.    *)
THEOREM InsertsAreNew == Ordinarily => (Spec => []InsertedKeysAreNew)
<1> SUFFICES ASSUME Ordinarily PROVE Spec => []InsertedKeysAreNew
  OBVIOUS
<1>1. LockInv => InsertedKeysAreNew
  BY DEF LockInv, InsertsKnown, InsertedKeysAreNew
<1>2. Ordinarily => (Spec => []LockInv)
  BY Invariance
<1> QED BY <1>1, <1>2, PTL
=============================================================================
