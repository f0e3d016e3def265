------------------------- MODULE RegionRequestProofs -------------------------
(***************************************************************************)
(* Proof that the senders of requests keep their flags honest, never use a *)
(* region that was dropped and try each peer a bounded number of times,    *)
(* for any requests, scenarios and number of stores, as long as no stale   *)
(* read has a busy threshold.                                              *)
(*                                                                         *)
(* A step of a sender replaces its selector (OneStep) and changes regions  *)
(* without dropping one that is in use (Holds).                            *)
(***************************************************************************)
EXTENDS RegionRequest, FiniteSetTheorems, NaturalsInduction, WellFoundedInduction, TLAPS

EnvTyped ==
    /\ leader \in Store /\ up \subseteq Store /\ cut \subseteq Store
    /\ store \in [Store -> [live : {"reachable", "unreachable", "unknown"}, loop : BOOLEAN, resolve : {"resolved", "needCheck"}]]
    /\ conf \in [forward : BOOLEAN, peers : 1 .. N, errs : SUBSET RegionErrors, victims : SUBSET Store]
RegionsTyped == region \in [Object -> Regions \cup {None}] /\ cached \in Object /\ region[cached] # None
Fine(q) == q \in Selectors /\ Placed(q) /\ Honest(q) /\ Bounded(q)
Uses(q, rg) == q.pc \in Active => rg[q.obj] # None
Parts ==
    /\ EnvTyped /\ RegionsTyped
    /\ sel \in [Request -> Selectors] /\ \A r \in Request : Fine(sel[r]) /\ Uses(sel[r], region)

LEMMA InvIsParts == RequestInv <=> Parts
BY DEF RequestInv, Parts, EnvTyped, RegionsTyped, Fine, Uses

-----------------------------------------------------------------------------
(* Numbers and sets.                                                       *)

LEMMA Constant ==
    /\ N \in Nat /\ MaxAttempt \in Nat /\ MaxAttempt > 1
    /\ Store \subseteq Nat /\ None \notin Store /\ None \notin Object /\ None \notin Nat
    /\ None \notin Regions
BY PeersAssumption, NoneAssumption DEF Store, Object

LEMMA PeersAreStores == EnvTyped => Peers \subseteq Store
BY PeersAssumption DEF EnvTyped, Peers, Store

LEMMA Least ==
    ASSUME NEW S \in SUBSET Nat, S # {}, NEW m, m = CHOOSE x \in S : \A y \in S : x <= y
    PROVE  m \in S
<1>1. PICK d \in S : \A e \in S : ~(<<e, d>> \in OpToRel(<, Nat))
  BY WFMin, NatLessThanWellFounded, Zenon
<1>2. \A e \in S : d <= e
  <2>1. ASSUME NEW e \in Nat, NEW f \in Nat, e < f PROVE <<e, f>> \in OpToRel(<, Nat)
    BY <2>1 DEF OpToRel
  <2>2. \A e \in S : ~(e < d)
    BY <1>1, <2>1, Zenon
  <2> QED
    BY <2>2
<1> QED
  BY <1>2

LEMMA FiniteStores == IsFiniteSet(Store) /\ Cardinality(Store) = N
<1>1. 1 \in Int /\ N \in Int /\ N >= 1
  BY PeersAssumption
<1> QED
  BY <1>1, FS_Interval DEF Store

(* There is always an object for a region that is loaded. *)
LEMMA FreeObject ==
    ASSUME NEW r \in Request
    PROVE  Object \ (Held(r) \cup {cached}) # {}
<1>1. IsFiniteSet(Request) /\ Cardinality(Request) \in Nat
  BY ScenariosAssumption, FS_CardinalityType
<1>2. IsFiniteSet(Request \ {r}) /\ Cardinality(Request \ {r}) = Cardinality(Request) - 1
  BY <1>1, FS_RemoveElement
<1>3. IsFiniteSet(Held(r)) /\ Cardinality(Held(r)) <= Cardinality(Request) - 1
  <2> DEFINE f == [q \in Request \ {r} |-> sel[q].obj]
  <2>1. Held(r) = Range(f)
    BY DEF Held, Range
  <2>2. f \in Surjection(Request \ {r}, Held(r))
    BY <2>1 DEF Surjection, Held
  <2> QED
    BY <1>2, <2>2, FS_Surjection
<1>4. IsFiniteSet(Held(r) \cup {cached}) /\ Cardinality(Held(r) \cup {cached}) <= Cardinality(Request)
  <2>1. Cardinality(Held(r)) \in Nat
    BY <1>3, FS_CardinalityType
  <2>2. /\ IsFiniteSet(Held(r) \cup {cached})
        /\ Cardinality(Held(r) \cup {cached}) \in {Cardinality(Held(r)), Cardinality(Held(r)) + 1}
    BY <1>3, FS_AddElement
  <2> QED
    BY <1>1, <1>3, <2>1, <2>2
<1>5. IsFiniteSet(Object) /\ Cardinality(Object) = Cardinality(Request) + 1
  <2>1. 1 \in Int /\ Cardinality(Request) + 1 \in Int /\ Cardinality(Request) + 1 >= 1
    BY <1>1
  <2> QED
    BY <2>1, FS_Interval DEF Object
<1>6. CASE Object \subseteq Held(r) \cup {cached}
  <2>1. Cardinality(Object) <= Cardinality(Held(r) \cup {cached})
    BY <1>4, <1>6, FS_Subset
  <2>2. Cardinality(Held(r) \cup {cached}) \in Nat
    BY <1>4, FS_CardinalityType
  <2> QED
    BY <1>1, <1>4, <1>5, <2>1, <2>2
<1> QED
  BY <1>6

-----------------------------------------------------------------------------
(* Attempts.                                                               *)

LEMMA TriedFacts ==
    ASSUME NEW q, NEW s
    PROVE  IsFiniteSet(Tried(q) \ {s}) /\ Cardinality(Tried(q) \ {s}) \in Nat /\ Cardinality(Tried(q) \ {s}) <= N
<1>1. Tried(q) \ {s} \subseteq Store
  BY DEF Tried
<1> QED
  BY <1>1, FiniteStores, FS_Subset, FS_CardinalityType

(* Selectors with the same counts, or less of those beyond the first try. *)
LEMMA BoundedKept ==
    ASSUME NEW q, NEW new, Bounded(q), q \in Selectors, new \in Selectors,
           \A s \in Store : new.rep[s].att <= q.rep[s].att /\ (q.rep[s].att > 0 => new.rep[s].att > 0)
    PROVE  Bounded(new)
<1>1. Tried(new) = Tried(q)
  BY DEF Tried, Selectors
<1>2. \A s \in Store : q.rep[s].att \in Nat /\ new.rep[s].att \in Nat /\ Cardinality(Tried(q) \ {s}) \in Nat
  BY TriedFacts DEF Selectors
<1> QED
  BY <1>1, <1>2, Constant DEF Bounded

LEMMA BoundedNew ==
    ASSUME NEW new, new \in Selectors, \A s \in Store : new.rep[s].att = 0
    PROVE  Bounded(new)
<1>1. \A s \in Store : Cardinality(Tried(new) \ {s}) \in Nat
  BY TriedFacts
<1> QED
  BY <1>1, Constant DEF Bounded

(* A try of a peer that may be tried. *)
LEMMA BoundedTry ==
    ASSUME NEW q, NEW new, Bounded(q), q \in Selectors, new \in Selectors, NEW t \in Store, q.rep[t].att < MaxAttempt,
           \A s \in Store : new.rep[s].att = IF s = t THEN q.rep[s].att + 1 ELSE q.rep[s].att
    PROVE  Bounded(new)
<1> SUFFICES ASSUME NEW s \in Store PROVE new.rep[s].att <= MaxAttempt + Cardinality(Tried(new) \ {s})
  BY DEF Bounded
<1>1. q.rep[s].att \in Nat /\ Cardinality(Tried(q) \ {s}) \in Nat /\ Cardinality(Tried(new) \ {s}) \in Nat
  BY TriedFacts DEF Selectors
<1>2. Tried(q) \ {s} \subseteq Tried(new) \ {s}
  BY DEF Tried, Selectors
<1>3. Cardinality(Tried(q) \ {s}) <= Cardinality(Tried(new) \ {s})
  BY <1>2, TriedFacts, FS_Subset
<1>4. q.rep[s].att <= MaxAttempt + Cardinality(Tried(q) \ {s})
  BY DEF Bounded
<1>5. CASE s = t
  BY <1>1, <1>5, Constant
<1>6. CASE s # t
  BY <1>1, <1>3, <1>4, <1>6, Constant
<1> QED
  BY <1>5, <1>6

(* A try of the leader through a proxy that was not tried. *)
LEMMA BoundedProxy ==
    ASSUME NEW q, NEW new, Bounded(q), q \in Selectors, new \in Selectors, NEW t \in Store, NEW p \in Store, p # t,
           q.rep[p].att = 0,
           \A s \in Store : new.rep[s].att = IF s \in {t, p} THEN q.rep[s].att + 1 ELSE q.rep[s].att
    PROVE  Bounded(new)
<1> SUFFICES ASSUME NEW s \in Store PROVE new.rep[s].att <= MaxAttempt + Cardinality(Tried(new) \ {s})
  BY DEF Bounded
<1>1. q.rep[s].att \in Nat /\ Cardinality(Tried(q) \ {s}) \in Nat /\ Cardinality(Tried(new) \ {s}) \in Nat
  BY TriedFacts DEF Selectors
<1>2. Tried(q) \ {s} \subseteq Tried(new) \ {s}
  BY DEF Tried, Selectors
<1>3. Cardinality(Tried(q) \ {s}) <= Cardinality(Tried(new) \ {s})
  BY <1>2, TriedFacts, FS_Subset
<1>4. q.rep[s].att <= MaxAttempt + Cardinality(Tried(q) \ {s})
  BY DEF Bounded
<1>5. CASE s = t
  <2>1. p \notin Tried(q) \ {s} /\ (Tried(q) \ {s}) \cup {p} \subseteq Tried(new) \ {s}
    BY <1>5 DEF Tried, Selectors
  <2>2. Cardinality((Tried(q) \ {s}) \cup {p}) = Cardinality(Tried(q) \ {s}) + 1
    BY <2>1, TriedFacts, FS_AddElement
  <2>3. Cardinality((Tried(q) \ {s}) \cup {p}) <= Cardinality(Tried(new) \ {s})
    BY <2>1, TriedFacts, FS_Subset
  <2> QED
    BY <1>1, <1>4, <1>5, <2>2, <2>3, Constant
<1>6. CASE s = p
  BY <1>1, <1>6, Constant
<1>7. CASE s \notin {t, p}
  BY <1>1, <1>3, <1>4, <1>7, Constant
<1> QED
  BY <1>5, <1>6, <1>7

-----------------------------------------------------------------------------
(* Regions.                                                                *)

(* Regions after a step that drops none. *)
Holds(rg) == rg \in [Object -> Regions \cup {None}] /\ \A o \in Object : region[o] # None => rg[o] # None

LEMMA HoldsItself == RegionsTyped => Holds(region)
BY DEF RegionsTyped, Holds

LEMMA HoldsInvalid ==
    ASSUME NEW rg, Holds(rg), NEW o \in Object, region[o] # None
    PROVE  Holds(invalidate(rg, o))
BY Constant DEF Holds, invalidate, Regions

LEMMA HoldsReload ==
    ASSUME NEW rg, Holds(rg), NEW o \in Object, region[o] # None
    PROVE  Holds([rg EXCEPT ![o].reload = TRUE])
BY Constant DEF Holds, Regions

LEMMA HoldsProxy ==
    ASSUME NEW rg, Holds(rg), NEW o \in Object, region[o] # None, NEW p \in Store \cup {None}
    PROVE  Holds([rg EXCEPT ![o].proxy = p])
BY Constant DEF Holds, Regions

LEMMA HoldsSwitch ==
    ASSUME NEW rg, Holds(rg), NEW o \in Object, region[o] # None, NEW s \in Store
    PROVE  Holds(switchWorkLeaderToPeer(rg, o, s))
<1>1. rg[o] \in Regions
  BY DEF Holds
<1>2. PICK x \in Regions : x = [rg[o] EXCEPT !.work = s, !.fresh = [@ EXCEPT ![s] = TRUE]]
  BY <1>1 DEF Regions
<1>3. [rg EXCEPT ![o].work = s, ![o].fresh[s] = TRUE] = [rg EXCEPT ![o] = x]
  BY <1>1, <1>2 DEF Regions, Holds
<1>4. Holds([rg EXCEPT ![o] = x])
  BY Constant DEF Holds
<1> QED
  BY <1>3, <1>4 DEF switchWorkLeaderToPeer

LEMMA HoldsStale ==
    ASSUME RegionsTyped, NEW s \in Store
    PROVE  Holds(staleRegions(s))
<1>1. \A o \in Object : region[o] # None => [region[o] EXCEPT !.fresh[s] = FALSE] \in Regions
  BY DEF RegionsTyped, Regions
<1> QED
  BY <1>1, Constant DEF RegionsTyped, Holds, staleRegions

(* What no other selector holds may be freed. *)
FreedRight(r, rg) ==
    /\ rg \in [Object -> Regions \cup {None}] /\ rg[cached] # None
    /\ \A q \in Request \ {r} : sel[q].pc \in Active => rg[sel[q].obj] # None

LEMMA FreedIsRight ==
    ASSUME Parts, NEW r \in Request, NEW rg, Holds(rg)
    PROVE  FreedRight(r, Free(rg, sel[r].obj, Held(r) \cup {cached}))
<1>1. \A q \in Request : sel[q].pc \in Active => sel[q].obj \in Object /\ region[sel[q].obj] # None
  BY DEF Parts, Uses, Fine, Placed
<1>2. cached \in Object /\ region[cached] # None
  BY DEF Parts, RegionsTyped
<1>3. sel[r].obj \in Object \cup {None}
  BY DEF Parts, Selectors
<1> QED
  BY <1>1, <1>2, <1>3 DEF FreedRight, Free, Held, Holds

LEMMA HoldsIsRight ==
    ASSUME Parts, NEW r \in Request, NEW rg, Holds(rg)
    PROVE  FreedRight(r, rg)
<1>1. \A q \in Request : sel[q].pc \in Active => sel[q].obj \in Object /\ region[sel[q].obj] # None
  BY DEF Parts, Uses, Fine, Placed
<1> QED
  BY <1>1 DEF FreedRight, Holds, Parts, RegionsTyped

-----------------------------------------------------------------------------
(* Steps of a sender.                                                      *)

(* One selector changes, and perhaps the region in the cache. *)
LEMMA OneSelector ==
    ASSUME Parts, NEW r \in Request, NEW new, Step(r, new), Fine(new), Uses(new, region'), RegionsTyped', EnvTyped',
           \A q \in Request \ {r} : sel[q].pc \in Active => region'[sel[q].obj] # None
    PROVE  Parts'
<1>1. new \in Selectors /\ sel' = [sel EXCEPT ![r] = new]
  BY DEF Fine, Step
<1>2. sel' \in [Request -> Selectors] /\ sel'[r] = new /\ \A q \in Request \ {r} : sel'[q] = sel[q]
  BY <1>1 DEF Parts
<1>3. \A q \in Request : Fine(sel'[q]) /\ Uses(sel'[q], region')
  <2> SUFFICES ASSUME NEW q \in Request PROVE Fine(sel'[q]) /\ Uses(sel'[q], region')
    OBVIOUS
  <2>1. CASE q = r
    BY <1>2, <2>1
  <2>2. CASE q # r
    BY <1>2, <2>2 DEF Parts, Uses
  <2> QED
    BY <2>1, <2>2
<1>4. (\A q \in Request : Fine(sel[q]) /\ Uses(sel[q], region))'
  BY <1>3 DEF Fine, Placed, Honest, Bounded, Uses, Tried
<1> QED
  BY <1>2, <1>4 DEF Parts

LEMMA OneStep ==
    ASSUME Parts, NEW r \in Request, NEW new, Step(r, new), Fine(new), Uses(new, region'),
           FreedRight(r, region'), UNCHANGED cached, EnvTyped'
    PROVE  Parts'
<1>1. RegionsTyped' /\ \A q \in Request \ {r} : sel[q].pc \in Active => region'[sel[q].obj] # None
  BY DEF RegionsTyped, FreedRight, Parts
<1> QED
  BY <1>1, OneSelector

LEMMA Own ==
    ASSUME Parts, NEW r \in Request
    PROVE  /\ Fine(sel[r]) /\ sel[r] \in Selectors
           /\ sel[r].pc \in Active => /\ sel[r].obj \in Object /\ region[sel[r].obj] # None
                                      /\ region[sel[r].obj] \in Regions /\ work(r) \in Store
<1>1. Fine(sel[r]) /\ sel[r] \in Selectors /\ Uses(sel[r], region)
  BY DEF Parts, Fine
<1>2. sel[r].pc \in Active => sel[r].obj \in Object /\ region[sel[r].obj] # None
  BY <1>1 DEF Fine, Placed, Uses
<1>3. sel[r].pc \in Active => region[sel[r].obj] \in Regions
  BY <1>2 DEF Parts, RegionsTyped
<1> QED
  BY <1>1, <1>2, <1>3 DEF Regions, work

(* The sender goes on with its region. *)
LEMMA QuietStep ==
    ASSUME Parts, NEW r \in Request, NEW new, Step(r, new), Fine(new), sel[r].pc \in Active, new.obj = sel[r].obj,
           Holds(region'), UNCHANGED cached, EnvTyped'
    PROVE  Parts'
<1>1. Uses(new, region')
  BY Own DEF Uses, Holds
<1>2. FreedRight(r, region')
  BY HoldsIsRight
<1> QED
  BY <1>1, <1>2, OneStep

LEMMA RetryFine ==
    ASSUME Parts, NEW r \in Request, NEW p \in {"locate", "done", "error"}, NEW new, new = [Retry(r) EXCEPT !.pc = p]
    PROVE  Fine(new) /\ new.pc \notin Active
<1> DEFINE q == sel[r]
<1>1. q \in Selectors /\ Honest(q)
  BY Own DEF Fine
<1>2. new \in Selectors /\ new.pc = p
  <2>1. PICK rep \in [Store -> [fresh : BOOLEAN, att : Nat, flags : SUBSET Flags]] :
          rep = [s \in Store |-> [fresh |-> TRUE, att |-> 0, flags |-> {}]]
    OBVIOUS
  <2>2. PICK w : w = Retry(r)
    OBVIOUS
  <2>3. PICK no \in BOOLEAN :
          w = [q EXCEPT !.pc = "locate", !.obj = None, !.isStale = no, !.prefer = no, !.attempts = 0,
                        !.target = None, !.proxy = None, !.again = no, !.got = None, !.rep = rep, !.rt = q.type]
    BY <2>1, <2>2 DEF Retry
  <2>4. w \in Selectors
    <3>1. PICK v \in Selectors : v = [q EXCEPT !.pc = "locate", !.obj = None, !.isStale = no, !.prefer = no, !.attempts = 0]
      BY <1>1 DEF Selectors, Active
    <3>2. q.type \in Types
      BY <1>1 DEF Selectors
    <3>3. w = [v EXCEPT !.target = None, !.proxy = None, !.again = no, !.got = None, !.rep = rep, !.rt = q.type]
      BY <2>3, <3>1
    <3> QED
      BY <3>2, <3>3 DEF Selectors
  <2>5. new = [w EXCEPT !.pc = p]
    BY <2>2
  <2> QED
    BY <2>4, <2>5 DEF Selectors
<1>3. /\ new.read = q.read /\ new.type = q.type /\ new.rt = q.type /\ new.staleRead = q.staleRead
      /\ new.replicaRead = q.replicaRead /\ new.isStale = FALSE /\ new.busy = q.busy
      /\ \A s \in Store : new.rep[s].att = 0
  BY <1>1 DEF Retry, Selectors
<1>4. Honest(new)
  BY <1>1, <1>3 DEF Honest
<1>5. Placed(new)
  BY <1>2 DEF Placed, Active
<1>6. Bounded(new)
  BY <1>2, <1>3, BoundedNew
<1> QED
  BY <1>2, <1>4, <1>5, <1>6 DEF Fine, Active

(* The sender leaves its region. *)
LEMMA LeaveStep ==
    ASSUME Parts, NEW r \in Request, NEW p \in {"locate", "done", "error"}, Step(r, [Retry(r) EXCEPT !.pc = p]),
           NEW rg, Holds(rg), region' = Free(rg, sel[r].obj, Held(r) \cup {cached}), UNCHANGED cached, EnvTyped'
    PROVE  Parts'
<1>1. PICK new : new = [Retry(r) EXCEPT !.pc = p]
  OBVIOUS
<1>2. Fine(new) /\ new.pc \notin Active
  BY <1>1, RetryFine
<1>3. Uses(new, region')
  BY <1>2 DEF Uses
<1>4. FreedRight(r, region')
  BY FreedIsRight
<1> QED
  BY <1>1, <1>2, <1>3, <1>4, OneStep

LEMMA ErrorStep ==
    ASSUME Parts, NEW r \in Request, NEW rg, Holds(rg), RegionError(r, rg), UNCHANGED cached, EnvTyped'
    PROVE  Parts'
<1>1. Retry(r) = [Retry(r) EXCEPT !.pc = "locate"]
  BY Own DEF Retry, Selectors
<1> QED
  BY <1>1, LeaveStep DEF RegionError

LEMMA GotoFine ==
    ASSUME Parts, NEW r \in Request, NEW p \in {"select", "failed"}, sel[r].pc \in Active,
           p = "failed" => sel[r].target \in Store, NEW new, new = [sel[r] EXCEPT !.pc = p]
    PROVE  Fine(new) /\ new.obj = sel[r].obj
<1>1. Fine(sel[r]) /\ sel[r] \in Selectors /\ sel[r].obj \in Object
  BY Own
<1>2. new \in Selectors /\ new.pc = p
  BY <1>1 DEF Selectors, Active
<1>3. /\ new.read = sel[r].read /\ new.type = sel[r].type /\ new.rt = sel[r].rt /\ new.staleRead = sel[r].staleRead
      /\ new.replicaRead = sel[r].replicaRead /\ new.isStale = sel[r].isStale /\ new.busy = sel[r].busy
      /\ new.rep = sel[r].rep /\ new.obj = sel[r].obj /\ new.target = sel[r].target
  BY <1>1 DEF Selectors
<1>4. Honest(new)
  BY <1>1, <1>3 DEF Honest, Fine
<1>5. Placed(new)
  BY <1>1, <1>2, <1>3 DEF Placed, Active
<1>6. Bounded(new)
  BY <1>1, <1>3 DEF Bounded, Tried, Fine
<1> QED
  BY <1>2, <1>3, <1>4, <1>5, <1>6 DEF Fine

LEMMA FlagFine ==
    ASSUME Parts, NEW r \in Request, NEW f \in Flags, sel[r].pc \in Active, sel[r].target \in Store,
           NEW new, new = addFlag(r, f)
    PROVE  Fine(new) /\ new.obj = sel[r].obj /\ new.pc = "select"
<1>1. Fine(sel[r]) /\ sel[r] \in Selectors /\ sel[r].obj \in Object
  BY Own
<1>2. PICK rep \in [Store -> [fresh : BOOLEAN, att : Nat, flags : SUBSET Flags]] :
        rep = [sel[r].rep EXCEPT ![sel[r].target].flags = @ \cup {f}]
  BY <1>1 DEF Selectors
<1>3. new = [sel[r] EXCEPT !.pc = "select", !.rep = rep]
  BY <1>1, <1>2 DEF addFlag, Selectors
<1>4. new \in Selectors /\ new.pc = "select"
  BY <1>1, <1>3 DEF Selectors, Active
<1>5. /\ new.read = sel[r].read /\ new.type = sel[r].type /\ new.rt = sel[r].rt /\ new.staleRead = sel[r].staleRead
      /\ new.replicaRead = sel[r].replicaRead /\ new.isStale = sel[r].isStale /\ new.busy = sel[r].busy
      /\ new.rep = rep /\ new.obj = sel[r].obj
  BY <1>1, <1>3 DEF Selectors
<1>6. \A s \in Store : rep[s].att = sel[r].rep[s].att /\ sel[r].rep[s].att \in Nat
  BY <1>1, <1>2 DEF Selectors
<1>7. Honest(new)
  BY <1>1, <1>5 DEF Honest, Fine
<1>8. Placed(new)
  BY <1>1, <1>4, <1>5 DEF Placed, Active
<1>9. Bounded(new)
  BY <1>1, <1>4, <1>5, <1>6, BoundedKept DEF Fine
<1> QED
  BY <1>4, <1>5, <1>7, <1>8, <1>9 DEF Fine

-----------------------------------------------------------------------------
(* Locating and selecting.                                                 *)

NewSelector(r, rg, o) ==
    [sel[r] EXCEPT !.pc = "select", !.obj = o, !.rt = sel[r].type, !.isStale = sel[r].staleRead,
                   !.prefer = sel[r].type = "preferLeader",
                   !.rep = [s \in Store |-> [fresh |-> rg[o].fresh[s], att |-> 0, flags |-> {}]]]

LEMMA SelectorFine ==
    ASSUME Parts, NEW r \in Request, NEW rg, NEW o \in Object, rg[o] \in Regions, NEW new, new = NewSelector(r, rg, o)
    PROVE  Fine(new) /\ new.obj = o
<1> DEFINE q == sel[r]
<1>1. q \in Selectors /\ Honest(q)
  BY Own DEF Fine
<1>2. PICK rep \in [Store -> [fresh : BOOLEAN, att : Nat, flags : SUBSET Flags]] :
        rep = [s \in Store |-> [fresh |-> rg[o].fresh[s], att |-> 0, flags |-> {}]]
  BY DEF Regions
<1>3. PICK prefer \in BOOLEAN : prefer = (q.type = "preferLeader")
  OBVIOUS
<1>4. new = [q EXCEPT !.pc = "select", !.obj = o, !.rt = q.type, !.isStale = q.staleRead, !.prefer = prefer, !.rep = rep]
  BY <1>2, <1>3 DEF NewSelector
<1>5. new \in Selectors /\ new.pc = "select"
  BY <1>1, <1>4 DEF Selectors, Active
<1>6. /\ new.read = q.read /\ new.type = q.type /\ new.rt = q.type /\ new.staleRead = q.staleRead /\ new.obj = o
      /\ new.replicaRead = q.replicaRead /\ new.isStale = q.staleRead /\ new.busy = q.busy /\ new.rep = rep
  BY <1>1, <1>4 DEF Selectors
<1>7. Honest(new)
  BY <1>1, <1>6 DEF Honest
<1>8. Placed(new)
  BY <1>5, <1>6 DEF Placed, Active
<1>9. Bounded(new)
  <2>1. \A s \in Store : new.rep[s].att = 0
    BY <1>2, <1>6
  <2> QED
    BY <1>5, <2>1, BoundedNew
<1> QED
  BY <1>5, <1>6, <1>7, <1>8, <1>9 DEF Fine

LEMMA LocateKeyStep ==
    ASSUME Parts, NEW r \in Request, LocateKey(r)
    PROVE  Parts'
<1>0. EnvTyped' /\ Peers \subseteq Store
  BY PeersAreStores DEF Parts, EnvTyped, LocateKey, env
<1>1. CASE isValid(cached) /\ newReplicaSelector(r, region, cached) /\ UNCHANGED <<region, cached>>
  <2>1. cached \in Object /\ region[cached] \in Regions /\ region[cached] # None
    BY DEF Parts, RegionsTyped
  <2>2. PICK rg, o, new : rg = region /\ o = cached /\ new = NewSelector(r, rg, o)
    OBVIOUS
  <2>3. Fine(new) /\ new.obj = cached /\ Step(r, new)
    <3>1. o \in Object /\ rg[o] \in Regions
      BY <2>1, <2>2
    <3>2. Fine(new) /\ new.obj = o
      BY <2>2, <3>1, SelectorFine
    <3>3. Step(r, new)
      BY <1>1, <2>2 DEF newReplicaSelector, NewSelector
    <3> QED
      BY <2>2, <3>2, <3>3
  <2>4. Uses(new, region') /\ FreedRight(r, region')
    BY <1>1, <2>1, <2>3, HoldsItself, HoldsIsRight DEF Uses, Parts
  <2> QED
    BY <1>0, <1>1, <2>2, <2>3, <2>4, OneStep
<1>2. CASE ~isValid(cached)
  <2> DEFINE free == Object \ (Held(r) \cup {cached})
  <2>1. PICK new : new = CHOOSE o \in free : \A p \in free : o <= p
    OBVIOUS
  <2>2. free # {} /\ free \in SUBSET Nat
    BY FreeObject DEF Object
  <2>3. new \in free
    <3> HIDE DEF free
    <3> QED
      BY <2>1, <2>2, Least
  <2>4. PICK l \in Peers :
          /\ cached' = new
          /\ region' = [Free(invalidate(region, cached), cached, Held(r)) EXCEPT ![new] = Fresh(l)]
          /\ newReplicaSelector(r, region', new)
    BY <1>2, <2>1 DEF LocateKey
  <2>5. Fresh(l) \in Regions /\ Fresh(l) # None
    <3>1. l \in Store
      BY <1>0
    <3>2. Fresh(l) \in Regions
      BY <3>1 DEF Fresh, Regions
    <3> QED
      BY <3>2, Constant
  <2>6. Holds(invalidate(region, cached))
    BY HoldsItself, HoldsInvalid DEF Parts, RegionsTyped
  <2>7. PICK rg \in [Object -> Regions \cup {None}] :
          rg = Free(invalidate(region, cached), cached, Held(r)) /\ \A o \in Held(r) \cap Object : region[o] # None => rg[o] # None
    <3>1. PICK i : i = invalidate(region, cached)
      OBVIOUS
    <3>2. i \in [Object -> Regions \cup {None}] /\ \A o \in Object : region[o] # None => i[o] # None
      BY <2>6, <3>1 DEF Holds
    <3>3. cached \in Object
      BY DEF Parts, RegionsTyped
    <3>4. PICK rg : rg = Free(i, cached, Held(r))
      OBVIOUS
    <3>5. rg \in [Object -> Regions \cup {None}]
      BY <3>2, <3>3, <3>4 DEF Free
    <3>6. \A o \in Held(r) \cap Object : region[o] # None => rg[o] # None
      BY <3>2, <3>3, <3>4 DEF Free
    <3> QED
      BY <3>1, <3>4, <3>5, <3>6
  <2>8. region' = [rg EXCEPT ![new] = Fresh(l)] /\ new \in Object /\ new \notin Held(r)
    BY <2>3, <2>4, <2>7
  <2>9. RegionsTyped' /\ region'[new] = Fresh(l)
    BY <2>4, <2>5, <2>8 DEF RegionsTyped
  <2>10. \A q \in Request \ {r} : sel[q].pc \in Active => region'[sel[q].obj] # None
    <3>1. \A q \in Request \ {r} : sel[q].obj \in Held(r)
      BY DEF Held
    <3>2. \A q \in Request : sel[q].pc \in Active => sel[q].obj \in Object /\ region[sel[q].obj] # None
      BY Own
    <3> QED
      BY <2>7, <2>8, <3>1, <3>2
  <2>11. PICK nrg : nrg = region'
    OBVIOUS
  <2>12. PICK q : q = NewSelector(r, nrg, new)
    OBVIOUS
  <2>13. Fine(q) /\ q.obj = new /\ Step(r, q)
    <3>1. nrg[new] \in Regions /\ new \in Object
      BY <2>5, <2>8, <2>9, <2>11
    <3>2. Fine(q) /\ q.obj = new
      BY <2>12, <3>1, SelectorFine
    <3>3. Step(r, q)
      BY <2>4, <2>11, <2>12 DEF newReplicaSelector, NewSelector
    <3> QED
      BY <3>2, <3>3
  <2>14. Uses(q, region')
    BY <2>5, <2>9, <2>13 DEF Uses
  <2> QED
    BY <1>0, <2>9, <2>10, <2>12, <2>13, <2>14, OneSelector
<1> QED
  BY <1>1, <1>2 DEF LocateKey

LEMMA invalidSelectorStep ==
    ASSUME Parts, NEW r \in Request, invalidSelector(r)
    PROVE  Parts'
<1>1. EnvTyped' /\ UNCHANGED cached /\ RegionError(r, region)
  BY DEF Parts, EnvTyped, invalidSelector, env
<1> QED
  BY <1>1, HoldsItself, ErrorStep DEF Parts

(* What a selection may return. *)
Choices == [target : Store \cup {None}, staleRead : BOOLEAN, replicaRead : BOOLEAN, busy : BOOLEAN]

GoodChoice(r, ch) ==
    /\ ch \in Choices
    /\ ch.target # None => sel[r].rep[ch.target].att < MaxAttempt
    /\ ~sel[r].read => ~ch.staleRead /\ ~ch.replicaRead
    /\ ~(ch.staleRead /\ ch.replicaRead)
    /\ ch.staleRead => sel[r].staleRead \/ sel[r].isStale
    /\ ch.busy => sel[r].busy

Triable(r, t) == t \in Store /\ sel[r].rep[t].att < MaxAttempt

LEMMA MixedTriable ==
    ASSUME Parts, NEW r \in Request, NEW opt, NEW loaded, NEW t \in Mixed(r, opt, loaded)
    PROVE  t = None \/ Triable(r, t)
<1>1. PICK slow \in SUBSET Peers : t = None \/ (t \in Peers /\ isCandidate(r, t, opt, slow, loaded))
  BY DEF Mixed
<1>2. CASE t \in Peers /\ isCandidate(r, t, opt, slow, loaded)
  <2>1. t \in Store
    BY <1>2, PeersAreStores DEF Parts
  <2>2. sel[r].rep[t].att \in Nat
    BY <2>1, Own DEF Selectors
  <2>3. sel[r].rep[t].att < 2
    BY <1>2, <2>2 DEF isCandidate, isExhausted
  <2> QED
    BY <2>1, <2>2, <2>3, Constant DEF Triable
<1> QED
  BY <1>1, <1>2

LEMMA LeaderTriable ==
    ASSUME Parts, NEW r \in Request, sel[r].pc \in Active, isLeaderCandidate(r, work(r))
    PROVE  Triable(r, work(r))
<1>1. work(r) \in Store
  BY Own
<1>2. sel[r].rep[work(r)].att \in Nat
  BY <1>1, Own DEF Selectors
<1> QED
  BY <1>1, <1>2, Constant DEF Triable, isLeaderCandidate, isExhausted

LEMMA PickFacts ==
    ASSUME Parts, NEW r \in Request, NEW t \in Store \cup {None}
    PROVE  /\ Pick(r, t) \in Choices
           /\ Pick(r, t).target = t /\ Pick(r, t).staleRead = sel[r].staleRead
           /\ Pick(r, t).replicaRead = sel[r].replicaRead /\ Pick(r, t).busy = sel[r].busy
           /\ sel[r].staleRead \in BOOLEAN /\ sel[r].replicaRead \in BOOLEAN /\ sel[r].busy \in BOOLEAN
           /\ sel[r].read \in BOOLEAN /\ sel[r].isStale \in BOOLEAN
BY Own DEF Pick, Selectors, Choices

\* The choices in terms of their flags.
WithReads(r, t, stale, replica) == [Pick(r, t) EXCEPT !.staleRead = stale, !.replicaRead = replica]
WithBusy(r, t, busy, replica) == [Pick(r, t) EXCEPT !.busy = busy, !.replicaRead = replica]
WithReplica(r, t, replica) == [Pick(r, t) EXCEPT !.replicaRead = replica]

LEMMA PickReads ==
    ASSUME Parts, NEW r \in Request, NEW t \in Store \cup {None}, NEW stale \in BOOLEAN, NEW replica \in BOOLEAN, NEW ch,
           ch = WithReads(r, t, stale, replica)
    PROVE  /\ ch \in Choices /\ ch.target = t /\ ch.staleRead = stale /\ ch.replicaRead = replica
           /\ ch.busy = sel[r].busy
<1>1. PICK p : p = Pick(r, t)
  OBVIOUS
<1>2. p \in Choices /\ p.target = t /\ p.busy = sel[r].busy
  BY <1>1, PickFacts DEF Choices
<1>3. ch = [p EXCEPT !.staleRead = stale, !.replicaRead = replica]
  BY <1>1 DEF WithReads
<1> QED
  BY <1>2, <1>3 DEF Choices

LEMMA PickBusy ==
    ASSUME Parts, NEW r \in Request, NEW t \in Store \cup {None}, NEW busy \in BOOLEAN, NEW replica \in BOOLEAN, NEW ch,
           ch = WithBusy(r, t, busy, replica)
    PROVE  ch \in Choices /\ ch.target = t /\ ch.staleRead = sel[r].staleRead /\ ch.replicaRead = replica /\ ch.busy = busy
<1>1. PICK p : p = Pick(r, t)
  OBVIOUS
<1>2. p \in Choices /\ p.target = t /\ p.staleRead = sel[r].staleRead
  BY <1>1, PickFacts DEF Choices
<1>3. ch = [p EXCEPT !.busy = busy, !.replicaRead = replica]
  BY <1>1 DEF WithBusy
<1> QED
  BY <1>2, <1>3 DEF Choices

LEMMA PickReplica ==
    ASSUME Parts, NEW r \in Request, NEW t \in Store \cup {None}, NEW replica \in BOOLEAN, NEW ch,
           ch = WithReplica(r, t, replica)
    PROVE  ch \in Choices /\ ch.target = t /\ ch.staleRead = sel[r].staleRead /\ ch.busy = sel[r].busy
<1>1. PICK p : p = Pick(r, t)
  OBVIOUS
<1>2. p \in Choices /\ p.target = t /\ p.staleRead = sel[r].staleRead /\ p.busy = sel[r].busy
  BY <1>1, PickFacts DEF Choices
<1>3. ch = [p EXCEPT !.replicaRead = replica]
  BY <1>1 DEF WithReplica
<1> QED
  BY <1>2, <1>3 DEF Choices

LEMMA LeaderChoice ==
    ASSUME Parts, NEW r \in Request, sel[r].pc \in Active, NEW ch \in nextForReplicaReadLeader(r)
    PROVE  GoodChoice(r, ch)
<1> DEFINE q == sel[r]
<1>0. Honest(q) /\ work(r) \in Store
  BY Own DEF Fine
<1>1. CASE \E t \in Mixed(r, NoOption, {}) :
              ch = IF t # None /\ q.read /\ hasFlag(r, work(r), "deadline")
                   THEN [Pick(r, t) EXCEPT !.replicaRead = TRUE, !.staleRead = FALSE] ELSE Pick(r, t)
  <2>1. PICK t \in Mixed(r, NoOption, {}) :
              ch = IF t # None /\ q.read /\ hasFlag(r, work(r), "deadline")
                   THEN [Pick(r, t) EXCEPT !.replicaRead = TRUE, !.staleRead = FALSE] ELSE Pick(r, t)
    BY <1>1
  <2>2. t \in Store \cup {None} /\ (t # None => q.rep[t].att < MaxAttempt)
    BY MixedTriable DEF Triable
  <2>3. ch = Pick(r, t) \/ (q.read /\ ch = [Pick(r, t) EXCEPT !.replicaRead = TRUE, !.staleRead = FALSE])
    BY <2>1
  <2>4. /\ ch \in Choices
        /\ ch.target = t /\ ch.busy = q.busy
        /\ \/ ch.staleRead = q.staleRead /\ ch.replicaRead = q.replicaRead
           \/ q.read /\ ~ch.staleRead
    <3>1. CASE ch = Pick(r, t)
      BY <2>2, <3>1, PickFacts
    <3>2. CASE q.read /\ ch = [Pick(r, t) EXCEPT !.replicaRead = TRUE, !.staleRead = FALSE]
      <4>1. PICK no \in BOOLEAN, yes \in BOOLEAN :
              no = FALSE /\ yes = TRUE /\ ch = [Pick(r, t) EXCEPT !.replicaRead = yes, !.staleRead = no]
        BY <3>2
      <4>2. ch = WithReads(r, t, no, yes)
        BY <4>1 DEF Pick, WithReads
      <4>3. /\ ch \in Choices /\ ch.target = t /\ ch.staleRead = no /\ ch.replicaRead = yes
            /\ ch.busy = sel[r].busy
        BY <2>2, <4>2, PickReads
      <4> QED
        BY <3>2, <4>1, <4>3
    <3> QED
      BY <2>3, <3>1, <3>2
  <2> QED
    BY <1>0, <2>2, <2>4 DEF GoodChoice, Choices, Honest
<1>2. CASE ch = Pick(r, work(r)) /\ isLeaderCandidate(r, work(r))
  <2>1. q.rep[work(r)].att < MaxAttempt
    BY <1>2, LeaderTriable DEF Triable
  <2> QED
    BY <1>0, <1>2, <2>1, PickFacts DEF GoodChoice, Choices, Honest
<1>3. CASE /\ q.busy /\ q.read /\ isLeaderCandidate(r, work(r))
           /\ \E loaded \in SUBSET Peers : \E t \in Mixed(r, [NoOption EXCEPT !.busy = TRUE], loaded) :
                 ch = IF t = None THEN [Pick(r, work(r)) EXCEPT !.busy = FALSE, !.replicaRead = FALSE]
                                  ELSE [Pick(r, t) EXCEPT !.replicaRead = TRUE]
  <2>0. PICK loaded \in SUBSET Peers : \E t \in Mixed(r, [NoOption EXCEPT !.busy = TRUE], loaded) :
                 ch = IF t = None THEN [Pick(r, work(r)) EXCEPT !.busy = FALSE, !.replicaRead = FALSE]
                                  ELSE [Pick(r, t) EXCEPT !.replicaRead = TRUE]
    BY <1>3
  <2>1. PICK t \in Mixed(r, [NoOption EXCEPT !.busy = TRUE], loaded) :
                 ch = IF t = None THEN [Pick(r, work(r)) EXCEPT !.busy = FALSE, !.replicaRead = FALSE]
                                  ELSE [Pick(r, t) EXCEPT !.replicaRead = TRUE]
    BY <2>0
  <2>2. ~q.staleRead
    BY <1>0, <1>3 DEF Honest
  <2>3. CASE t = None
    <3>1. q.rep[work(r)].att < MaxAttempt
      BY <1>3, LeaderTriable DEF Triable
    <3>2. /\ ch \in Choices
          /\ ch.target = work(r) /\ ch.staleRead = q.staleRead
      <4>1. PICK no \in BOOLEAN : no = FALSE /\ ch = WithBusy(r, work(r), no, no)
        BY <2>1, <2>3 DEF WithBusy
      <4> QED
        BY <1>0, <4>1, PickBusy
    <3> QED
      BY <1>3, <2>2, <3>1, <3>2 DEF GoodChoice, Choices
  <2>4. CASE t # None
    <3>1. t \in Store /\ q.rep[t].att < MaxAttempt
      BY <2>4, MixedTriable DEF Triable
    <3>2. /\ ch \in Choices
          /\ ch.target = t /\ ch.staleRead = q.staleRead
      <4>1. PICK yes \in BOOLEAN : yes = TRUE /\ ch = WithReplica(r, t, yes)
        BY <2>1, <2>4 DEF WithReplica
      <4>2. t \in Store \cup {None} /\ ch = WithReplica(r, t, yes)
        BY <3>1, <4>1
      <4> QED
        BY <4>2, PickReplica
    <3> QED
      BY <1>3, <2>2, <3>1, <3>2 DEF GoodChoice, Choices
  <2> QED
    BY <2>3, <2>4
<1> QED
  BY <1>1, <1>2, <1>3 DEF nextForReplicaReadLeader

LEMMA MixedChoice ==
    ASSUME Parts, NEW r \in Request, sel[r].pc \in Active, sel[r].rt # "leader",
           NEW n, NEW ch \in nextForReplicaReadMixed(r, n)
    PROVE  GoodChoice(r, ch)
<1> DEFINE q == sel[r]
           l == work(r)
           opt == [tryLeader |-> q.type \in {"mixed", "preferLeader"}, prefer |-> q.prefer, busy |-> FALSE]
<1>0. Honest(q) /\ l \in Store
  BY Own DEF Fine
<1>1. q.read
  BY <1>0 DEF Honest
<1>2. CASE isLeaderCandidate(r, l) /\ ch = [Pick(r, l) EXCEPT !.staleRead = FALSE, !.replicaRead = FALSE]
  <2>1. q.rep[l].att < MaxAttempt
    BY <1>2, LeaderTriable DEF Triable
  <2>2. /\ ch \in Choices
        /\ ch.target = l /\ ~ch.staleRead /\ ch.busy = q.busy
    <3>1. PICK no \in BOOLEAN : no = FALSE /\ ch = WithReads(r, l, no, no)
      BY <1>2 DEF WithReads
    <3>2. ch \in Choices /\ ch.target = l /\ ch.staleRead = no /\ ch.busy = q.busy
      BY <1>0, <3>1, PickReads
    <3> QED
      BY <3>1, <3>2
  <2> QED
    BY <1>1, <2>1, <2>2 DEF GoodChoice, Choices
<1>3. CASE \E t \in Mixed(r, opt, {}), b \in BOOLEAN :
              \/ t = None /\ ch = Pick(r, t)
              \/ q.isStale /\ ch = [Pick(r, t) EXCEPT !.staleRead = ~b, !.replicaRead = b]
              \/ ch = [Pick(r, t) EXCEPT !.staleRead = FALSE, !.replicaRead = b]
  <2>1. PICK t \in Mixed(r, opt, {}), b \in BOOLEAN :
              \/ t = None /\ ch = Pick(r, t)
              \/ q.isStale /\ ch = [Pick(r, t) EXCEPT !.staleRead = ~b, !.replicaRead = b]
              \/ ch = [Pick(r, t) EXCEPT !.staleRead = FALSE, !.replicaRead = b]
    BY <1>3
  <2>2. t \in Store \cup {None} /\ (t # None => q.rep[t].att < MaxAttempt)
    BY MixedTriable DEF Triable
  <2>3. CASE ch = Pick(r, t)
    BY <1>0, <1>1, <2>2, <2>3, PickFacts DEF GoodChoice, Choices, Honest
  <2>4. CASE q.isStale /\ ch = [Pick(r, t) EXCEPT !.staleRead = ~b, !.replicaRead = b]
    <3>1. /\ ch \in Choices
          /\ ch.target = t /\ ch.busy = q.busy /\ (ch.staleRead <=> ~b) /\ (ch.replicaRead <=> b)
      <4>1. PICK c \in BOOLEAN : c = ~b /\ ch = WithReads(r, t, c, b)
        BY <2>4 DEF WithReads
      <4>3. ch = WithReads(r, t, c, b) /\ t \in Store \cup {None}
        BY <2>2, <4>1
      <4>2. ch \in Choices /\ ch.target = t /\ ch.staleRead = c /\ ch.replicaRead = b /\ ch.busy = q.busy
        BY <4>3, PickReads
      <4> QED
        BY <4>1, <4>2
    <3> QED
      BY <1>1, <2>2, <2>4, <3>1 DEF GoodChoice, Choices
  <2>5. CASE ch = [Pick(r, t) EXCEPT !.staleRead = FALSE, !.replicaRead = b]
    <3>1. /\ ch \in Choices
          /\ ch.target = t /\ ch.busy = q.busy /\ ~ch.staleRead
      <4>1. PICK no \in BOOLEAN : no = FALSE /\ ch = WithReads(r, t, no, b)
        BY <2>5 DEF WithReads
      <4>2. ch \in Choices /\ ch.target = t /\ ch.staleRead = no /\ ch.busy = q.busy
        BY <2>2, <4>1, PickReads
      <4> QED
        BY <4>1, <4>2
    <3> QED
      BY <1>1, <2>2, <3>1 DEF GoodChoice, Choices
  <2> QED
    BY <2>1, <2>3, <2>4, <2>5
<1> QED
  BY <1>1, <1>2, <1>3 DEF nextForReplicaReadMixed

LEMMA AttemptCount ==
    ASSUME Parts, NEW r \in Request
    PROVE  attempt(r) \in Nat
BY Own DEF attempt, Selectors

WithFlags(w, stale, replica, busy) == [w EXCEPT !.staleRead = stale, !.replicaRead = replica, !.busy = busy]

LEMMA ReadsTyped ==
    ASSUME NEW w \in Selectors, NEW stale \in BOOLEAN, NEW replica \in BOOLEAN, NEW busy \in BOOLEAN
    PROVE  WithFlags(w, stale, replica, busy) \in Selectors
<1>1. PICK v : v = [w EXCEPT !.staleRead = stale]
  OBVIOUS
<1>2. v \in Selectors
  BY <1>1 DEF Selectors
<1>3. PICK u : u = [v EXCEPT !.replicaRead = replica]
  OBVIOUS
<1>4. u \in Selectors
  BY <1>2, <1>3 DEF Selectors
<1>5. WithFlags(w, stale, replica, busy) = [u EXCEPT !.busy = busy]
  BY <1>1, <1>3 DEF WithFlags
<1>6. [u EXCEPT !.busy = busy] \in Selectors
  BY <1>4 DEF Selectors
<1> QED
  BY <1>5, <1>6

LEMMA nextStep ==
    ASSUME Parts, NEW r \in Request, next(r)
    PROVE  Parts'
<1> DEFINE q == sel[r]
<1>0. q.pc = "select" /\ q.pc \in Active /\ EnvTyped' /\ UNCHANGED cached
  BY DEF next, canSelect, At, Active, Parts, EnvTyped, env
<1>1. q \in Selectors /\ Fine(q) /\ q.obj \in Object /\ region[q.obj] # None
  BY <1>0, Own
<1>2. PICK unset : unset = IF conf.forward /\ q.rt = "leader" THEN [region EXCEPT ![q.obj].proxy = None] ELSE region
  OBVIOUS
<1>3. Holds(unset)
  BY <1>1, <1>2, HoldsItself, HoldsProxy DEF Parts
<1>4. PICK ch \in (IF q.rt = "leader" THEN nextForReplicaReadLeader(r) ELSE nextForReplicaReadMixed(r, attempt(r))) :
         /\ Step(r, [q EXCEPT !.pc = "build", !.again = FALSE, !.attempts = attempt(r), !.target = ch.target, !.proxy = None,
                              !.staleRead = ch.staleRead, !.replicaRead = ch.replicaRead, !.busy = ch.busy])
         /\ region' = IF ch.target = None /\ ~hasDeadlineExceededError(r) THEN invalidate(unset, q.obj) ELSE unset
  BY <1>2 DEF next
<1>5. PICK new :
         /\ Step(r, new)
         /\ new = [q EXCEPT !.pc = "build", !.again = FALSE, !.attempts = attempt(r), !.target = ch.target, !.proxy = None,
                            !.staleRead = ch.staleRead, !.replicaRead = ch.replicaRead, !.busy = ch.busy]
  BY <1>4
<1>6. GoodChoice(r, ch)
  <2>1. CASE q.rt = "leader"
    BY <1>0, <1>4, <2>1, LeaderChoice
  <2>2. CASE q.rt # "leader"
    BY <1>0, <1>4, <2>2, MixedChoice
  <2> QED
    BY <2>1, <2>2
<1>7. Holds(region')
  BY <1>1, <1>3, <1>4, HoldsInvalid
<1>8. PICK n \in Nat, no \in BOOLEAN : n = attempt(r) /\ no = FALSE
  BY AttemptCount
<1>9. /\ ch.target \in Store \cup {None} /\ ch.staleRead \in BOOLEAN /\ ch.replicaRead \in BOOLEAN /\ ch.busy \in BOOLEAN
  BY <1>6 DEF GoodChoice, Choices
<1>10. PICK w \in Selectors :
        w = [q EXCEPT !.pc = "build", !.again = no, !.attempts = n, !.target = ch.target, !.proxy = None]
  BY <1>1, <1>9 DEF Selectors, Active
<1>11. new = [w EXCEPT !.staleRead = ch.staleRead, !.replicaRead = ch.replicaRead, !.busy = ch.busy]
  BY <1>1, <1>5, <1>8, <1>10 DEF Selectors
<1>12. new \in Selectors
  <2>1. PICK stale \in BOOLEAN, replica \in BOOLEAN, busy \in BOOLEAN :
          new = WithFlags(w, stale, replica, busy)
    BY <1>9, <1>11 DEF WithFlags
  <2> QED
    BY <2>1, ReadsTyped
<1>13. /\ new.pc = "build" /\ new.target = ch.target /\ new.proxy = None /\ new.obj = q.obj /\ new.rep = q.rep
       /\ new.read = q.read /\ new.type = q.type /\ new.rt = q.rt /\ new.isStale = q.isStale
       /\ new.staleRead = ch.staleRead /\ new.replicaRead = ch.replicaRead /\ new.busy = ch.busy
  BY <1>1, <1>10, <1>11 DEF Selectors
<1>14. Placed(new)
  BY <1>1, <1>6, <1>13 DEF Placed, Active, GoodChoice
<1>15. Honest(new)
  BY <1>1, <1>6, <1>13 DEF Fine, Honest, GoodChoice
<1>16. Bounded(new)
  BY <1>1, <1>13 DEF Fine, Bounded, Tried
<1>17. Fine(new)
  BY <1>12, <1>14, <1>15, <1>16 DEF Fine
<1> QED
  BY <1>0, <1>5, <1>7, <1>13, <1>17, QuietStep

LEMMA ProxyFor ==
    ASSUME Parts, NEW r \in Request, sel[r].pc \in Active, proxyCandidates(r) # {}
    PROVE  proxyFor(r) \in proxyCandidates(r) /\ proxyCandidates(r) \subseteq Store
<1>1. proxyCandidates(r) \subseteq Store
  BY PeersAreStores DEF Parts, proxyCandidates
<1>2. PICK all \in SUBSET Nat : all = proxyCandidates(r)
  BY <1>1, Constant
<1>3. PICK m : m = CHOOSE s \in all : \A p \in all : s <= p
  OBVIOUS
<1>4. m \in all
  BY <1>2, <1>3, Least
<1>5. proxyFor(r) \in all
  BY <1>2, <1>3, <1>4 DEF proxyFor
<1> QED
  BY <1>1, <1>2, <1>5

LEMMA nextProxyStep ==
    ASSUME Parts, NEW r \in Request, nextProxy(r)
    PROVE  Parts'
<1> DEFINE q == sel[r]
<1>0. q.pc = "select" /\ q.pc \in Active /\ EnvTyped' /\ UNCHANGED cached /\ UNCHANGED region
  BY DEF nextProxy, canSelect, At, Active, Parts, EnvTyped, env
<1>1. q \in Selectors /\ Fine(q) /\ q.obj \in Object /\ work(r) \in Store
  BY <1>0, Own
<1>2. PICK t \in Store, p \in Store, n \in Nat, no \in BOOLEAN :
        t = work(r) /\ p = proxyFor(r) /\ n = attempt(r) /\ no = FALSE /\ p \in proxyCandidates(r)
  <2>1. proxyFor(r) \in proxyCandidates(r) /\ proxyFor(r) \in Store
    BY <1>0, ProxyFor DEF nextProxy
  <2> QED
    BY <1>1, <2>1, AttemptCount
<1>3. p # t /\ q.rep[p].att = 0
  <2>1. q.rep[p].att \in Nat
    BY <1>1 DEF Selectors
  <2> QED
    BY <1>2, <2>1 DEF proxyCandidates, isExhausted
<1>4. PICK new : new = [q EXCEPT !.pc = "build", !.again = no, !.attempts = n, !.target = t, !.proxy = p] /\ Step(r, new)
  BY <1>2 DEF nextProxy
<1>5. new \in Selectors
  BY <1>1, <1>4 DEF Selectors, Active
<1>6. /\ new.pc = "build" /\ new.target = t /\ new.proxy = p /\ new.obj = q.obj /\ new.rep = q.rep
      /\ new.read = q.read /\ new.type = q.type /\ new.rt = q.rt /\ new.isStale = q.isStale
      /\ new.staleRead = q.staleRead /\ new.replicaRead = q.replicaRead /\ new.busy = q.busy
  BY <1>1, <1>4 DEF Selectors
<1>7. Placed(new)
  BY <1>1, <1>3, <1>6, Constant DEF Placed, Active
<1>8. Honest(new)
  BY <1>1, <1>6 DEF Fine, Honest
<1>9. Bounded(new)
  BY <1>1, <1>6 DEF Fine, Bounded, Tried
<1>10. Fine(new)
  BY <1>5, <1>7, <1>8, <1>9 DEF Fine
<1>11. Holds(region')
  BY <1>0, HoldsItself DEF Parts, Holds
<1> QED
  BY <1>0, <1>4, <1>6, <1>10, <1>11, QuietStep

LEMMA MarkedTyped ==
    ASSUME Parts, NEW s \in Store, UNCHANGED env, store' = store \/ store' = markStoreNeedCheck(s)
    PROVE  EnvTyped'
<1>1. store' \in [Store -> [live : {"reachable", "unreachable", "unknown"}, loop : BOOLEAN, resolve : {"resolved", "needCheck"}]]
  BY DEF Parts, EnvTyped, markStoreNeedCheck
<1> QED
  BY <1>1 DEF Parts, EnvTyped, env

LEMMA StaleFine ==
    ASSUME Parts, NEW r \in Request, NEW s \in Store, NEW new, new = staleSelectors(s)[r]
    PROVE  Fine(new) /\ new.pc = sel[r].pc /\ new.obj = sel[r].obj /\ (sel[r].pc \in Active => new.target = sel[r].target)
<1> DEFINE q == sel[r]
<1>2. q \in Selectors /\ Fine(q)
  BY Own
<1>1. PICK no \in BOOLEAN : no = FALSE
  OBVIOUS
<1>3. PICK old \in [Store -> [fresh : BOOLEAN, att : Nat, flags : SUBSET Flags]] : old = q.rep
  BY <1>2 DEF Selectors
<1>4. PICK e \in [fresh : BOOLEAN, att : Nat, flags : SUBSET Flags] : e = [old[s] EXCEPT !.fresh = no] /\ e.att = old[s].att
  <2>1. PICK o \in [fresh : BOOLEAN, att : Nat, flags : SUBSET Flags] : o = old[s]
    OBVIOUS
  <2>2. PICK e : e = [o EXCEPT !.fresh = no]
    OBVIOUS
  <2>3. e \in [fresh : BOOLEAN, att : Nat, flags : SUBSET Flags] /\ e.att = o.att
    BY <2>2
  <2> QED
    BY <2>1, <2>2, <2>3
<1>5. PICK rep \in [Store -> [fresh : BOOLEAN, att : Nat, flags : SUBSET Flags]] : rep = [old EXCEPT ![s] = e]
  OBVIOUS
<1>6. new = [q EXCEPT !.rep = rep]
  BY <1>1, <1>2, <1>3, <1>4, <1>5 DEF staleSelectors, Selectors
<1>7. new \in Selectors
  BY <1>2, <1>6 DEF Selectors
<1>8. /\ new.pc = q.pc /\ new.target = q.target /\ new.proxy = q.proxy /\ new.obj = q.obj /\ new.rep = rep /\ new.got = q.got
      /\ new.read = q.read /\ new.type = q.type /\ new.rt = q.rt /\ new.isStale = q.isStale
      /\ new.staleRead = q.staleRead /\ new.replicaRead = q.replicaRead /\ new.busy = q.busy
  BY <1>2, <1>6 DEF Selectors
<1>9. \A p \in Store : rep[p].att = q.rep[p].att /\ q.rep[p].att \in Nat
  BY <1>2, <1>5, <1>3, <1>4 DEF Selectors
<1>10. Placed(new)
  <2>1. q.target \in Store \cup {None} /\ q.proxy \in Store \cup {None}
    BY <1>2 DEF Selectors
  <2> QED
    BY <1>2, <1>8, <1>9, <2>1 DEF Placed, Fine
<1>11. Honest(new)
  BY <1>2, <1>8 DEF Fine, Honest
<1>12. Bounded(new)
  BY <1>2, <1>7, <1>8, <1>9, BoundedKept DEF Fine
<1> QED
  BY <1>7, <1>8, <1>10, <1>11, <1>12 DEF Fine

(* All snapshots of the epoch of a store become stale. *)
LEMMA MarkStep ==
    ASSUME Parts, NEW r \in Request, NEW s \in Store, NEW new, Fine(new), Uses(new, region'),
           sel' = [staleSelectors(s) EXCEPT ![r] = new],
           FreedRight(r, region'), UNCHANGED cached, EnvTyped'
    PROVE  Parts'
<1>1. PICK st : st = staleSelectors(s)
  OBVIOUS
<1>2. /\ \A q \in Request : Fine(st[q]) /\ st[q].pc = sel[q].pc /\ st[q].obj = sel[q].obj
      /\ st = [q \in Request |-> st[q]]
  <2>1. ASSUME NEW q \in Request PROVE Fine(st[q]) /\ st[q].pc = sel[q].pc /\ st[q].obj = sel[q].obj
    <3>1. PICK x : x = staleSelectors(s)[q]
      OBVIOUS
    <3>2. Fine(x) /\ x.pc = sel[q].pc /\ x.obj = sel[q].obj
      BY <3>1, StaleFine
    <3> QED
      BY <1>1, <3>1, <3>2
  <2>2. st = [q \in Request |-> st[q]]
    BY <1>1 DEF staleSelectors
  <2> QED
    BY <2>1, <2>2
<1>3. \A q \in Request : st[q] \in Selectors
  BY <1>2 DEF Fine
<1>4. new \in Selectors
  BY DEF Fine
<1>5. sel' \in [Request -> Selectors] /\ sel'[r] = new /\ \A q \in Request \ {r} : sel'[q] = st[q]
  BY <1>1, <1>2, <1>3, <1>4
<1>6. RegionsTyped' /\ \A q \in Request \ {r} : sel[q].pc \in Active => region'[sel[q].obj] # None
  BY DEF RegionsTyped, FreedRight, Parts
<1>7. \A q \in Request : Fine(sel'[q]) /\ Uses(sel'[q], region')
  <2> SUFFICES ASSUME NEW q \in Request PROVE Fine(sel'[q]) /\ Uses(sel'[q], region')
    OBVIOUS
  <2>1. CASE q = r
    BY <1>5, <2>1
  <2>2. CASE q # r
    BY <1>2, <1>5, <1>6, <2>2 DEF Uses
  <2> QED
    BY <2>1, <2>2
<1>8. (\A q \in Request : Fine(sel[q]) /\ Uses(sel[q], region))'
  BY <1>7 DEF Fine, Placed, Honest, Bounded, Uses, Tried
<1> QED
  BY <1>5, <1>6, <1>8 DEF Parts

LEMMA nextNoProxyStep ==
    ASSUME Parts, NEW r \in Request, nextNoProxy(r)
    PROVE  Parts'
<1> DEFINE q == sel[r]
           l == work(r)
<1>0. q.pc \in Active /\ UNCHANGED cached /\ UNCHANGED env
  BY DEF nextNoProxy, canSelect, At, Active
<1>1. q \in Selectors /\ q.obj \in Object /\ region[q.obj] # None /\ l \in Store
  BY <1>0, Own
<1>2. EnvTyped'
  <2>1. store' = store \/ store' = markStoreNeedCheck(l)
    BY DEF nextNoProxy
  <2> QED
    BY <1>0, <1>1, <2>1, MarkedTyped
<1>3. CASE isEpochStale(r, l)
  <2>1. RegionError(r, [region EXCEPT ![q.obj].reload = TRUE])
    BY <1>3 DEF nextNoProxy, RegionError, Step
  <2>2. Holds([region EXCEPT ![q.obj].reload = TRUE])
    BY <1>1, HoldsItself, HoldsReload DEF Parts
  <2> QED
    BY <1>0, <1>2, <2>1, <2>2, ErrorStep
<1>4. CASE ~isEpochStale(r, l)
  <2>0. PICK s \in Store : s = l
    BY <1>1
  <2>1. PICK rg, new : rg = staleRegions(s) /\ new = [Retry(r) EXCEPT !.pc = "locate"]
    OBVIOUS
  <2>2. Fine(new) /\ new.pc \notin Active
    BY <2>1, RetryFine
  <2>3. Holds(rg)
    BY <2>1, HoldsStale DEF Parts
  <2>4. Holds([rg EXCEPT ![q.obj].reload = TRUE])
    BY <1>1, <2>3, HoldsReload
  <2>5. FreedRight(r, region')
    <3>1. PICK rg2 : rg2 = [rg EXCEPT ![q.obj].reload = TRUE]
      OBVIOUS
    <3>2. FreedRight(r, Free(rg2, q.obj, Held(r) \cup {cached}))
      BY <2>4, <3>1, FreedIsRight
    <3>3. region' = Free(rg2, q.obj, Held(r) \cup {cached})
      BY <1>4, <2>0, <2>1, <3>1 DEF nextNoProxy
    <3> QED
      BY <3>2, <3>3
  <2>6. Retry(r) = [Retry(r) EXCEPT !.pc = "locate"]
    BY <1>1 DEF Retry, Selectors
  <2>7. sel' = [staleSelectors(s) EXCEPT ![r] = new]
    BY <1>4, <2>0, <2>1, <2>6 DEF nextNoProxy
  <2>8. Uses(new, region')
    BY <2>2 DEF Uses
  <2> QED
    BY <1>0, <1>2, <2>2, <2>5, <2>7, <2>8, MarkStep
<1> QED
  BY <1>3, <1>4

LEMMA buildRPCContextStep ==
    ASSUME Parts, NEW r \in Request, buildRPCContext(r)
    PROVE  Parts'
<1> DEFINE q == sel[r]
           used == {q.target, q.proxy} \ {None}
<1>0. q.pc = "build" /\ q.pc \in Active /\ UNCHANGED cached /\ EnvTyped'
  BY DEF buildRPCContext, At, Active, Parts, EnvTyped, env
<1>1. q \in Selectors /\ Fine(q) /\ q.obj \in Object /\ region[q.obj] # None
  BY <1>0, Own
<1>2. CASE RegionError(r, region)
  BY <1>0, <1>2, HoldsItself, ErrorStep DEF Parts
<1>3. CASE RegionError(r, invalidate(region, q.obj))
  <2>1. Holds(invalidate(region, q.obj))
    BY <1>1, HoldsItself, HoldsInvalid DEF Parts
  <2> QED
    BY <1>0, <1>3, <2>1, ErrorStep
<1>4. CASE /\ q.target # None /\ UNCHANGED region
           /\ Step(r, [q EXCEPT !.pc = "sent", !.rep = [s \in Store |-> IF s \in used THEN [q.rep[s] EXCEPT !.att = @ + 1] ELSE q.rep[s]]])
  <2>1. q.target \in Store /\ q.proxy \in Store \cup {None} /\ \A s \in Store : q.rep[s].att \in Nat
    BY <1>1, <1>4 DEF Selectors
  <2>2. PICK rep \in [Store -> [fresh : BOOLEAN, att : Nat, flags : SUBSET Flags]] :
          rep = [s \in Store |-> IF s \in used THEN [q.rep[s] EXCEPT !.att = @ + 1] ELSE q.rep[s]]
    <3>1. \A s \in Store : q.rep[s] \in [fresh : BOOLEAN, att : Nat, flags : SUBSET Flags]
      BY <1>1 DEF Selectors
    <3>2. \A s \in Store : [q.rep[s] EXCEPT !.att = @ + 1] \in [fresh : BOOLEAN, att : Nat, flags : SUBSET Flags]
      BY <3>1
    <3> QED
      BY <3>1, <3>2
  <2>3. PICK new : new = [q EXCEPT !.pc = "sent", !.rep = rep] /\ Step(r, new)
    BY <1>4, <2>2
  <2>4. new \in Selectors
    BY <1>1, <2>3 DEF Selectors, Active
  <2>5. /\ new.pc = "sent" /\ new.target = q.target /\ new.obj = q.obj /\ new.rep = rep
        /\ new.read = q.read /\ new.type = q.type /\ new.rt = q.rt /\ new.isStale = q.isStale
        /\ new.staleRead = q.staleRead /\ new.replicaRead = q.replicaRead /\ new.busy = q.busy
    BY <1>1, <2>3 DEF Selectors
  <2>6. Placed(new)
    BY <1>1, <2>1, <2>5 DEF Placed, Active
  <2>7. Honest(new)
    BY <1>1, <2>5 DEF Fine, Honest
  <2>8. Bounded(new)
    <3>1. \A s \in Store : rep[s].att = IF s \in used THEN q.rep[s].att + 1 ELSE q.rep[s].att
      BY <1>1, <2>2 DEF Selectors
    <3>2. CASE q.proxy = None
      <4>1. \A s \in Store : new.rep[s].att = IF s = q.target THEN q.rep[s].att + 1 ELSE q.rep[s].att
        BY <2>1, <2>5, <3>1, <3>2, Constant
      <4>2. q.rep[q.target].att < MaxAttempt
        BY <1>0, <1>1, <1>4, <3>2 DEF Fine, Placed
      <4> QED
        BY <1>1, <2>1, <2>4, <4>1, <4>2, BoundedTry DEF Fine
    <3>3. CASE q.proxy # None
      <4>1. \A s \in Store : new.rep[s].att = IF s \in {q.target, q.proxy} THEN q.rep[s].att + 1 ELSE q.rep[s].att
        BY <2>1, <2>5, <3>1, <3>3, Constant
      <4>2. q.proxy # q.target /\ q.rep[q.proxy].att = 0 /\ q.proxy \in Store
        BY <1>0, <1>1, <1>4, <2>1, <3>3 DEF Fine, Placed
      <4> QED
        BY <1>1, <2>1, <2>4, <4>1, <4>2, BoundedProxy DEF Fine
    <3> QED
      BY <3>2, <3>3
  <2>9. Fine(new)
    BY <2>4, <2>6, <2>7, <2>8 DEF Fine
  <2>10. Holds(region')
    BY <1>4, HoldsItself DEF Parts, Holds
  <2> QED
    BY <1>0, <2>3, <2>5, <2>9, <2>10, QuietStep
<1> QED
  BY <1>2, <1>3, <1>4 DEF buildRPCContext

-----------------------------------------------------------------------------
(* What comes back.                                                        *)

LEMMA Located ==
    ASSUME Parts, NEW r \in Request, sel[r].pc \in Active \ {"select", "build"}
    PROVE  /\ sel[r].pc \in Active /\ sel[r] \in Selectors /\ Fine(sel[r]) /\ sel[r].target \in Store
           /\ sel[r].obj \in Object /\ region[sel[r].obj] # None /\ work(r) \in Store
           /\ Holds(region) /\ cached \in Object /\ region[cached] # None
<1>1. Holds(region) /\ cached \in Object /\ region[cached] # None
  BY HoldsItself DEF Parts, RegionsTyped
<1>2. sel[r].pc \in Active
  OBVIOUS
<1>3. sel[r].target \in Store
  BY Own DEF Fine, Placed
<1> QED
  BY <1>1, <1>2, <1>3, Own

(* The sender changes its selector only. *)
LEMMA SelectorStep ==
    ASSUME Parts, NEW r \in Request, NEW new, Step(r, new), Fine(new), sel[r].pc \in Active, new.obj = sel[r].obj,
           UNCHANGED <<region, cached>>, EnvTyped'
    PROVE  Parts'
<1>1. Holds(region')
  BY HoldsItself DEF Parts, Holds
<1> QED
  BY <1>1, QuietStep

LEMMA onSendSuccessStep ==
    ASSUME Parts, NEW r \in Request, onSendSuccess(r)
    PROVE  Parts'
<1> DEFINE q == sel[r]
<1>0. q.pc \in Active \ {"select", "build"} /\ UNCHANGED cached /\ EnvTyped'
  BY DEF onSendSuccess, At, Active, Parts, EnvTyped, env
<1>1. q \in Selectors /\ q.target \in Store /\ q.obj \in Object /\ region[q.obj] # None /\ Holds(region)
  BY <1>0, Located
<1>2. PICK proxied : proxied = IF q.proxy = None THEN region ELSE [region EXCEPT ![q.obj].proxy = q.proxy]
  OBVIOUS
<1>3. Holds(proxied)
  <2>1. q.proxy \in Store \cup {None}
    BY <1>1 DEF Selectors
  <2> QED
    BY <1>1, <1>2, <2>1, HoldsProxy
<1>4. PICK moved : moved = IF q.staleRead \/ q.replicaRead THEN proxied ELSE switchWorkLeaderToPeer(proxied, q.obj, q.target)
  OBVIOUS
<1>5. Holds(moved)
  BY <1>1, <1>3, <1>4, HoldsSwitch
<1>6. Step(r, [Retry(r) EXCEPT !.pc = "done"]) /\ region' = Free(moved, q.obj, Held(r) \cup {cached})
  BY <1>2, <1>4 DEF onSendSuccess
<1> QED
  BY <1>0, <1>5, <1>6, LeaveStep

LEMMA AnswerFine ==
    ASSUME Parts, NEW r \in Request, sel[r].pc \in Active \ {"select", "build"}, NEW a \in Answers,
           NEW new, new = [sel[r] EXCEPT !.pc = "answer", !.got = a]
    PROVE  Fine(new) /\ new.obj = sel[r].obj
<1> DEFINE q == sel[r]
<1>1. q \in Selectors /\ Fine(q) /\ q.target \in Store /\ q.obj \in Object
  BY Located
<1>2. new \in Selectors
  BY <1>1 DEF Selectors, Active
<1>3. /\ new.pc = "answer" /\ new.target = q.target /\ new.obj = q.obj /\ new.rep = q.rep /\ new.got = a
      /\ new.read = q.read /\ new.type = q.type /\ new.rt = q.rt /\ new.isStale = q.isStale
      /\ new.staleRead = q.staleRead /\ new.replicaRead = q.replicaRead /\ new.busy = q.busy
  BY <1>1 DEF Selectors
<1>4. Placed(new)
  BY <1>1, <1>3 DEF Placed, Active
<1>5. Honest(new)
  BY <1>1, <1>3 DEF Fine, Honest
<1>6. Bounded(new)
  BY <1>1, <1>3 DEF Fine, Bounded, Tried
<1> QED
  BY <1>2, <1>3, <1>4, <1>5, <1>6 DEF Fine

LEMMA answerNotLeaderStep ==
    ASSUME Parts, NEW r \in Request, answerNotLeader(r)
    PROVE  Parts'
<1>0. sel[r].pc \in Active \ {"select", "build"} /\ sel[r].pc \in Active /\ UNCHANGED <<region, cached>> /\ EnvTyped'
  BY DEF answerNotLeader, At, Active, Parts, EnvTyped, env
<1>1. PICK hint \in Peers \cup {None} : Step(r, [sel[r] EXCEPT !.pc = "answer", !.got = [err |-> "NotLeader", leader |-> hint]])
  BY DEF answerNotLeader
<1>2. PICK a \in Answers : a = [err |-> "NotLeader", leader |-> hint]
  BY PeersAreStores DEF Parts, Answers
<1>3. PICK new : new = [sel[r] EXCEPT !.pc = "answer", !.got = a]
  OBVIOUS
<1>4. Fine(new) /\ new.obj = sel[r].obj
  BY <1>0, <1>3, AnswerFine
<1> QED
  BY <1>0, <1>1, <1>2, <1>3, <1>4, SelectorStep

LEMMA answerErrorStep ==
    ASSUME Parts, NEW r \in Request, answerError(r)
    PROVE  Parts'
<1>0. sel[r].pc \in Active \ {"select", "build"} /\ sel[r].pc \in Active /\ UNCHANGED <<region, cached>> /\ EnvTyped'
  BY DEF answerError, At, Active, Parts, EnvTyped, env
<1>1. PICK e \in conf.errs : Step(r, [sel[r] EXCEPT !.pc = "answer", !.got = [err |-> e]])
  BY DEF answerError
<1>2. e \in RegionErrors
  BY DEF Parts, EnvTyped
<1>3. PICK a \in Answers : a = [err |-> e]
  BY <1>2 DEF Answers
<1>4. PICK new : new = [sel[r] EXCEPT !.pc = "answer", !.got = a]
  OBVIOUS
<1>5. Fine(new) /\ new.obj = sel[r].obj
  BY <1>0, <1>4, AnswerFine
<1> QED
  BY <1>0, <1>1, <1>3, <1>4, <1>5, SelectorStep

LEMMA GotoStep ==
    ASSUME Parts, NEW r \in Request, sel[r].pc \in Active \ {"select", "build"}, NEW p \in {"select", "failed"}, Goto(r, p),
           UNCHANGED <<region, cached>>, EnvTyped'
    PROVE  Parts'
<1>1. sel[r].pc \in Active /\ sel[r].target \in Store
  BY Located
<1>2. PICK new : new = [sel[r] EXCEPT !.pc = p]
  OBVIOUS
<1>3. Fine(new) /\ new.obj = sel[r].obj
  BY <1>1, <1>2, GotoFine
<1> QED
  BY <1>1, <1>2, <1>3, SelectorStep DEF Goto

LEMMA sendFailsStep ==
    ASSUME Parts, NEW r \in Request, sendFails(r)
    PROVE  Parts'
<1>0. sel[r].pc \in Active \ {"select", "build"} /\ UNCHANGED <<region, cached>> /\ EnvTyped' /\ Goto(r, "failed")
  BY DEF sendFails, At, Active, Parts, EnvTyped, env
<1> QED
  BY <1>0, GotoStep

-----------------------------------------------------------------------------
(* Region errors.                                                          *)

LEMMA FlagStep ==
    ASSUME Parts, NEW r \in Request, sel[r].pc \in Active \ {"select", "build"}, NEW f \in Flags, Step(r, addFlag(r, f)),
           UNCHANGED <<region, cached>>, EnvTyped'
    PROVE  Parts'
<1>1. sel[r].pc \in Active /\ sel[r].target \in Store
  BY Located
<1>2. PICK new : new = addFlag(r, f)
  OBVIOUS
<1>3. Fine(new) /\ new.obj = sel[r].obj
  BY <1>1, <1>2, FlagFine
<1> QED
  BY <1>1, <1>2, <1>3, SelectorStep

LEMMA ChanceFine ==
    ASSUME NEW q, Fine(q), q.pc = "select", NEW l \in Store, NEW new, new = onUpdateLeader(q, l)
    PROVE  Fine(new) /\ new.obj = q.obj /\ new.pc = "select"
<1>1. q \in Selectors
  BY DEF Fine
<1>2. PICK e \in [fresh : BOOLEAN, att : Nat, flags : SUBSET Flags] :
        /\ e = [q.rep[l] EXCEPT !.flags = @ \ {"notLeader"}, !.att = IF @ >= MaxAttempt THEN MaxAttempt - 1 ELSE @]
        /\ e.att <= q.rep[l].att /\ (q.rep[l].att > 0 => e.att > 0)
  <2>1. PICK o \in [fresh : BOOLEAN, att : Nat, flags : SUBSET Flags] : o = q.rep[l]
    BY <1>1 DEF Selectors
  <2>2. PICK a \in Nat : a = (IF o.att >= MaxAttempt THEN MaxAttempt - 1 ELSE o.att)
    BY Constant
  <2>3. a <= o.att /\ (o.att > 0 => a > 0)
    BY <2>2, Constant
  <2>4. PICK e \in [fresh : BOOLEAN, att : Nat, flags : SUBSET Flags] :
          e = [o EXCEPT !.flags = o.flags \ {"notLeader"}, !.att = a] /\ e.att = a
    <3>1. PICK f \in SUBSET Flags : f = o.flags \ {"notLeader"}
      OBVIOUS
    <3>2. PICK e : e = [o EXCEPT !.flags = f, !.att = a]
      OBVIOUS
    <3>3. e \in [fresh : BOOLEAN, att : Nat, flags : SUBSET Flags] /\ e.att = a
      BY <3>2
    <3> QED
      BY <3>1, <3>2, <3>3
  <2>5. e = [o EXCEPT !.flags = @ \ {"notLeader"}, !.att = IF @ >= MaxAttempt THEN MaxAttempt - 1 ELSE @]
    BY <2>2, <2>4
  <2> QED
    BY <2>1, <2>3, <2>4, <2>5
<1>3. PICK rep \in [Store -> [fresh : BOOLEAN, att : Nat, flags : SUBSET Flags]] : rep = [q.rep EXCEPT ![l] = e]
  BY <1>1 DEF Selectors
<1>4. new = [q EXCEPT !.rep = rep]
  <2>1. new = [q EXCEPT !.rep[l] = e]
    BY <1>2 DEF onUpdateLeader
  <2>2. PICK old : old = q.rep
    OBVIOUS
  <2>3. rep = [old EXCEPT ![l] = e]
    BY <1>3, <2>2
  <2> QED
    BY <2>1, <2>2, <2>3
<1>5. new \in Selectors
  BY <1>1, <1>4 DEF Selectors
<1>6. /\ new.pc = "select" /\ new.obj = q.obj /\ new.rep = rep
      /\ new.read = q.read /\ new.type = q.type /\ new.rt = q.rt /\ new.isStale = q.isStale
      /\ new.staleRead = q.staleRead /\ new.replicaRead = q.replicaRead /\ new.busy = q.busy
  BY <1>1, <1>4 DEF Selectors
<1>7. Placed(new)
  BY <1>6 DEF Fine, Placed, Active
<1>8. Honest(new)
  BY <1>6 DEF Fine, Honest
<1>9. Bounded(new)
  <2>1. \A s \in Store : q.rep[s].att \in Nat
    BY <1>1 DEF Selectors
  <2>2. \A s \in Store : new.rep[s].att <= q.rep[s].att /\ (q.rep[s].att > 0 => new.rep[s].att > 0)
    BY <1>1, <1>2, <1>3, <1>6, <2>1 DEF Selectors
  <2> QED
    BY <1>1, <1>5, <2>2, BoundedKept DEF Fine
<1> QED
  BY <1>5, <1>6, <1>7, <1>8, <1>9 DEF Fine

LEMMA LeaderReadFine ==
    ASSUME NEW q, Fine(q), q.pc = "select", NEW new, new = [q EXCEPT !.rt = "leader"]
    PROVE  Fine(new) /\ new.obj = q.obj
<1>1. q \in Selectors
  BY DEF Fine
<1>2. new \in Selectors
  BY <1>1 DEF Selectors, Types
<1>3. /\ new.pc = "select" /\ new.obj = q.obj /\ new.rep = q.rep
      /\ new.read = q.read /\ new.type = q.type /\ new.rt = "leader" /\ new.isStale = q.isStale
      /\ new.staleRead = q.staleRead /\ new.replicaRead = q.replicaRead /\ new.busy = q.busy
  BY <1>1 DEF Selectors
<1>4. Placed(new)
  BY <1>3 DEF Fine, Placed, Active
<1>5. Honest(new)
  BY <1>3 DEF Fine, Honest
<1>6. Bounded(new)
  BY <1>3 DEF Fine, Bounded, Tried
<1> QED
  BY <1>2, <1>3, <1>4, <1>5, <1>6 DEF Fine

LEMMA onNotLeaderStep ==
    ASSUME Parts, NEW r \in Request, onNotLeader(r)
    PROVE  Parts'
<1>0. sel[r].pc = "answer" /\ sel[r].pc \in Active \ {"select", "build"} /\ UNCHANGED cached /\ EnvTyped'
  BY DEF onNotLeader, Error, At, Active, Parts, EnvTyped, env
<1>1. /\ sel[r].pc \in Active /\ sel[r].target \in Store /\ sel[r].obj \in Object /\ region[sel[r].obj] # None
      /\ Holds(region) /\ Fine(sel[r])
  BY <1>0, Located
<1>2. PICK q : q = addFlag(r, "notLeader")
  OBVIOUS
<1>3. Fine(q) /\ q.obj = sel[r].obj /\ q.pc = "select"
  BY <1>1, <1>2, FlagFine DEF Flags
<1>4. PICK l \in Store \cup {None} : l = sel[r].got.leader
  <2>1. sel[r].got \in Answers /\ sel[r].got.err = "NotLeader"
    BY <1>0, <1>1 DEF Fine, Placed, onNotLeader, Error
  <2> QED
    BY <2>1 DEF Answers, RegionErrors
<1>5. CASE updateLeader(l)
  <2>1. l \in Store
    BY <1>5 DEF updateLeader
  <2>2. PICK chance : chance = onUpdateLeader(q, l)
    OBVIOUS
  <2>3. Fine(chance) /\ chance.obj = q.obj /\ chance.pc = "select"
    BY <1>3, <2>1, <2>2, ChanceFine
  <2>4. region' = switchWorkLeaderToPeer(region, sel[r].obj, l)
    BY <1>2, <1>3, <1>4, <1>5 DEF onNotLeader
  <2>5. Holds(region')
    BY <1>1, <2>1, <2>4, HoldsSwitch
  <2>6. Step(r, chance) \/ Step(r, [chance EXCEPT !.rt = "leader"])
    BY <1>2, <1>4, <1>5, <2>2 DEF onNotLeader
  <2>7. CASE Step(r, chance)
    BY <1>0, <1>1, <1>3, <2>3, <2>5, <2>7, QuietStep
  <2>8. CASE Step(r, [chance EXCEPT !.rt = "leader"])
    <3>1. PICK new : new = [chance EXCEPT !.rt = "leader"]
      OBVIOUS
    <3>2. Fine(new) /\ new.obj = chance.obj
      BY <2>3, <3>1, LeaderReadFine
    <3> QED
      BY <1>0, <1>1, <1>3, <2>3, <2>5, <2>8, <3>1, <3>2, QuietStep
  <2> QED
    BY <2>6, <2>7, <2>8
<1>6. CASE ~updateLeader(l)
  <2>1. Step(r, q) /\ UNCHANGED region
    BY <1>2, <1>4, <1>6 DEF onNotLeader
  <2> QED
    BY <1>0, <1>1, <1>3, <2>1, SelectorStep
<1> QED
  BY <1>5, <1>6

(* The request goes to the leader, and is not a replica read any more. *)
AtLeader(q, busy, no, again) ==
    [q EXCEPT !.pc = "select", !.busy = busy, !.rt = "leader", !.type = "leader", !.replicaRead = no, !.again = again]

Turned(q, busy, no, new) ==
    /\ new \in Selectors /\ new.pc = "select" /\ new.obj = q.obj /\ new.rep = q.rep
    /\ new.read = q.read /\ new.type = "leader" /\ new.rt = "leader" /\ new.isStale = q.isStale
    /\ new.staleRead = q.staleRead /\ new.replicaRead = no /\ new.busy = busy

LEMMA AtLeaderTyped ==
    ASSUME NEW q \in Selectors, NEW again \in BOOLEAN, NEW busy \in BOOLEAN, NEW no \in BOOLEAN,
           NEW new, new = AtLeader(q, busy, no, again)
    PROVE  Turned(q, busy, no, new)
<1>1. PICK w \in Selectors : w = [q EXCEPT !.pc = "select", !.busy = busy, !.rt = "leader"]
  BY DEF Selectors, Active, Types
<1>2. new = [w EXCEPT !.type = "leader", !.replicaRead = no, !.again = again]
  BY <1>1 DEF AtLeader
<1>3. new \in Selectors
  BY <1>2 DEF Selectors, Types
<1> QED
  BY <1>1, <1>2, <1>3 DEF Selectors, Turned

LEMMA AtLeaderFine ==
    ASSUME NEW q, Fine(q), q.pc \in Active, NEW again \in BOOLEAN, NEW busy \in BOOLEAN, busy => q.busy, NEW no \in BOOLEAN, ~no,
           NEW new, new = AtLeader(q, busy, no, again)
    PROVE  Fine(new) /\ new.obj = q.obj
<1>1. q \in Selectors /\ q.obj \in Object
  BY DEF Fine, Placed
<1>2. Turned(q, busy, no, new)
  BY <1>1, AtLeaderTyped
<1>3. new \in Selectors /\ new.obj = q.obj
  BY <1>2 DEF Turned
<1>4. Placed(new)
  BY <1>1, <1>2 DEF Turned, Placed, Active
<1>5. Honest(new)
  BY <1>2 DEF Turned, Fine, Honest
<1>6. Bounded(new)
  BY <1>2 DEF Turned, Fine, Bounded, Tried
<1> QED
  BY <1>3, <1>4, <1>5, <1>6 DEF Fine

LEMMA onRegionNotFoundStep ==
    ASSUME Parts, NEW r \in Request, onRegionNotFound(r)
    PROVE  Parts'
<1> DEFINE q == sel[r]
<1>0. q.pc \in Active \ {"select", "build"} /\ UNCHANGED cached /\ EnvTyped'
  BY DEF onRegionNotFound, Error, At, Active, Parts, EnvTyped, env
<1>1. /\ q.pc \in Active /\ q \in Selectors /\ Fine(q) /\ Holds(region) /\ cached \in Object /\ region[cached] # None
  BY <1>0, Located
<1>2. Holds(invalidate(region, cached))
  BY <1>1, HoldsInvalid
<1>3. CASE RegionError(r, invalidate(region, cached))
  BY <1>0, <1>2, <1>3, ErrorStep
<1>4. CASE /\ Step(r, [q EXCEPT !.pc = "select", !.rt = "leader", !.type = "leader", !.replicaRead = FALSE, !.again = TRUE])
           /\ region' = invalidate(region, cached)
  <2>1. PICK yes \in BOOLEAN, no \in BOOLEAN, busy \in BOOLEAN : yes = TRUE /\ no = FALSE /\ busy = q.busy
    BY <1>1 DEF Selectors
  <2>2. PICK new : new = AtLeader(q, busy, no, yes)
    OBVIOUS
  <2>3. Fine(new) /\ new.obj = q.obj
    BY <1>1, <2>1, <2>2, AtLeaderFine
  <2>4. Step(r, new)
    <3>1. new = [q EXCEPT !.pc = "select", !.rt = "leader", !.type = "leader", !.replicaRead = no, !.again = yes]
      BY <1>1, <2>1, <2>2 DEF Selectors, AtLeader
    <3> QED
      BY <1>4, <2>1, <3>1
  <2> QED
    BY <1>0, <1>1, <1>2, <1>4, <2>3, <2>4, QuietStep
<1> QED
  BY <1>3, <1>4 DEF onRegionNotFound

LEMMA onFlashbackInProgressStep ==
    ASSUME Parts, NEW r \in Request, onFlashbackInProgress(r)
    PROVE  Parts'
<1> DEFINE q == sel[r]
<1>0. q.pc \in Active \ {"select", "build"} /\ UNCHANGED cached /\ EnvTyped'
  BY DEF onFlashbackInProgress, Error, At, Active, Parts, EnvTyped, env
<1>1. /\ q.pc \in Active /\ q \in Selectors /\ Fine(q) /\ Holds(region)
  BY <1>0, Located
<1>2. CASE /\ Step(r, [q EXCEPT !.pc = "select", !.busy = FALSE, !.rt = "leader", !.type = "leader", !.replicaRead = FALSE])
           /\ UNCHANGED region
  <2>1. PICK no \in BOOLEAN, again \in BOOLEAN : no = FALSE /\ again = q.again
    BY <1>1 DEF Selectors
  <2>2. PICK new : new = AtLeader(q, no, no, again)
    OBVIOUS
  <2>3. Fine(new) /\ new.obj = q.obj
    BY <1>1, <2>1, <2>2, AtLeaderFine
  <2>4. Step(r, new)
    <3>1. new = [q EXCEPT !.pc = "select", !.busy = no, !.rt = "leader", !.type = "leader", !.replicaRead = no]
      BY <1>1, <2>1, <2>2 DEF Selectors, AtLeader
    <3> QED
      BY <1>2, <2>1, <3>1
  <2> QED
    BY <1>0, <1>1, <1>2, <2>3, <2>4, SelectorStep
<1>3. CASE /\ Step(r, [Retry(r) EXCEPT !.pc = "error"])
           /\ region' = Free(region, q.obj, Held(r) \cup {cached})
  BY <1>0, <1>1, <1>3, LeaveStep
<1> QED
  BY <1>2, <1>3 DEF onFlashbackInProgress

LEMMA onServerIsBusyStep ==
    ASSUME Parts, NEW r \in Request, onServerIsBusy(r)
    PROVE  Parts'
<1>0. sel[r].pc \in Active \ {"select", "build"} /\ UNCHANGED <<region, cached>> /\ EnvTyped'
  BY DEF onServerIsBusy, Error, At, Active, Parts, EnvTyped, env
<1>1. Step(r, addFlag(r, "busy")) \/ Goto(r, "select")
  BY DEF onServerIsBusy
<1> QED
  BY <1>0, <1>1, FlagStep, GotoStep DEF Flags

LEMMA onReadReqConfigurableTimeoutStep ==
    ASSUME Parts, NEW r \in Request, onReadReqConfigurableTimeout(r)
    PROVE  Parts'
<1>0. sel[r].pc \in Active \ {"select", "build"} /\ UNCHANGED <<region, cached>> /\ EnvTyped' /\ Step(r, addFlag(r, "deadline"))
  BY DEF onReadReqConfigurableTimeout, Error, At, Active, Parts, EnvTyped, env
<1> QED
  BY <1>0, FlagStep DEF Flags

LEMMA onDataIsNotReadyStep ==
    ASSUME Parts, NEW r \in Request, onDataIsNotReady(r)
    PROVE  Parts'
<1>0. sel[r].pc \in Active \ {"select", "build"} /\ UNCHANGED <<region, cached>> /\ EnvTyped' /\ Step(r, addFlag(r, "notReady"))
  BY DEF onDataIsNotReady, Error, At, Active, Parts, EnvTyped, env
<1> QED
  BY <1>0, FlagStep DEF Flags

LEMMA retryNextPeerStep ==
    ASSUME Parts, NEW r \in Request, retryNextPeer(r)
    PROVE  Parts'
<1>0. sel[r].pc \in Active \ {"select", "build"} /\ UNCHANGED <<region, cached>> /\ EnvTyped' /\ Goto(r, "select")
  BY DEF retryNextPeer, Error, At, Active, Parts, EnvTyped, env
<1> QED
  BY <1>0, GotoStep

LEMMA reloadRegionStep ==
    ASSUME Parts, NEW r \in Request, reloadRegion(r)
    PROVE  Parts'
<1>0. sel[r].pc \in Active \ {"select", "build"} /\ UNCHANGED cached /\ EnvTyped'
  BY DEF reloadRegion, Error, At, Active, Parts, EnvTyped, env
<1>1. /\ sel[r].obj \in Object /\ region[sel[r].obj] # None /\ Holds(region) /\ cached \in Object /\ region[cached] # None
  BY <1>0, Located
<1>2. PICK rg : rg = invalidate(region, cached)
  OBVIOUS
<1>3. Holds(rg)
  BY <1>1, <1>2, HoldsInvalid
<1>4. Holds(invalidate(rg, sel[r].obj))
  BY <1>1, <1>3, HoldsInvalid
<1>5. RegionError(r, invalidate(rg, sel[r].obj))
  BY <1>2 DEF reloadRegion
<1> QED
  BY <1>0, <1>4, <1>5, ErrorStep

LEMMA onStoreNotMatchStep ==
    ASSUME Parts, NEW r \in Request, onStoreNotMatch(r)
    PROVE  Parts'
<1>0. /\ sel[r].pc \in Active \ {"select", "build"} /\ UNCHANGED cached /\ UNCHANGED env
      /\ store' = markStoreNeedCheck(sel[r].target) /\ RegionError(r, invalidate(region, cached))
  BY DEF onStoreNotMatch, Error, At, Active
<1>1. sel[r].target \in Store /\ Holds(region) /\ cached \in Object /\ region[cached] # None
  BY <1>0, Located
<1>2. EnvTyped'
  BY <1>0, <1>1, MarkedTyped
<1>3. Holds(invalidate(region, cached))
  BY <1>1, HoldsInvalid
<1> QED
  BY <1>0, <1>2, <1>3, ErrorStep

-----------------------------------------------------------------------------
(* Sends that fail, and the stores.                                        *)

LEMMA FailedStore ==
    ASSUME Parts, NEW r \in Request, sel[r].pc \in Active \ {"select", "build"}
    PROVE  Failed(r) \in Store
<1>1. sel[r].target \in Store /\ sel[r] \in Selectors
  BY Located
<1>2. sel[r].proxy \in Store \cup {None}
  BY <1>1 DEF Selectors
<1> QED
  BY <1>1, <1>2 DEF Failed

LEMMA WaitFine ==
    ASSUME Parts, NEW r \in Request, sel[r].pc \in Active \ {"select", "build"}, NEW p \in {"select", "mark", "invalidate"},
           NEW g \in {None} \cup Failures, p = "mark" => g \in Failures, NEW new, new = [sel[r] EXCEPT !.pc = p, !.got = g]
    PROVE  Fine(new) /\ new.obj = sel[r].obj
<1> DEFINE q == sel[r]
<1>1. q \in Selectors /\ Fine(q) /\ q.target \in Store /\ q.obj \in Object
  BY Located
<1>2. new \in Selectors
  BY <1>1 DEF Selectors, Active
<1>3. /\ new.pc = p /\ new.target = q.target /\ new.obj = q.obj /\ new.rep = q.rep /\ new.got = g
      /\ new.read = q.read /\ new.type = q.type /\ new.rt = q.rt /\ new.isStale = q.isStale
      /\ new.staleRead = q.staleRead /\ new.replicaRead = q.replicaRead /\ new.busy = q.busy
  BY <1>1 DEF Selectors
<1>4. Placed(new)
  BY <1>1, <1>3 DEF Placed, Active
<1>5. Honest(new)
  BY <1>1, <1>3 DEF Fine, Honest
<1>6. Bounded(new)
  BY <1>1, <1>3 DEF Fine, Bounded, Tried
<1> QED
  BY <1>2, <1>3, <1>4, <1>5, <1>6 DEF Fine

LEMMA checkLivenessStep ==
    ASSUME Parts, NEW r \in Request, checkLiveness(r)
    PROVE  Parts'
<1>0. sel[r].pc \in Active \ {"select", "build"} /\ sel[r].pc \in Active /\ UNCHANGED <<region, cached>> /\ EnvTyped'
  BY DEF checkLiveness, At, Active, Parts, EnvTyped, env
<1>1. PICK l \in requestLiveness(Failed(r)) :
        Step(r, [sel[r] EXCEPT !.pc = IF l = "reachable" THEN "select" ELSE "mark", !.got = IF l = "reachable" THEN None ELSE [live |-> l]])
  BY DEF checkLiveness
<1>2. PICK p \in {"select", "mark"}, g \in {None} \cup Failures :
        /\ p = (IF l = "reachable" THEN "select" ELSE "mark") /\ g = (IF l = "reachable" THEN None ELSE [live |-> l])
        /\ p = "mark" => g \in Failures
  <2>1. CASE l = "reachable"
    BY <2>1
  <2>2. CASE l \in {"unknown", "unreachable"}
    <3>1. [live |-> l] \in Failures
      BY <2>2 DEF Failures
    <3> QED
      BY <2>2, <3>1
  <2> QED
    BY <2>1, <2>2 DEF requestLiveness
<1>3. PICK new : new = [sel[r] EXCEPT !.pc = p, !.got = g]
  OBVIOUS
<1>4. Fine(new) /\ new.obj = sel[r].obj
  BY <1>0, <1>2, <1>3, WaitFine
<1> QED
  BY <1>0, <1>1, <1>2, <1>3, <1>4, SelectorStep

LEMMA startHealthCheckLoopStep ==
    ASSUME Parts, NEW r \in Request, startHealthCheckLoop(r)
    PROVE  Parts'
<1>0. sel[r].pc = "mark" /\ sel[r].pc \in Active \ {"select", "build"} /\ sel[r].pc \in Active /\ UNCHANGED <<region, cached>> /\ UNCHANGED env
  BY DEF startHealthCheckLoop, At, Active
<1>1. PICK s \in Store : s = Failed(r)
  BY <1>0, FailedStore
<1>2. PICK l \in {"unreachable", "unknown"} : l = sel[r].got.live
  <2>1. sel[r].got \in Failures
    BY <1>0, Own DEF Fine, Placed
  <2> QED
    BY <2>1 DEF Failures
<1>3. EnvTyped'
  <2>1. store' = store \/ store' = [store EXCEPT ![s].live = l, ![s].loop = TRUE]
    BY <1>1, <1>2 DEF startHealthCheckLoop
  <2>2. store' \in [Store -> [live : {"reachable", "unreachable", "unknown"}, loop : BOOLEAN, resolve : {"resolved", "needCheck"}]]
    BY <2>1 DEF Parts, EnvTyped
  <2> QED
    BY <1>0, <2>2 DEF Parts, EnvTyped, env
<1>4. PICK p \in {"select", "invalidate"} : Step(r, [sel[r] EXCEPT !.pc = p, !.got = None])
  BY DEF startHealthCheckLoop
<1>5. PICK new : new = [sel[r] EXCEPT !.pc = p, !.got = None]
  OBVIOUS
<1>6. Fine(new) /\ new.obj = sel[r].obj
  BY <1>0, <1>5, WaitFine
<1> QED
  BY <1>0, <1>3, <1>4, <1>5, <1>6, SelectorStep

LEMMA SelectFine ==
    ASSUME NEW q, Fine(q), q.pc \in Active, NEW new, new = [q EXCEPT !.pc = "select"]
    PROVE  Fine(new) /\ new.obj = q.obj /\ new.pc = "select"
<1>1. q \in Selectors /\ q.obj \in Object
  BY DEF Fine, Placed
<1>2. new \in Selectors
  BY <1>1 DEF Selectors, Active
<1>3. /\ new.pc = "select" /\ new.obj = q.obj /\ new.rep = q.rep
      /\ new.read = q.read /\ new.type = q.type /\ new.rt = q.rt /\ new.isStale = q.isStale
      /\ new.staleRead = q.staleRead /\ new.replicaRead = q.replicaRead /\ new.busy = q.busy
  BY <1>1 DEF Selectors
<1>4. Placed(new)
  BY <1>1, <1>3 DEF Placed, Active
<1>5. Honest(new)
  BY <1>3 DEF Fine, Honest
<1>6. Bounded(new)
  BY <1>3 DEF Fine, Bounded, Tried
<1> QED
  BY <1>2, <1>3, <1>4, <1>5, <1>6 DEF Fine

LEMMA invalidateReplicaStoreStep ==
    ASSUME Parts, NEW r \in Request, invalidateReplicaStore(r)
    PROVE  Parts'
<1>0. sel[r].pc \in Active \ {"select", "build"} /\ sel[r].pc \in Active /\ UNCHANGED cached /\ UNCHANGED env
  BY DEF invalidateReplicaStore, At, Active
<1>1. PICK s \in Store : s = Failed(r)
  BY <1>0, FailedStore
<1>2. EnvTyped'
  <2>1. store' = store \/ store' = markStoreNeedCheck(s)
    BY <1>1 DEF invalidateReplicaStore
  <2> QED
    BY <1>0, <2>1, MarkedTyped
<1>3. CASE Goto(r, "select") /\ UNCHANGED region
  BY <1>0, <1>2, <1>3, GotoStep
<1>4. CASE sel' = [staleSelectors(s) EXCEPT ![r].pc = "select"] /\ region' = staleRegions(s)
  <2>1. PICK old : old = staleSelectors(s)[r]
    OBVIOUS
  <2>2. Fine(old) /\ old.pc = sel[r].pc /\ old.obj = sel[r].obj
    BY <2>1, StaleFine
  <2>3. PICK new : new = [old EXCEPT !.pc = "select"]
    OBVIOUS
  <2>4. Fine(new) /\ new.obj = sel[r].obj
    BY <1>0, <2>2, <2>3, SelectFine
  <2>5. sel' = [staleSelectors(s) EXCEPT ![r] = new]
    BY <1>4, <2>1, <2>3 DEF staleSelectors
  <2>6. Holds(region')
    BY <1>4, HoldsStale DEF Parts
  <2>7. FreedRight(r, region') /\ Uses(new, region')
    BY <1>0, <2>4, <2>6, HoldsIsRight, Own DEF Uses, Holds
  <2> QED
    BY <1>0, <1>2, <2>4, <2>5, <2>7, MarkStep
<1> QED
  BY <1>1, <1>3, <1>4 DEF invalidateReplicaStore

-----------------------------------------------------------------------------
(* The cluster, the health checks and the resolver.                        *)

LEMMA Apart ==
    ASSUME Parts, UNCHANGED <<region, cached, sel>>, EnvTyped'
    PROVE  Parts'
<1>1. RegionsTyped'
  BY DEF Parts, RegionsTyped
<1>2. (\A r \in Request : Fine(sel[r]) /\ Uses(sel[r], region))'
  BY DEF Parts, Fine, Placed, Honest, Bounded, Tried, Uses
<1> QED
  BY <1>1, <1>2 DEF Parts

LEMMA ClusterStep ==
    ASSUME Parts, Cluster \/ Elect
    PROVE  Parts'
<1>0. Peers \subseteq Store
  BY PeersAreStores DEF Parts
<1>1. CASE Restart \/ Heal
  BY <1>1, Apart DEF Parts, EnvTyped, Restart, Heal
<1>2. CASE Transfer \/ Elect
  BY <1>0, <1>2, Apart DEF Parts, EnvTyped, Transfer, Elect
<1>3. CASE \E s \in Store : Crash(s) \/ Cut(s)
  BY <1>3, Apart DEF Parts, EnvTyped, Crash, Cut
<1> QED
  BY <1>1, <1>2, <1>3 DEF Cluster

LEMMA StoreStep ==
    ASSUME Parts, NEW s \in Store, HealthCheck(s) \/ reResolve(s)
    PROVE  Parts'
<1>1. UNCHANGED <<region, cached, sel>> /\ UNCHANGED env
  BY DEF HealthCheck, reResolve
<1>2. store' \in [Store -> [live : {"reachable", "unreachable", "unknown"}, loop : BOOLEAN, resolve : {"resolved", "needCheck"}]]
  <2>1. CASE reResolve(s)
    BY <2>1 DEF Parts, EnvTyped, reResolve
  <2>2. CASE HealthCheck(s)
    <3>1. PICK l \in requestLiveness(s) : store' = [store EXCEPT ![s].live = l, ![s].loop = l # "reachable"]
      BY <2>2 DEF HealthCheck
    <3>2. l \in {"reachable", "unreachable", "unknown"}
      BY DEF requestLiveness
    <3>3. PICK b \in BOOLEAN : store' = [store EXCEPT ![s].live = l, ![s].loop = b]
      BY <3>1
    <3> QED
      BY <3>2, <3>3 DEF Parts, EnvTyped
  <2> QED
    BY <2>1, <2>2
<1>3. EnvTyped'
  BY <1>1, <1>2 DEF Parts, EnvTyped, env
<1> QED
  BY <1>1, <1>3, Apart

-----------------------------------------------------------------------------
(* The theorems.                                                           *)

LEMMA SenderStep ==
    ASSUME Parts, NEW r \in Request, Sender(r)
    PROVE  Parts'
<1>1. CASE getRPCContext(r)
  BY <1>1, LocateKeyStep, invalidSelectorStep, nextStep, nextProxyStep, nextNoProxyStep, buildRPCContextStep DEF getRPCContext
<1>2. CASE send(r)
  BY <1>2, onSendSuccessStep, answerNotLeaderStep, answerErrorStep, sendFailsStep DEF send
<1>3. CASE onSendFail(r)
  BY <1>3, checkLivenessStep, startHealthCheckLoopStep, invalidateReplicaStoreStep DEF onSendFail
<1>4. CASE onRegionError(r)
  BY <1>4, onNotLeaderStep, onRegionNotFoundStep, onServerIsBusyStep, onReadReqConfigurableTimeoutStep, onDataIsNotReadyStep,
     onFlashbackInProgressStep, retryNextPeerStep, reloadRegionStep, onStoreNotMatchStep DEF onRegionError
<1> QED
  BY <1>1, <1>2, <1>3, <1>4 DEF Sender

LEMMA Inductive == Parts /\ [Next]_vars => Parts'
<1> SUFFICES ASSUME Parts, [Next]_vars PROVE Parts'
  OBVIOUS
<1>1. CASE UNCHANGED vars
  <2>1. EnvTyped' /\ UNCHANGED <<region, cached, sel>>
    BY <1>1 DEF vars, Parts, EnvTyped
  <2> QED
    BY <2>1, Apart
<1>2. CASE Cluster \/ Elect
  BY <1>2, ClusterStep
<1>3. CASE \E s \in Store : HealthCheck(s) \/ reResolve(s)
  BY <1>3, StoreStep
<1>4. CASE \E r \in Request : Sender(r)
  BY <1>4, SenderStep
<1> QED
  BY <1>1, <1>2, <1>3, <1>4 DEF Next

Raw(p, read, type, busy, labels, timeout, stale, replica, no, rep) ==
    [pc |-> p, read |-> read, type |-> type, busy |-> busy, labels |-> labels, timeout |-> timeout,
     staleRead |-> stale, replicaRead |-> replica,
     obj |-> None, rt |-> type, isStale |-> no, prefer |-> no, attempts |-> 0, target |-> None, proxy |-> None,
     again |-> no, rep |-> rep, got |-> None]

LEMMA NewTyped ==
    ASSUME NEW p \in {"locate", "done"}, NEW read \in BOOLEAN, NEW type \in Types, NEW busy \in BOOLEAN,
           NEW labels \in SUBSET Store, NEW timeout \in BOOLEAN, NEW stale \in BOOLEAN, NEW replica \in BOOLEAN, NEW no \in BOOLEAN,
           NEW rep \in [Store -> [fresh : BOOLEAN, att : Nat, flags : SUBSET Flags]]
    PROVE  Raw(p, read, type, busy, labels, timeout, stale, replica, no, rep) \in Selectors
BY DEF Raw, Selectors, Active

LEMMA NewFine ==
    ASSUME NEW a \in Asks, a.stale => ~a.busy, NEW p \in {"locate", "done"}, NEW new, new = [NewRequest(a) EXCEPT !.pc = p]
    PROVE  Fine(new) /\ new.pc = p
<1>1. PICK rep \in [Store -> [fresh : BOOLEAN, att : Nat, flags : SUBSET Flags]] :
        rep = [s \in Store |-> [fresh |-> TRUE, att |-> 0, flags |-> {}]]
  OBVIOUS
<1>2. /\ a.read \in BOOLEAN /\ a.type \in Types /\ a.busy \in BOOLEAN /\ a.labels \in SUBSET Store /\ a.timeout \in BOOLEAN
      /\ a.stale \in BOOLEAN
      /\ ~a.read => a.type = "leader" /\ ~a.stale
  BY DEF Asks
<1>3. PICK no \in BOOLEAN, replica \in BOOLEAN : no = FALSE /\ replica = (a.type # "leader" /\ ~a.stale)
  OBVIOUS
<1>4. new = Raw(p, a.read, a.type, a.busy, a.labels, a.timeout, a.stale, replica, no, rep)
  <2>1. NewRequest(a) = Raw("locate", a.read, a.type, a.busy, a.labels, a.timeout, a.stale, replica, no, rep)
    BY <1>1, <1>3 DEF NewRequest, Raw
  <2> QED
    BY <2>1 DEF Raw
<1>5. new \in Selectors
  BY <1>2, <1>4, NewTyped
<1>6. /\ new.pc = p /\ new.rep = rep /\ new.read = a.read /\ new.type = a.type /\ new.rt = a.type /\ new.isStale = no
      /\ new.staleRead = a.stale /\ new.replicaRead = replica /\ new.busy = a.busy
  BY <1>4 DEF Raw
<1>7. Placed(new)
  BY <1>6 DEF Placed, Active
<1>8. Honest(new)
  BY <1>2, <1>3, <1>6 DEF Honest
<1>9. Bounded(new)
  <2>1. \A s \in Store : new.rep[s].att = 0
    BY <1>1, <1>6
  <2> QED
    BY <1>5, <2>1, BoundedNew
<1> QED
  BY <1>5, <1>6, <1>7, <1>8, <1>9 DEF Fine

LEMMA Initial == OneReadMode /\ Init => Parts
<1> SUFFICES ASSUME OneReadMode, Init PROVE Parts
  OBVIOUS
<1> DEFINE idle == [read |-> TRUE, type |-> "leader", busy |-> FALSE, labels |-> {}, timeout |-> FALSE, stale |-> FALSE]
<1>1. PICK sc \in Scenarios :
       /\ leader = 1 /\ up = Store /\ cut = {}
       /\ store = [s \in Store |-> [live |-> "reachable", loop |-> FALSE, resolve |-> "resolved"]]
       /\ region = [o \in Object |-> IF o = 1 THEN Fresh(1) ELSE None] /\ cached = 1
       /\ sel = [r \in Request |-> IF sc.ask[r] = None THEN [NewRequest(idle) EXCEPT !.pc = "done"] ELSE NewRequest(sc.ask[r])]
       /\ conf = [forward |-> sc.forward, peers |-> sc.peers, errs |-> sc.errs, victims |-> sc.victims]
  BY DEF Init
<1>2. EnvTyped
  <2>1. /\ sc.forward \in BOOLEAN /\ sc.peers \in 1 .. N /\ sc.errs \in SUBSET RegionErrors /\ sc.victims \in SUBSET Store
    BY ScenariosAssumption
  <2>2. conf \in [forward : BOOLEAN, peers : 1 .. N, errs : SUBSET RegionErrors, victims : SUBSET Store]
    BY <1>1, <2>1
  <2>3. 1 \in Store
    BY PeersAssumption DEF Store
  <2>4. store \in [Store -> [live : {"reachable", "unreachable", "unknown"}, loop : BOOLEAN, resolve : {"resolved", "needCheck"}]]
    BY <1>1
  <2> QED
    BY <1>1, <2>2, <2>3, <2>4 DEF EnvTyped
<1>3. RegionsTyped
  <2>1. Cardinality(Request) \in Nat
    BY ScenariosAssumption, FS_CardinalityType
  <2>2. 1 \in Object /\ 1 \in Store
    BY <2>1, PeersAssumption DEF Object, Store
  <2>3. Fresh(1) \in Regions
    BY <2>2 DEF Fresh, Regions
  <2> QED
    BY <1>1, <2>2, <2>3, Constant DEF RegionsTyped
<1>4. ASSUME NEW r \in Request PROVE Fine(sel[r]) /\ Uses(sel[r], region)
  <2>1. CASE sc.ask[r] = None
    <3>1. PICK a \in Asks : a = idle /\ (a.stale => ~a.busy)
      <4>1. PICK yes \in BOOLEAN, no \in BOOLEAN, none \in SUBSET Store : yes = TRUE /\ no = FALSE /\ none = {}
        OBVIOUS
      <4>2. PICK a : a = [read |-> yes, type |-> "leader", busy |-> no, labels |-> none, timeout |-> no, stale |-> no]
        OBVIOUS
      <4>3. /\ a \in [read : BOOLEAN, type : Types, busy : BOOLEAN, labels : SUBSET Store, timeout : BOOLEAN, stale : BOOLEAN]
            /\ a.read = yes /\ a.stale = no
        BY <4>2 DEF Types
      <4>4. a \in Asks
        BY <4>1, <4>3 DEF Asks
      <4> QED
        BY <4>1, <4>2, <4>3, <4>4
    <3>2. PICK new : new = [NewRequest(a) EXCEPT !.pc = "done"]
      OBVIOUS
    <3>3. Fine(new) /\ new.pc = "done"
      BY <3>1, <3>2, NewFine
    <3>4. sel[r] = new
      BY <1>1, <2>1, <3>1, <3>2
    <3> QED
      BY <3>3, <3>4 DEF Uses, Active
  <2>2. CASE sc.ask[r] # None
    <3>1. PICK a \in Asks : a = sc.ask[r]
      BY <2>2, ScenariosAssumption
    <3>2. a.stale => ~a.busy
      BY <2>2, <3>1 DEF OneReadMode
    <3>3. PICK new : new = [NewRequest(a) EXCEPT !.pc = "locate"]
      OBVIOUS
    <3>4. Fine(new) /\ new.pc = "locate"
      BY <3>2, <3>3, NewFine
    <3>5. NewRequest(a) = new
      BY <3>3 DEF NewRequest
    <3>6. sel[r] = new
      BY <1>1, <2>2, <3>1, <3>5
    <3> QED
      BY <3>4, <3>6 DEF Uses, Active
  <2> QED
    BY <2>1, <2>2
<1>5. sel \in [Request -> Selectors]
  <2>1. \A r \in Request : sel[r] \in Selectors
    BY <1>4 DEF Fine
  <2> QED
    BY <1>1, <2>1
<1> QED
  BY <1>2, <1>3, <1>4, <1>5 DEF Parts

(* In every scenario in which no stale read has a busy threshold, whatever *)
(* the errors, crashes and moves of leaders: a sender is where its         *)
(* selector says, uses a region that is still kept, has honest flags, and  *)
(* has tried each peer a bounded number of times.                          *)
THEOREM Invariance == OneReadMode => (Spec => []RequestInv)
<1>1. OneReadMode /\ Init => Parts
  BY Initial
<1>2. Parts /\ [Next]_vars => Parts'
  BY Inductive
<1>3. Parts => RequestInv
  BY InvIsParts
<1>4. OneReadMode => (Init /\ [][Next]_vars => []RequestInv)
  <2> SUFFICES ASSUME OneReadMode PROVE Init /\ [][Next]_vars => []RequestInv
    OBVIOUS
  <2>1. Init => Parts
    BY <1>1
  <2> QED
    BY <1>2, <1>3, <2>1, PTL
<1> QED
  BY <1>4, PTL DEF Spec

LEMMA InvGivesFlags == RequestInv => FlagsHonest
<1> SUFFICES ASSUME Parts PROVE FlagsHonest
  BY InvIsParts
<1>1. ASSUME NEW r \in Request
      PROVE  /\ sel[r].pc \in Active \cup {"locate", "done", "error"}
             /\ sel[r].obj \in Object \cup {None} /\ sel[r].target \in Store \cup {None} /\ sel[r].proxy \in Store \cup {None}
             /\ \A s \in Store : sel[r].rep[s].att \in 0 .. MaxAttempt + N /\ sel[r].rep[s].flags \subseteq Flags
  <2>1. sel[r] \in Selectors /\ Bounded(sel[r])
    BY Own DEF Fine
  <2>2. ASSUME NEW s \in Store PROVE sel[r].rep[s].att \in 0 .. MaxAttempt + N
    <3>1. sel[r].rep[s].att \in Nat
      BY <2>1 DEF Selectors
    <3>2. PICK n \in Nat : n = Cardinality(Tried(sel[r]) \ {s}) /\ n <= N
      BY TriedFacts
    <3>3. sel[r].rep[s].att <= MaxAttempt + n
      BY <2>1, <3>2 DEF Bounded
    <3> QED
      BY <3>1, <3>2, <3>3, Constant
  <2> QED
    BY <2>1, <2>2 DEF Selectors
<1>2. TypeOK
  <2>1. \A o \in Object : region[o] # None => region[o] \in Regions
    BY DEF Parts, RegionsTyped
  <2> QED
    BY <1>1, <2>1 DEF TypeOK, Parts, EnvTyped, RegionsTyped, Regions, Active
<1>3. ASSUME NEW r \in Request PROVE Honest(sel[r])
  BY Own DEF Fine
<1> QED
  BY <1>2, <1>3 DEF FlagsHonest, Honest

(* In those scenarios, after any number of retries, a request that is sent *)
(* carries honest flags: a write is no stale and no replica read, a read   *)
(* is not both.                                                            *)
THEOREM FlagsStayHonest == OneReadMode => (Spec => []FlagsHonest)
BY Invariance, InvGivesFlags, PTL
=============================================================================
