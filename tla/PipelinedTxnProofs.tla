-------------------------- MODULE PipelinedTxnProofs --------------------------
(***************************************************************************)
(* What is proved of PipelinedTxn: the inductive invariant PipelinedInv,   *)
(* and from it BufferRight and OutcomeRight, for any number of keys,       *)
(* writes and generations.                                                 *)
(*                                                                         *)
(* A step changes few of the variables that a part of the invariant is     *)
(* about; the lemmas named Keep... say that a part stays when none of its  *)
(* variables changes.  The steps of the stores that decide a key share the *)
(* shape Settles, and are reasoned about once.                             *)
(***************************************************************************)
EXTENDS PipelinedTxn, NaturalsInduction, WellFoundedInduction, TLAPS

(* The types, by the variables they are about. *)
TypeMem ==
    /\ mem \in [Keys -> Entry] /\ own \in [Keys -> Entry]
    /\ stage = Nil \/ stage \in [Keys -> Entry] \X [Keys -> Entry]
    /\ cache \in [Keys -> Values \cup {"unknown"}]
    /\ writes \in 0 .. MaxWrites
TypeFlush ==
    /\ flushing = Nil \/ flushing \in [Keys -> Entry]
    /\ gen \in 0 .. MaxGen + 1
    /\ fl \in [pc : {"idle", "start", "send", "end"}, failed : BOOLEAN,
               batch : [Keys -> {"none", "todo", "sent", "ok", "err"}]]
    /\ errCh \in {"none", "ok", "err"}
TypeTxn ==
    /\ ttl \in {"uninit", "running", "closed"}
    /\ primary \in Keys \cup {0} /\ lo \in Keys \cup {0} /\ hi \in Keys \cup {0} /\ lo <= hi
TypeApp ==
    app \in Waiting \cup {"open", "failed", "committing", "commitSent", "committed", "error",
                          "undetermined", "rolledback"}
TypeReqs ==
    /\ ran \subseteq reqs /\ creq \in BOOLEAN /\ reqs \subseteq Req
    /\ \A q \in reqs : q.gen \in 1 .. gen
TypeStore == lock \in [Keys -> Lock] /\ rec \in [Keys -> Entry \cup {"rollback"}]
TypeTask ==
    res \in [pc : {"idle", "run", "done", "failed"}, commit : BOOLEAN,
             tasks : SUBSET (Keys \X Keys), bounds : SUBSET (2 .. NKeys), late : SUBSET Keys]
Types == TypeMem /\ TypeFlush /\ TypeTxn /\ TypeApp /\ TypeReqs /\ TypeStore /\ TypeTask

(* The parts of the invariant, in one conjunction. *)
Parts ==
    /\ Types /\ FlushHandshake /\ Phases /\ RequestsKnown /\ BatchKnown
    /\ LocksKnown /\ Decided /\ WritesKnown /\ TasksCover

LEMMA InvIsParts == PipelinedInv <=> Parts
<1>1. TypeOK /\ Typed /\ LocksKnown => Types
  BY DEF TypeOK, Typed, Types, TypeMem, TypeFlush, TypeTxn, TypeApp, TypeReqs, TypeStore, TypeTask
<1>2. Types /\ LocksKnown => TypeOK /\ Typed
  BY DEF TypeOK, Typed, Types, TypeMem, TypeFlush, TypeTxn, TypeApp, TypeReqs, TypeStore, TypeTask,
         LocksKnown, Req
<1> QED
  BY <1>1, <1>2 DEF PipelinedInv, Parts

-----------------------------------------------------------------------------
(* Parts whose variables do not change.                                    *)

LEMMA KeepMem == TypeMem /\ UNCHANGED memVars => TypeMem'
BY DEF TypeMem, memVars

LEMMA KeepFlush == TypeFlush /\ UNCHANGED flushVars => TypeFlush'
BY DEF TypeFlush, flushVars

LEMMA KeepTxn == TypeTxn /\ UNCHANGED txnVars => TypeTxn'
BY DEF TypeTxn, txnVars

LEMMA KeepReqs == TypeReqs /\ UNCHANGED <<reqs, ran, creq, gen>> => TypeReqs'
BY DEF TypeReqs

LEMMA KeepStore == TypeStore /\ UNCHANGED <<lock, rec>> => TypeStore'
BY DEF TypeStore

LEMMA KeepTask == TypeTask /\ UNCHANGED res => TypeTask'
BY DEF TypeTask

LEMMA KeepHandshake == FlushHandshake /\ UNCHANGED <<flushing, fl, errCh>> => FlushHandshake'
BY DEF FlushHandshake

LEMMA KeepPhases ==
    Phases /\ UNCHANGED <<mem, stage, cache, flushing, gen, fl, errCh, app, creq, res>> => Phases'
BY DEF Phases, Stopped

LEMMA KeepRequests ==
    RequestsKnown /\ UNCHANGED <<lo, hi, primary, reqs, gen, flushing, app, ran>> => RequestsKnown'
BY DEF RequestsKnown, Request, Intact

LEMMA KeepBatch ==
    BatchKnown /\ UNCHANGED <<fl, flushing, gen, primary, ran, errCh, lo, hi>> => BatchKnown'
BY DEF BatchKnown, Request, Mutations

LEMMA KeepLocks == LocksKnown /\ UNCHANGED <<lock, ran, rec>> => LocksKnown'
BY DEF LocksKnown

LEMMA KeepDecided == Decided /\ UNCHANGED <<primary, rec, creq, app, res>> => Decided'
BY DEF Decided, Doomed, Committed

LEMMA KeepWrites ==
    WritesKnown /\ UNCHANGED <<mem, own, stage, flushing, rec, lock, app, cache>> => WritesKnown'
BY DEF WritesKnown, Agrees, Below, Intact, Matches, Absent

LEMMA KeepTasks == TasksCover /\ UNCHANGED <<res, lock, lo, hi>> => TasksCover'
BY DEF TasksCover, OutsideRange, InTasks

-----------------------------------------------------------------------------
(* Facts about the constants.                                              *)

LEMMA Empties ==
    /\ EmptyDB \in [Keys -> Entry] /\ NoCache \in [Keys -> Values \cup {"unknown"}]
    /\ Value \in [Entry -> Values] /\ Entries \subseteq Entry
    /\ \A k \in Keys : EmptyDB[k] = "none" /\ NoCache[k] = "unknown"
BY ConstantsAssumption DEF EmptyDB, NoCache, Value, Entry, AllEntries, Values

(* A memdb is not the absent one. *)
LEMMA NotNil == ASSUME NEW m \in [Keys -> Entry] PROVE m # Nil
<1>1. 1 \in Keys
  BY ConstantsAssumption DEF Keys
<1>2. DOMAIN m = Keys /\ DOMAIN Nil = {}
  BY DEF Nil
<1> QED
  BY <1>1, <1>2

LEMMA MinFacts ==
    ASSUME NEW S \in SUBSET Nat, S # {}
    PROVE  Min(S) \in S /\ \A x \in S : Min(S) <= x
<1>1. PICK d \in S : \A e \in S : ~(<<e, d>> \in OpToRel(<, Nat))
  BY WFMin, NatLessThanWellFounded, Zenon
<1>2. \A e \in S : d <= e
  <2>1. ASSUME NEW e \in Nat, NEW f \in Nat, e < f PROVE <<e, f>> \in OpToRel(<, Nat)
    BY <2>1 DEF OpToRel
  <2>2. \A e \in S : ~(e < d)
    BY <1>1, <2>1, Zenon
  <2> QED
    BY <2>2
<1> QED
  BY <1>2 DEF Min

LEMMA MaxFacts ==
    ASSUME NEW n \in Nat, NEW S \in SUBSET (0 .. n), S # {}
    PROVE  Max(S) \in S /\ \A x \in S : x <= Max(S)
<1> DEFINE T == {n - x : x \in S}
<1>1. T \subseteq Nat /\ T # {}
  <2>1. \A x \in S : n - x \in Nat
    OBVIOUS
  <2> QED
    BY <2>1
<1>2. Min(T) \in T /\ \A y \in T : Min(T) <= y
  <2> HIDE DEF T
  <2> QED
    BY <1>1, MinFacts
<1>3. PICK m \in S : Min(T) = n - m
  BY <1>2
<1>4. \A x \in S : n - m <= n - x
  BY <1>2, <1>3
<1>5. \A x \in S : x <= m
  BY <1>4
<1> QED
  BY <1>5 DEF Max

-----------------------------------------------------------------------------
(* What is there once a flush has reported success.                        *)

(* Every request has run. *)
LEMMA AllRan ==
    ASSUME Parts, Intact, errCh = "ok", flushing # Nil
    PROVE  reqs \subseteq ran
<1> USE DEF Parts, Types
<1> SUFFICES ASSUME NEW q \in reqs PROVE q \in ran
  OBVIOUS
<1>1. q.gen \in 1 .. gen /\ q.entry \in AllEntries \ {"skip"} /\ q.key \in Keys /\ gen \in Nat
  BY DEF TypeReqs, Req, TypeFlush
<1>2. CASE q.gen = gen
  <2>1. q = Request(q.key)
    BY <1>2 DEF RequestsKnown
  <2>2. flushing[q.key] = q.entry
    BY <2>1 DEF Request
  <2>3. q.key \in Mutations
    BY <1>1, <2>2 DEF Mutations, AllEntries
  <2> QED
    BY <2>1, <2>3 DEF BatchKnown
<1>3. CASE q.gen < gen
  BY <1>3 DEF RequestsKnown
<1> QED
  BY <1>1, <1>2, <1>3

(* A key that was locked is locked with the entry that was flushed. *)
LEMMA LockedEntry ==
    ASSUME Parts, errCh = "ok", flushing # Nil, NEW k \in Keys, rec[k] = "none",
           flushing[k] \in AllEntries \ {"cne", "skip"}
    PROVE  lock[k].entry = flushing[k]
<1> USE DEF Parts, Types
<1>1. k \in Mutations
  BY DEF Mutations, AllEntries
<1>2. Request(k) \in ran /\ Request(k).gen = gen /\ Request(k).key = k /\ Request(k).entry = flushing[k]
  BY <1>1 DEF BatchKnown, Request
<1>3. lock[k].gen >= gen /\ gen > 0 /\ gen \in Nat
  BY <1>2 DEF LocksKnown, Phases, TypeFlush
<1>4. lock[k] # NoLock
  BY <1>3 DEF NoLock
<1>5. PICK q \in ran : 
        q = [key |-> k, gen |-> lock[k].gen, entry |-> lock[k].entry, primary |-> lock[k].primary]
  BY <1>4 DEF LocksKnown
<1>6. q.gen \in 1 .. gen /\ q.gen = lock[k].gen /\ q.key = k /\ q.entry = lock[k].entry
  BY <1>5 DEF TypeReqs
<1>7. q = Request(k)
  BY <1>2, <1>3, <1>6 DEF RequestsKnown, TypeReqs
<1> QED
  BY <1>2, <1>6, <1>7

(* What is below the memdb is in the store: the application's last write, *)
(* and nothing below a key that was inserted.                              *)
LEMMA Landed ==
    ASSUME Parts, Intact, flushing = Nil \/ errCh = "ok", NEW k \in Keys, rec[k] = "none"
    PROVE  /\ mem[k] = "none" => Matches(Value[lock[k].entry], own[k])
           /\ mem[k] \in {"cne", "skip"} => Absent(lock[k].entry)
<1> USE DEF Parts, Types
<1>1. Agrees(k, mem[k], own[k])
  BY DEF WritesKnown
<1>2. CASE ~Below(k)
  BY <1>1, <1>2 DEF Agrees, Fresh
<1>3. CASE Below(k) /\ flushing[k] \in {"cne", "skip"}
  BY <1>1, <1>3 DEF Agrees, WritesKnown, Absent, Matches, Value
<1>4. CASE Below(k) /\ flushing[k] \notin {"cne", "skip"}
  <2>1. flushing # Nil /\ flushing[k] \in AllEntries \ {"cne", "skip"}
    BY <1>4 DEF Below, TypeFlush, Entry
  <2>2. lock[k].entry = flushing[k]
    BY <2>1, LockedEntry
  <2> QED
    BY <1>1, <1>4, <2>2 DEF Agrees, Fresh, Matches
<1> QED
  BY <1>2, <1>3, <1>4

-----------------------------------------------------------------------------
(* The range task.                                                         *)

(* Locks are within the bounds. *)
LEMMA LockInBounds ==
    ASSUME Parts, NEW k \in Keys, lock[k] # NoLock
    PROVE  lo <= k /\ k <= hi
BY DEF Parts, Types, LocksKnown, RequestsKnown, TypeReqs

(* A range l .. h - 1 that is cut at some keys: every key is in a part. *)
CutAt(l, h, cuts) == {<<s, Min({b \in cuts \cup {h} : b > s})>> : s \in cuts \cup {l}}
Covers(tasks, l, h) ==
    /\ tasks \subseteq Keys \X Keys
    /\ \A t \in tasks : t[1] < t[2] /\ t[2] <= h
    /\ \A k \in Keys : l <= k /\ k < h => \E t \in tasks : t[1] <= k /\ k < t[2]
    /\ \E t \in tasks : t[2] = h

LEMMA CutsCover ==
    ASSUME NEW l \in Keys, NEW h \in Keys, l < h, NEW cuts \in SUBSET Keys, \A b \in cuts : l < b /\ b < h,
           NEW tasks, tasks = CutAt(l, h, cuts)
    PROVE  Covers(tasks, l, h)
<1> DEFINE S(s) == {b \in cuts \cup {h} : b > s}
<1>0. NKeys \in Nat /\ \A k \in Keys : k \in Nat /\ k <= NKeys
  BY ConstantsAssumption DEF Keys
<1>1. ASSUME NEW s \in cuts \cup {l}
      PROVE  Min(S(s)) \in cuts \cup {h} /\ s < Min(S(s))
  <2>1. S(s) \in SUBSET Nat /\ h \in S(s)
    BY <1>0, <1>1
  <2>2. Min(S(s)) \in S(s)
    <3> HIDE DEF S
    <3> QED
      BY <2>1, MinFacts
  <2> QED
    BY <2>2
<1>2. ASSUME NEW t \in tasks
      PROVE  t \in Keys \X Keys /\ t[1] \in Keys /\ t[2] \in Nat /\ t[1] < t[2] /\ t[2] <= h
  <2>1. PICK s \in cuts \cup {l} : t = <<s, Min(S(s))>>
    BY DEF CutAt
  <2>2. PICK n \in cuts \cup {h} : n = Min(S(s)) /\ s < n
    BY <1>1
  <2>3. t = <<s, n>> /\ s \in Keys /\ n \in Keys /\ s < n /\ n <= h
    BY <1>0, <2>1, <2>2
  <2> QED
    BY <1>0, <2>3
<1>3. tasks \subseteq Keys \X Keys
  BY <1>2
<1>4. ASSUME NEW k \in Keys, l <= k, k < h
      PROVE  \E t \in tasks : t[1] <= k /\ k < t[2]
  <2> DEFINE U == {b \in cuts \cup {l} : b <= k}
  <2>1. U \in SUBSET (0 .. NKeys) /\ l \in U
    BY <1>0, <1>4
  <2>2. Max(U) \in U /\ \A x \in U : x <= Max(U)
    <3> HIDE DEF U
    <3> QED
      BY <1>0, <2>1, MaxFacts
  <2>3. PICK s \in cuts \cup {l} : s <= k /\ \A b \in cuts : b <= k => b <= s
    BY <2>2
  <2>4. PICK n \in cuts \cup {h} : n = Min(S(s)) /\ s < n
    BY <1>1
  <2>5. k < n
    BY <1>0, <1>4, <2>3, <2>4
  <2>6. <<s, n>> \in tasks
    BY <2>4 DEF CutAt
  <2> QED
    BY <2>3, <2>5, <2>6
<1>5. \E t \in tasks : t[2] = h
  <2>1. PICK m \in Keys : m = h - 1 /\ l <= m /\ m < h
    BY <1>0 DEF Keys
  <2>2. PICK t \in tasks : m < t[2]
    BY <1>4, <2>1
  <2>3. t[2] \in Nat /\ t[2] <= h
    BY <1>2
  <2> QED
    BY <1>0, <2>1, <2>2, <2>3
<1> QED
  BY <1>2, <1>3, <1>4, <1>5 DEF Covers

(* Its first tasks cover the range. *)
LEMMA TaskStarts ==
    ASSUME Parts, NEW commit \in BOOLEAN, resolveFlushedLocks(commit), UNCHANGED <<lock, lo, hi>>
    PROVE  TypeTask' /\ TasksCover' /\ res'.pc # "idle" /\ res'.commit = commit
<1> USE DEF Parts, Types
<1>0. NKeys \in Nat /\ lo \in 0 .. NKeys /\ hi \in 0 .. NKeys /\ lo <= hi /\ (lo = 0 <=> hi = 0)
  BY ConstantsAssumption DEF TypeTxn, RequestsKnown, Keys
<1>1. PICK bounds \in SUBSET (2 .. NKeys) :
        res' = [pc |-> IF lo < hi THEN "run" ELSE "done", commit |-> commit,
                bounds |-> bounds, late |-> {},
                tasks |-> IF lo < hi THEN {<<s, Min({b \in {c \in bounds : lo < c /\ c < hi} \cup {hi} : b > s})>> :
                                              s \in {c \in bounds : lo < c /\ c < hi} \cup {lo}}
                          ELSE {}]
  BY DEF resolveFlushedLocks
<1>2. CASE ~(lo < hi)
  <2>1. res' = [pc |-> "done", commit |-> commit, bounds |-> bounds, late |-> {}, tasks |-> {}]
    BY <1>1, <1>2
  <2>2. \A k \in Keys : lock[k] # NoLock => k = hi /\ lo = hi
    BY <1>0, <1>2, LockInBounds DEF Keys
  <2> QED
    BY <2>1, <2>2 DEF TypeTask, TasksCover, OutsideRange
<1>3. CASE lo < hi
  <2>1. PICK l \in Keys : l = lo
    BY <1>0, <1>3 DEF Keys
  <2>2. PICK h \in Keys : h = hi
    BY <1>0, <1>3 DEF Keys
  <2>3. PICK cuts : cuts = {c \in bounds : l < c /\ c < h}
    OBVIOUS
  <2>4. cuts \in SUBSET Keys /\ \A b \in cuts : l < b /\ b < h
    <3>1. \A b \in bounds : b \in Keys
      BY <1>0 DEF Keys
    <3> QED
      BY <2>3, <3>1
  <2>5. PICK tasks : tasks = CutAt(l, h, cuts)
    OBVIOUS
  <2>6. res' = [pc |-> "run", commit |-> commit, bounds |-> bounds, late |-> {}, tasks |-> tasks]
    BY <1>1, <1>3, <2>1, <2>2, <2>3, <2>5 DEF CutAt
  <2>7. Covers(tasks, l, h)
    BY <1>3, <2>1, <2>2, <2>4, <2>5, CutsCover
  <2>8. \A k \in Keys : lock[k] # NoLock => \E t \in tasks : (t[1] <= k /\ k < t[2]) \/ (k = hi /\ t[2] = hi)
    <3> SUFFICES ASSUME NEW k \in Keys, lock[k] # NoLock
                 PROVE  \E t \in tasks : (t[1] <= k /\ k < t[2]) \/ (k = hi /\ t[2] = hi)
      OBVIOUS
    <3>1. lo <= k /\ k <= hi
      BY LockInBounds
    <3>2. k = hi \/ k < hi
      BY <1>0, <3>1 DEF Keys
    <3> QED
      BY <2>1, <2>2, <2>7, <3>1, <3>2 DEF Covers
  <2> QED
    BY <2>2, <2>6, <2>7, <2>8 DEF Covers, TypeTask, TasksCover, InTasks
<1> QED
  BY <1>2, <1>3

(* The end of a transaction that is not committed. *)
LEMMA AbortTask ==
    ASSUME Parts, NEW result, Abort(result), UNCHANGED <<lock, lo, hi>>, res.pc = "idle"
    PROVE  TypeTask' /\ TasksCover' /\ (res' = res \/ (res'.pc # "idle" /\ res'.commit = FALSE))
<1>1. CASE lo = 0
  BY <1>1, KeepTask, KeepTasks DEF Abort, Parts, Types
<1>2. CASE lo # 0
  BY <1>2, TaskStarts DEF Abort
<1> QED
  BY <1>1, <1>2

-----------------------------------------------------------------------------
(* Steps of the stores that decide keys.                                   *)

Settles ==
    \A k \in Keys : \/ lock'[k] = lock[k] /\ rec'[k] = rec[k]
                    \/ lock'[k] = NoLock /\ rec[k] = "none" /\ rec'[k] # "none"

(* What can be committed is what the application wrote last. *)
LEMMA CommitReady ==
    ASSUME Parts, creq, ~Doomed, NEW k \in Keys, rec[k] = "none"
    PROVE  Matches(Value[lock[k].entry], own[k])
<1>1. Intact /\ flushing = Nil /\ mem = EmptyDB
  BY DEF Parts, Phases, Decided, Intact, Stopped
<1> QED
  BY <1>1, Landed, Empties

LEMMA SettleLocks ==
    ASSUME Parts, Settles, UNCHANGED ran, TypeStore'
    PROVE  LocksKnown'
BY DEF Parts, Types, Settles, LocksKnown, NoLock, TypeReqs, Req

LEMMA SettleDecided ==
    ASSUME Parts, Settles, UNCHANGED <<app, primary, creq>>, res'.commit = res.commit,
           res'.pc # "idle" => res.pc # "idle",
           \A k \in Keys : rec'[k] # rec[k] => \/ rec'[k] = "rollback" /\ Doomed'
                                               \/ rec'[k] # "rollback" /\ creq /\ Committed'
    PROVE  Decided'
<1> USE DEF Parts, Types
<1>1. Doomed => Doomed'
  BY DEF Doomed, Settles, TypeTxn
<1>2. Committed => Committed'
  BY DEF Committed, Settles, TypeTxn
<1>3. Committed' => creq
  BY DEF Committed, Settles, TypeTxn, Decided
<1>4. \A k \in Keys : /\ rec'[k] = "rollback" => Doomed'
                      /\ rec'[k] \notin {"none", "rollback"} => Committed'
  BY <1>1, <1>2 DEF Decided
<1> QED
  BY <1>1, <1>2, <1>3, <1>4 DEF Decided

LEMMA SettleWrites ==
    ASSUME Parts, Settles, UNCHANGED <<mem, own, stage, flushing, app, cache>>,
           \A k \in Keys : rec'[k] # rec[k] => \/ rec'[k] = "rollback"
                                               \/ rec'[k] = lock[k].entry /\ creq /\ ~Doomed
    PROVE  WritesKnown'
<1> USE DEF Parts, Types
<1>1. (\A j \in Keys : rec'[j] # "rollback") => \A j \in Keys : rec[j] # "rollback"
  BY DEF Settles
<1>2. \A k \in Keys : rec'[k] = "none" => rec[k] = "none" /\ lock'[k] = lock[k]
  BY DEF Settles
<1>3. \A k \in Keys : Agrees(k, mem[k], own[k])'
  BY <1>1, <1>2 DEF WritesKnown, Agrees, Below, Intact, Matches, Absent
<1>4. stage # Nil => \A k \in Keys : Agrees(k, stage[1][k], stage[2][k])'
  BY <1>1, <1>2 DEF WritesKnown, Agrees, Below, Intact, Matches, Absent
<1>5. ASSUME NEW k \in Keys, rec'[k] \notin {"none", "rollback"}
      PROVE  Matches(Value[rec'[k]], own[k])
  <2>1. CASE rec'[k] = rec[k]
    BY <1>5, <2>1 DEF WritesKnown
  <2>2. CASE rec'[k] # rec[k]
    <3>1. rec[k] = "none" /\ rec'[k] = lock[k].entry /\ creq /\ ~Doomed
      BY <1>5, <2>2 DEF Settles
    <3>2. Matches(Value[lock[k].entry], own[k])
      BY <3>1, CommitReady
    <3> QED
      BY <3>1, <3>2
  <2> QED
    BY <2>1, <2>2
<1> QED
  BY <1>2, <1>3, <1>4, <1>5 DEF WritesKnown, Below, Intact, Absent, Matches

(* What a lock on a key tells of it. *)
LEMMA LockFacts ==
    ASSUME Parts, NEW k \in Keys, lock[k] # NoLock
    PROVE  /\ rec[k] = "none" /\ primary \in Keys /\ lock[k].primary = primary
           /\ lock[k].entry \in AllEntries
<1>1. PICK q \in ran : 
        q = [key |-> k, gen |-> lock[k].gen, entry |-> lock[k].entry, primary |-> lock[k].primary]
  BY DEF Parts, LocksKnown
<1>2. q.primary = lock[k].primary /\ q.entry = lock[k].entry
  BY <1>1
<1>3. q \in reqs /\ q \in Req
  BY DEF Parts, Types, TypeReqs
<1>4. q.primary = primary /\ q.primary \in Keys /\ q.entry \in AllEntries
  BY <1>3 DEF Parts, RequestsKnown, Req
<1> QED
  BY <1>2, <1>4 DEF Parts, LocksKnown

(* ResolveLock decides keys that are locked, all the same way. *)
LEMMA ResolveSettles ==
    ASSUME Parts, NEW ks, NEW commit \in BOOLEAN, ResolveLocks(ks, commit)
    PROVE  /\ Settles /\ TypeStore'
           /\ \A k \in Keys : rec'[k] # rec[k] =>
                 /\ k \in ks /\ lock[k] # NoLock
                 /\ commit => rec'[k] = lock[k].entry /\ rec'[k] \notin {"none", "rollback"}
                 /\ ~commit => rec'[k] = "rollback"
           /\ \A k \in Keys : lock'[k] # NoLock => lock[k] # NoLock /\ k \notin ks
<1> USE DEF Parts, Types
<1>1. \A k \in Keys : lock[k] # NoLock => rec[k] = "none" /\ lock[k].entry \in AllEntries
  BY LockFacts
<1>2. NoLock \in Lock
  BY DEF NoLock, Lock, Entry, AllEntries
<1>3. \A k \in Keys : rec'[k] = IF k \in ks /\ lock[k] # NoLock THEN Settled(k, commit) ELSE rec[k]
  BY DEF ResolveLocks
<1>4. \A k \in Keys : lock'[k] = IF k \in ks THEN NoLock ELSE lock[k]
  BY DEF ResolveLocks
<1>5. \A k \in Keys : lock[k] # NoLock =>
          /\ Settled(k, commit) \in Entry \cup {"rollback"} /\ Settled(k, commit) # "none"
          /\ commit => Settled(k, commit) = lock[k].entry /\ Settled(k, commit) # "rollback"
          /\ ~commit => Settled(k, commit) = "rollback"
  BY <1>1 DEF Settled, Entry, AllEntries
<1>6. Settles
  BY <1>1, <1>3, <1>4, <1>5 DEF Settles
<1>7. TypeStore'
  BY <1>2, <1>5 DEF TypeStore, ResolveLocks
<1> QED
  BY <1>3, <1>4, <1>5, <1>6, <1>7

LEMMA SettleTasks ==
    ASSUME TasksCover, Settles, UNCHANGED <<res, lo, hi>>
    PROVE  TasksCover'
BY DEF TasksCover, Settles, OutsideRange, InTasks

(* The bounds grow to hold what is being flushed. *)
LEMMA BoundsGrow ==
    ASSUME Parts, updateBounds, flushing # EmptyDB, flushing # Nil
    PROVE  /\ lo' \in Keys /\ hi' \in Keys /\ lo' <= hi'
           /\ lo # 0 => lo' <= lo
           /\ hi <= hi'
           /\ \A k \in Keys : flushing[k] # "none" => lo' <= k /\ k <= hi'
<1> USE DEF Parts, Types
<1>0. /\ NKeys \in Nat /\ lo \in 0 .. NKeys /\ hi \in 0 .. NKeys /\ lo <= hi /\ (lo = 0 <=> hi = 0)
      /\ \A k \in Keys : k \in Nat /\ k \in 0 .. NKeys /\ k # 0
  BY ConstantsAssumption DEF TypeTxn, RequestsKnown, Keys
<1> DEFINE ks == {k \in Keys : flushing[k] # "none"}
           L == IF lo = 0 THEN ks ELSE ks \cup {lo}
           H == ks \cup {hi}
<1>1. PICK k0 \in Keys : flushing[k0] # "none"
  BY DEF TypeFlush, EmptyDB
<1>2. L \in SUBSET Nat /\ L # {} /\ H \in SUBSET (0 .. NKeys) /\ H # {}
  BY <1>0, <1>1
<1>3. lo' = Min(L) /\ hi' = Max(H)
  BY DEF updateBounds
<1>4. (Min(L) \in L /\ \A x \in L : Min(L) <= x) /\ (Max(H) \in H /\ \A x \in H : x <= Max(H))
  <2> HIDE DEF L, H
  <2> QED
    BY <1>0, <1>2, MinFacts, MaxFacts
<1>5. k0 \in L /\ k0 \in H /\ L \subseteq Keys /\ H \subseteq Keys \cup {0}
  BY <1>0, <1>1 DEF Keys
<1>6. PICK a \in Keys : a = lo' /\ \A x \in L : a <= x
  BY <1>3, <1>4, <1>5
<1>7. PICK z \in Keys \cup {0} : z = hi' /\ \A x \in H : x <= z
  BY <1>3, <1>4, <1>5
<1>8. a <= k0 /\ k0 <= z
  BY <1>5, <1>6, <1>7
<1>9. z \in Keys /\ a <= z
  BY <1>0, <1>7, <1>8 DEF Keys
<1>10. \A k \in Keys : flushing[k] # "none" => a <= k /\ k <= z
  BY <1>6, <1>7
<1>11. (lo # 0 => a <= lo) /\ hi <= z
  BY <1>6, <1>7
<1> QED
  BY <1>6, <1>7, <1>9, <1>10, <1>11

LEMMA SetStep ==
    ASSUME Parts, NEW k \in Keys, NEW e \in Entries, Set(k, e)
    PROVE  Parts'
<1> USE DEF Parts, Types
<1>1. /\ TypeFlush' /\ TypeTxn' /\ TypeApp' /\ TypeReqs' /\ TypeStore' /\ TypeTask'
      /\ FlushHandshake' /\ RequestsKnown' /\ BatchKnown' /\ LocksKnown' /\ Decided' /\ TasksCover'
  BY KeepFlush, KeepTxn, KeepReqs, KeepStore, KeepTask, KeepHandshake, KeepRequests, KeepBatch,
     KeepLocks, KeepDecided, KeepTasks DEF Set, Writable, memVars, flushVars, txnVars, storeVars, TypeApp
<1>2. TypeMem'
  BY Empties, ConstantsAssumption DEF TypeMem, Set
<1>3. Phases'
  BY ConstantsAssumption
  DEF Phases, TypeMem, TypeFlush, TypeTxn, TypeApp, TypeReqs, TypeStore, TypeTask, Stopped, NoFlush,
      EmptyDB, NoCache, Set, Writable, memVars, flushVars, txnVars, storeVars
<1>4. WritesKnown'
  <2>1. \A j \in Keys : Agrees(j, mem[j], own[j])'
    <3> SUFFICES ASSUME NEW j \in Keys PROVE Agrees(j, mem[j], own[j])'
      OBVIOUS
    <3>1. CASE j # k
      BY <3>1 DEF WritesKnown, Set, TypeMem, flushVars, storeVars, Agrees, Below, Intact, Matches, Absent
    <3>2. CASE j = k
      <4>1. mem'[k] = e /\ own'[k] = e /\ e \in AllEntries
        BY ConstantsAssumption DEF Set, TypeMem
      <4>2. Agrees(k, mem[k], own[k]) /\ Writable(k, e) /\ UNCHANGED <<flushing, lock, rec, app, cache>>
        BY DEF WritesKnown, Set, flushVars, storeVars
      <4> QED
        BY <3>2, <4>1, <4>2 DEF Writable, Fresh, AllEntries, Agrees, Below, Intact, Matches, Absent
    <3> QED
      BY <3>1, <3>2
  <2>2. \A j \in Keys : rec[j] \in {"none", "rollback"}
    BY DEF Set, Decided, Phases
  <2>3. \A j \in Keys : mem'[j] = "none" => mem[j] = "none" /\ own'[j] = own[j]
    BY ConstantsAssumption DEF Set, TypeMem, AllEntries
  <2> QED
    BY <2>1, <2>2, <2>3 DEF WritesKnown, Set, flushVars, storeVars, Agrees, Below, Intact, Matches, Absent
<1> QED
  BY <1>1, <1>2, <1>3, <1>4

LEMMA StagingStep ==
    ASSUME Parts, Staging
    PROVE  Parts'
<1> USE DEF Parts, Types
<1>1. /\ TypeFlush' /\ TypeTxn' /\ TypeApp' /\ TypeReqs' /\ TypeStore' /\ TypeTask'
      /\ FlushHandshake' /\ RequestsKnown' /\ BatchKnown' /\ LocksKnown' /\ Decided' /\ TasksCover'
  BY KeepFlush, KeepTxn, KeepReqs, KeepStore, KeepTask, KeepHandshake, KeepRequests, KeepBatch,
     KeepLocks, KeepDecided, KeepTasks DEF Staging, memVars, flushVars, txnVars, storeVars, TypeApp
<1>2. TypeMem'
  BY ConstantsAssumption
  DEF TypeMem, TypeFlush, TypeTxn, TypeApp, TypeReqs, TypeStore, TypeTask, Staging, memVars, flushVars,
      txnVars, storeVars
<1>3. Phases'
  BY ConstantsAssumption
  DEF Phases, TypeMem, TypeFlush, TypeTxn, TypeApp, TypeReqs, TypeStore, TypeTask, Stopped, NoFlush,
      EmptyDB, NoCache, Staging, memVars, flushVars, txnVars, storeVars
<1>4. WritesKnown'
  BY ConstantsAssumption
  DEF WritesKnown, TypeMem, TypeFlush, TypeTxn, TypeApp, TypeReqs, TypeStore, TypeTask, Agrees, Below,
      Intact, Matches, Absent, Fresh, Staging, memVars, flushVars, txnVars, storeVars
<1> QED
  BY <1>1, <1>2, <1>3, <1>4

LEMMA ReleaseStep ==
    ASSUME Parts, Release
    PROVE  Parts'
<1> USE DEF Parts, Types
<1>1. /\ TypeFlush' /\ TypeTxn' /\ TypeApp' /\ TypeReqs' /\ TypeStore' /\ TypeTask'
      /\ FlushHandshake' /\ RequestsKnown' /\ BatchKnown' /\ LocksKnown' /\ Decided' /\ TasksCover'
  BY KeepFlush, KeepTxn, KeepReqs, KeepStore, KeepTask, KeepHandshake, KeepRequests, KeepBatch,
     KeepLocks, KeepDecided, KeepTasks DEF Release, memVars, flushVars, txnVars, storeVars, TypeApp
<1>2. TypeMem'
  BY ConstantsAssumption
  DEF TypeMem, TypeFlush, TypeTxn, TypeApp, TypeReqs, TypeStore, TypeTask, Release, memVars, flushVars,
      txnVars, storeVars
<1>3. Phases'
  BY ConstantsAssumption
  DEF Phases, TypeMem, TypeFlush, TypeTxn, TypeApp, TypeReqs, TypeStore, TypeTask, Stopped, NoFlush,
      EmptyDB, NoCache, Release, memVars, flushVars, txnVars, storeVars
<1>4. WritesKnown'
  BY ConstantsAssumption
  DEF WritesKnown, TypeMem, TypeFlush, TypeTxn, TypeApp, TypeReqs, TypeStore, TypeTask, Agrees, Below,
      Intact, Matches, Absent, Fresh, Release, memVars, flushVars, txnVars, storeVars
<1> QED
  BY <1>1, <1>2, <1>3, <1>4

LEMMA CleanupStep ==
    ASSUME Parts, Cleanup
    PROVE  Parts'
<1> USE DEF Parts, Types
<1>1. /\ TypeFlush' /\ TypeTxn' /\ TypeApp' /\ TypeReqs' /\ TypeStore' /\ TypeTask'
      /\ FlushHandshake' /\ RequestsKnown' /\ BatchKnown' /\ LocksKnown' /\ Decided' /\ TasksCover'
  BY KeepFlush, KeepTxn, KeepReqs, KeepStore, KeepTask, KeepHandshake, KeepRequests, KeepBatch,
     KeepLocks, KeepDecided, KeepTasks DEF Cleanup, memVars, flushVars, txnVars, storeVars, TypeApp
<1>2. TypeMem'
  BY ConstantsAssumption
  DEF TypeMem, TypeFlush, TypeTxn, TypeApp, TypeReqs, TypeStore, TypeTask, Cleanup, memVars, flushVars,
      txnVars, storeVars
<1>3. Phases'
  BY ConstantsAssumption
  DEF Phases, TypeMem, TypeFlush, TypeTxn, TypeApp, TypeReqs, TypeStore, TypeTask, Stopped, NoFlush,
      EmptyDB, NoCache, Cleanup, memVars, flushVars, txnVars, storeVars
<1>4. WritesKnown'
  <2>1. \A j \in Keys : rec[j] \in {"none", "rollback"}
    BY DEF Cleanup, Decided, Phases
  <2>2. \A j \in Keys : Agrees(j, mem[j], own[j])'
    BY DEF WritesKnown, Cleanup, flushVars, storeVars, Agrees, Below, Intact, Matches, Absent
  <2> QED
    BY <2>1, <2>2 DEF WritesKnown, Cleanup, flushVars, storeVars, Below, Intact, Absent
<1> QED
  BY <1>1, <1>2, <1>3, <1>4

LEMMA BatchGetStep ==
    ASSUME Parts, Ordinarily, NEW ks \in (SUBSET Prefetch) \ {{}}, NEW ok \in BOOLEAN, BatchGet(ks, ok)
    PROVE  Parts'
<1> USE DEF Parts, Types
<1>1. /\ TypeFlush' /\ TypeTxn' /\ TypeApp' /\ TypeReqs' /\ TypeStore' /\ TypeTask'
      /\ FlushHandshake' /\ RequestsKnown' /\ BatchKnown' /\ LocksKnown' /\ Decided' /\ TasksCover'
  BY KeepFlush, KeepTxn, KeepReqs, KeepStore, KeepTask, KeepHandshake, KeepRequests, KeepBatch,
     KeepLocks, KeepDecided, KeepTasks DEF BatchGet, memVars, flushVars, txnVars, storeVars, TypeApp
<1>2. TypeMem'
  BY Empties DEF TypeMem, BatchGet, GetLocal, bufferBatchGetter, TypeFlush, TypeStore, Lock
<1>3. Phases'
  BY ConstantsAssumption
  DEF Phases, TypeMem, TypeFlush, TypeTxn, TypeApp, TypeReqs, TypeStore, TypeTask, Stopped, NoFlush,
      EmptyDB, NoCache, BatchGet, memVars, flushVars, txnVars, storeVars
<1>4. WritesKnown'
  <2>0. UNCHANGED <<mem, stage, own, flushing, lock, rec, app>> /\ app = "open" /\ ks \subseteq Keys
    BY ConstantsAssumption DEF BatchGet, flushVars, storeVars
  <2>1. ASSUME NEW j \in Keys, j \in ks, \A i \in Keys : rec[i] # "rollback", ~Below(j), mem[j] = "none",
               cache'[j] # "unknown"
        PROVE  Matches(cache'[j], own[j])
    <3>1. GetLocal(j) = "none"
      BY <2>1 DEF GetLocal, Below, Value
    <3>2. cache'[j] \in {cache[j], Value[lock[j].entry]}
      BY <2>1, <3>1 DEF BatchGet, bufferBatchGetter
    <3>3. rec[j] = "none" /\ Intact
      BY <2>0, <2>1 DEF Decided, Phases, Intact
    <3> QED
      BY <2>0, <2>1, <3>2, <3>3 DEF WritesKnown, Agrees
  <2>2. \A j \in Keys \ ks : cache'[j] = cache[j]
    BY DEF BatchGet
  <2>3. \A j \in Keys : Agrees(j, mem[j], own[j])'
    BY <2>0, <2>1, <2>2 DEF WritesKnown, Agrees, Below, Intact, Matches, Absent
  <2>4. ASSUME stage # Nil, NEW j \in Keys
        PROVE  Agrees(j, stage[1][j], stage[2][j])'
    <3>1. j \in ks => mem[j] = stage[1][j]
      BY <2>4 DEF BatchGet, Ordinarily
    <3>2. mem[j] = "none" => own[j] = stage[2][j]
      BY <2>4 DEF WritesKnown
    <3> QED
      BY <2>0, <2>1, <2>2, <2>4, <3>1, <3>2 DEF WritesKnown, Agrees, Below, Intact, Matches, Absent
  <2> QED
    BY <2>0, <2>3, <2>4 DEF WritesKnown, Below, Intact, Matches, Absent
<1> QED
  BY <1>1, <1>2, <1>3, <1>4

LEMMA FlushNothingStep ==
    ASSUME Parts, FlushNothing
    PROVE  Parts'
<1> USE DEF Parts, Types
<1>1. /\ TypeFlush' /\ TypeTxn' /\ TypeApp' /\ TypeReqs' /\ TypeStore' /\ TypeTask'
      /\ FlushHandshake' /\ RequestsKnown' /\ BatchKnown' /\ LocksKnown' /\ Decided' /\ TasksCover'
  BY KeepFlush, KeepTxn, KeepReqs, KeepStore, KeepTask, KeepHandshake, KeepRequests, KeepBatch,
     KeepLocks, KeepDecided, KeepTasks DEF FlushNothing, memVars, flushVars, txnVars, storeVars, TypeApp
<1>2. TypeMem'
  BY Empties DEF TypeMem, FlushNothing, memVars
<1>3. Phases'
  BY ConstantsAssumption
  DEF Phases, TypeMem, TypeFlush, TypeTxn, TypeApp, TypeReqs, TypeStore, TypeTask, Stopped, NoFlush,
      EmptyDB, NoCache, FlushNothing, memVars, flushVars, txnVars, storeVars
<1>4. WritesKnown'
  BY Empties DEF WritesKnown, FlushNothing, flushVars, storeVars, Agrees, Below, Intact, Matches, Absent
<1> QED
  BY <1>1, <1>2, <1>3, <1>4

LEMMA CallFlushStep ==
    ASSUME Parts, CallFlush
    PROVE  Parts'
<1> USE DEF Parts, Types
<1>1. /\ TypeFlush' /\ TypeTxn' /\ TypeReqs' /\ TypeStore' /\ TypeTask'
      /\ FlushHandshake' /\ BatchKnown' /\ LocksKnown' /\ TasksCover'
  BY KeepFlush, KeepTxn, KeepReqs, KeepStore, KeepTask, KeepHandshake, KeepBatch, KeepLocks, KeepTasks
  DEF CallFlush, memVars, flushVars, txnVars, storeVars
<1>2. TypeMem'
  BY Empties DEF TypeMem, CallFlush, memVars
<1>3. TypeApp'
  BY ConstantsAssumption
  DEF TypeApp, TypeMem, TypeFlush, TypeTxn, TypeReqs, TypeStore, TypeTask, Waiting, CallFlush, memVars,
      flushVars, txnVars, storeVars
<1>4. Phases'
  BY ConstantsAssumption
  DEF Phases, TypeMem, TypeFlush, TypeTxn, TypeApp, TypeReqs, TypeStore, TypeTask, Stopped, NoFlush,
      EmptyDB, NoCache, CallFlush, memVars, flushVars, txnVars, storeVars
<1>5. RequestsKnown'
  BY ConstantsAssumption
  DEF RequestsKnown, TypeMem, TypeFlush, TypeTxn, TypeApp, TypeReqs, TypeStore, TypeTask, Request,
      Intact, CallFlush, memVars, flushVars, txnVars, storeVars
<1>6. Decided'
  BY ConstantsAssumption
  DEF Decided, TypeMem, TypeFlush, TypeTxn, TypeApp, TypeReqs, TypeStore, TypeTask, Doomed, Committed,
      CallFlush, memVars, flushVars, txnVars, storeVars
<1>7. WritesKnown'
  BY ConstantsAssumption
  DEF WritesKnown, TypeMem, TypeFlush, TypeTxn, TypeApp, TypeReqs, TypeStore, TypeTask, Agrees, Below,
      Intact, Matches, Absent, Fresh, CallFlush, memVars, flushVars, txnVars, storeVars
<1> QED
  BY <1>1, <1>2, <1>3, <1>4, <1>5, <1>6, <1>7

LEMMA CommitStep ==
    ASSUME Parts, Commit
    PROVE  Parts'
<1> USE DEF Parts, Types
<1>1. /\ TypeFlush' /\ TypeTxn' /\ TypeReqs' /\ TypeStore' /\ TypeTask'
      /\ FlushHandshake' /\ BatchKnown' /\ LocksKnown' /\ TasksCover'
  BY KeepFlush, KeepTxn, KeepReqs, KeepStore, KeepTask, KeepHandshake, KeepBatch, KeepLocks, KeepTasks
  DEF Commit, memVars, flushVars, txnVars, storeVars
<1>2. TypeMem'
  BY Empties DEF TypeMem, Commit, memVars
<1>3. TypeApp'
  BY ConstantsAssumption
  DEF TypeApp, TypeMem, TypeFlush, TypeTxn, TypeReqs, TypeStore, TypeTask, Waiting, Commit, memVars,
      flushVars, txnVars, storeVars
<1>4. Phases'
  BY ConstantsAssumption
  DEF Phases, TypeMem, TypeFlush, TypeTxn, TypeApp, TypeReqs, TypeStore, TypeTask, Stopped, NoFlush,
      EmptyDB, NoCache, Commit, memVars, flushVars, txnVars, storeVars
<1>5. RequestsKnown'
  BY ConstantsAssumption
  DEF RequestsKnown, TypeMem, TypeFlush, TypeTxn, TypeApp, TypeReqs, TypeStore, TypeTask, Request,
      Intact, Commit, memVars, flushVars, txnVars, storeVars
<1>6. Decided'
  BY ConstantsAssumption
  DEF Decided, TypeMem, TypeFlush, TypeTxn, TypeApp, TypeReqs, TypeStore, TypeTask, Doomed, Committed,
      Commit, memVars, flushVars, txnVars, storeVars
<1>7. WritesKnown'
  BY ConstantsAssumption
  DEF WritesKnown, TypeMem, TypeFlush, TypeTxn, TypeApp, TypeReqs, TypeStore, TypeTask, Agrees, Below,
      Intact, Matches, Absent, Fresh, Commit, memVars, flushVars, txnVars, storeVars
<1> QED
  BY <1>1, <1>2, <1>3, <1>4, <1>5, <1>6, <1>7

LEMMA CallRollbackStep ==
    ASSUME Parts, CallRollback
    PROVE  Parts'
<1> USE DEF Parts, Types
<1>1. /\ TypeMem' /\ TypeFlush' /\ TypeTxn' /\ TypeReqs' /\ TypeStore'
      /\ TypeTask' /\ FlushHandshake' /\ BatchKnown' /\ LocksKnown' /\ TasksCover'
  BY KeepMem, KeepFlush, KeepTxn, KeepReqs, KeepStore, KeepTask, KeepHandshake, KeepBatch, KeepLocks,
     KeepTasks DEF CallRollback, memVars, flushVars, txnVars, storeVars
<1>2. TypeApp'
  BY ConstantsAssumption
  DEF TypeApp, TypeMem, TypeFlush, TypeTxn, TypeReqs, TypeStore, TypeTask, Waiting, CallRollback,
      memVars, flushVars, txnVars, storeVars
<1>3. Phases'
  BY ConstantsAssumption
  DEF Phases, TypeMem, TypeFlush, TypeTxn, TypeApp, TypeReqs, TypeStore, TypeTask, Stopped, NoFlush,
      EmptyDB, NoCache, CallRollback, memVars, flushVars, txnVars, storeVars
<1>4. RequestsKnown'
  BY ConstantsAssumption
  DEF RequestsKnown, TypeMem, TypeFlush, TypeTxn, TypeApp, TypeReqs, TypeStore, TypeTask, Request,
      Intact, CallRollback, memVars, flushVars, txnVars, storeVars
<1>5. Decided'
  BY ConstantsAssumption
  DEF Decided, TypeMem, TypeFlush, TypeTxn, TypeApp, TypeReqs, TypeStore, TypeTask, Doomed, Committed,
      CallRollback, memVars, flushVars, txnVars, storeVars
<1>6. WritesKnown'
  BY ConstantsAssumption
  DEF WritesKnown, TypeMem, TypeFlush, TypeTxn, TypeApp, TypeReqs, TypeStore, TypeTask, Agrees, Below,
      Intact, Matches, Absent, Fresh, CallRollback, memVars, flushVars, txnVars, storeVars
<1> QED
  BY <1>1, <1>2, <1>3, <1>4, <1>5, <1>6

LEMMA FlushStep ==
    ASSUME Parts, Flush
    PROVE  Parts'
<1> USE DEF Parts, Types
<1>1. TypeTxn' /\ TypeStore' /\ TypeTask' /\ LocksKnown' /\ TasksCover'
  BY KeepTxn, KeepStore, KeepTask, KeepLocks, KeepTasks DEF Flush, memVars, flushVars, txnVars, storeVars
<1>2. TypeMem'
  BY Empties DEF TypeMem, Flush, memVars
<1>3. TypeFlush'
  <2>1. gen \in Nat /\ gen <= MaxGen /\ MaxGen \in Nat
    BY ConstantsAssumption DEF Phases, Flush, TypeFlush
  <2>2. fl' \in [pc : {"idle", "start", "send", "end"}, failed : BOOLEAN,
                 batch : [Keys -> {"none", "todo", "sent", "ok", "err"}]]
    BY DEF Flush, NoFlush, EmptyDB
  <2>3. gen + 1 \in 0 .. MaxGen + 1
    BY <2>1
  <2> QED
    BY <2>2, <2>3 DEF Flush, TypeFlush, TypeMem
<1>4. TypeApp'
  BY ConstantsAssumption
  DEF TypeApp, TypeMem, TypeFlush, TypeTxn, TypeReqs, TypeStore, TypeTask, Waiting, Flush, memVars,
      flushVars, txnVars, storeVars
<1>5. TypeReqs'
  BY ConstantsAssumption
  DEF TypeReqs, TypeMem, TypeFlush, TypeTxn, TypeApp, TypeStore, TypeTask, Req, Flush, memVars,
      flushVars, txnVars, storeVars
<1>6. FlushHandshake'
  <2>1. mem # Nil
    BY NotNil DEF TypeMem
  <2> QED
    BY <2>1 DEF Flush, FlushHandshake, NoFlush
<1>7. Phases'
  <2>1. gen \in Nat /\ gen <= MaxGen /\ MaxGen \in Nat
    BY ConstantsAssumption DEF Phases, Flush, TypeFlush
  <2>2. mem # Nil
    BY NotNil DEF TypeMem
  <2>3. stage = Nil /\ ~creq /\ res.pc = "idle"
    BY DEF Phases, Flush, TypeTask
  <2> QED
    BY <2>1, <2>2, <2>3 DEF Flush, Phases, Stopped, NoFlush, storeVars
<1>8. RequestsKnown'
  <2>1. gen \in Nat /\ mem # Nil /\ Intact
    BY NotNil DEF TypeFlush, TypeMem, Flush, Intact
  <2>2. reqs \subseteq ran
    BY <2>1, AllRan DEF Flush, Phases, RequestsKnown
  <2>3. \A q \in reqs : q.gen # gen + 1
    BY <2>1 DEF TypeReqs
  <2>4. gen' = gen + 1 /\ gen' # 0 /\ Intact' /\ UNCHANGED <<lo, hi, primary, reqs, ran>>
    BY <2>1 DEF Flush, Intact, txnVars, storeVars
  <2> QED
    BY <2>2, <2>3, <2>4 DEF RequestsKnown
<1>9. BatchKnown'
  BY ConstantsAssumption
  DEF BatchKnown, TypeMem, TypeFlush, TypeTxn, TypeApp, TypeReqs, TypeStore, TypeTask, Request,
      Mutations, NoFlush, Flush, memVars, flushVars, txnVars, storeVars
<1>10. Decided'
  BY ConstantsAssumption
  DEF Decided, TypeMem, TypeFlush, TypeTxn, TypeApp, TypeReqs, TypeStore, TypeTask, Doomed, Committed,
      Flush, memVars, flushVars, txnVars, storeVars
<1>11. WritesKnown'
  <2>0. /\ UNCHANGED <<stage, cache, own, rec, lock>> /\ flushing' = mem /\ mem' = EmptyDB
        /\ stage = Nil /\ Intact /\ Intact' /\ mem # Nil
    BY NotNil DEF Flush, storeVars, Phases, Intact, TypeMem
  <2>1. app' = "open" => cache = NoCache
    BY DEF Phases, Flush
  <2>2. ASSUME NEW k \in Keys, rec[k] = "none"
        PROVE  /\ mem[k] = "none" => Matches(Value[lock[k].entry], own[k])
               /\ mem[k] \in {"cne", "skip"} => Absent(lock[k].entry)
    BY <2>0, <2>2, Landed DEF Flush
  <2>3. ASSUME NEW k \in Keys PROVE Agrees(k, mem[k], own[k])'
    <3>1. mem'[k] = "none" /\ (app' = "open" => cache[k] = "unknown") /\ (mem[k] # "none" => own[k] = mem[k])
      BY <2>0, <2>1, Empties DEF WritesKnown, Agrees
    <3>2. Below(k)' <=> mem[k] # "none"
      BY <2>0 DEF Below
    <3> QED
      BY <2>0, <2>2, <3>1, <3>2 DEF Agrees, Matches, Fresh
  <2> QED
    BY <2>0, <2>2, <2>3 DEF WritesKnown, Matches, Absent, Below
<1> QED
  BY <1>1, <1>2, <1>3, <1>4, <1>5, <1>6, <1>7, <1>8, <1>9, <1>10, <1>11

LEMMA FlushRefusedStep ==
    ASSUME Parts, FlushRefused
    PROVE  Parts'
<1> USE DEF Parts, Types
<1>1. /\ TypeMem' /\ TypeTxn' /\ TypeApp' /\ TypeReqs' /\ TypeStore' /\ TypeTask'
      /\ RequestsKnown' /\ LocksKnown' /\ Decided' /\ WritesKnown' /\ TasksCover'
  BY KeepMem, KeepTxn, KeepReqs, KeepStore, KeepTask, KeepRequests, KeepLocks, KeepDecided, KeepWrites,
     KeepTasks DEF FlushRefused, memVars, flushVars, txnVars, storeVars, TypeApp
<1>2. TypeFlush'
  BY ConstantsAssumption
  DEF TypeFlush, TypeMem, TypeTxn, TypeApp, TypeReqs, TypeStore, TypeTask, NoFlush, EmptyDB, Entry,
      AllEntries, FlushRefused, memVars, flushVars, txnVars, storeVars
<1>3. FlushHandshake'
  BY ConstantsAssumption
  DEF FlushHandshake, TypeMem, TypeFlush, TypeTxn, TypeApp, TypeReqs, TypeStore, TypeTask, NoFlush,
      FlushRefused, memVars, flushVars, txnVars, storeVars
<1>4. Phases'
  BY ConstantsAssumption
  DEF Phases, TypeMem, TypeFlush, TypeTxn, TypeApp, TypeReqs, TypeStore, TypeTask, Stopped, NoFlush,
      EmptyDB, NoCache, FlushRefused, memVars, flushVars, txnVars, storeVars
<1>5. BatchKnown'
  BY ConstantsAssumption
  DEF BatchKnown, TypeMem, TypeFlush, TypeTxn, TypeApp, TypeReqs, TypeStore, TypeTask, Request,
      Mutations, NoFlush, FlushRefused, memVars, flushVars, txnVars, storeVars
<1> QED
  BY <1>1, <1>2, <1>3, <1>4, <1>5

LEMMA FlushEmptyStep ==
    ASSUME Parts, FlushEmpty
    PROVE  Parts'
<1> USE DEF Parts, Types
<1>1. /\ TypeMem' /\ TypeTxn' /\ TypeApp' /\ TypeReqs' /\ TypeStore' /\ TypeTask'
      /\ RequestsKnown' /\ LocksKnown' /\ Decided' /\ WritesKnown' /\ TasksCover'
  BY KeepMem, KeepTxn, KeepReqs, KeepStore, KeepTask, KeepRequests, KeepLocks, KeepDecided, KeepWrites,
     KeepTasks DEF FlushEmpty, memVars, flushVars, txnVars, storeVars, TypeApp
<1>2. TypeFlush'
  BY ConstantsAssumption
  DEF TypeFlush, TypeMem, TypeTxn, TypeApp, TypeReqs, TypeStore, TypeTask, NoFlush, EmptyDB, Entry,
      AllEntries, FlushEmpty, memVars, flushVars, txnVars, storeVars
<1>3. FlushHandshake'
  BY ConstantsAssumption
  DEF FlushHandshake, TypeMem, TypeFlush, TypeTxn, TypeApp, TypeReqs, TypeStore, TypeTask, NoFlush,
      FlushEmpty, memVars, flushVars, txnVars, storeVars
<1>4. Phases'
  BY ConstantsAssumption
  DEF Phases, TypeMem, TypeFlush, TypeTxn, TypeApp, TypeReqs, TypeStore, TypeTask, Stopped, NoFlush,
      EmptyDB, NoCache, FlushEmpty, memVars, flushVars, txnVars, storeVars
<1>5. BatchKnown'
  BY DEF FlushEmpty, BatchKnown, Mutations, Request, TypeFlush, TypeTxn, EmptyDB, Phases, FlushHandshake
<1> QED
  BY <1>1, <1>2, <1>3, <1>4, <1>5

LEMMA FlushFailsStep ==
    ASSUME Parts, NEW k \in Keys, FlushFails(k)
    PROVE  Parts'
<1> USE DEF Parts, Types
<1>1. /\ TypeMem' /\ TypeTxn' /\ TypeApp' /\ TypeReqs' /\ TypeStore' /\ TypeTask'
      /\ RequestsKnown' /\ LocksKnown' /\ Decided' /\ WritesKnown' /\ TasksCover'
  BY KeepMem, KeepTxn, KeepReqs, KeepStore, KeepTask, KeepRequests, KeepLocks, KeepDecided, KeepWrites,
     KeepTasks DEF FlushFails, memVars, flushVars, txnVars, storeVars, TypeApp
<1>2. TypeFlush'
  BY ConstantsAssumption
  DEF TypeFlush, TypeMem, TypeTxn, TypeApp, TypeReqs, TypeStore, TypeTask, NoFlush, EmptyDB, Entry,
      AllEntries, FlushFails, memVars, flushVars, txnVars, storeVars
<1>3. FlushHandshake'
  BY ConstantsAssumption
  DEF FlushHandshake, TypeMem, TypeFlush, TypeTxn, TypeApp, TypeReqs, TypeStore, TypeTask, NoFlush,
      FlushFails, memVars, flushVars, txnVars, storeVars
<1>4. Phases'
  BY ConstantsAssumption
  DEF Phases, TypeMem, TypeFlush, TypeTxn, TypeApp, TypeReqs, TypeStore, TypeTask, Stopped, NoFlush,
      EmptyDB, NoCache, FlushFails, memVars, flushVars, txnVars, storeVars
<1>5. BatchKnown'
  BY ConstantsAssumption
  DEF BatchKnown, TypeMem, TypeFlush, TypeTxn, TypeApp, TypeReqs, TypeStore, TypeTask, Request,
      Mutations, NoFlush, FlushFails, memVars, flushVars, txnVars, storeVars
<1> QED
  BY <1>1, <1>2, <1>3, <1>4, <1>5

LEMMA FlushFlushedStep ==
    ASSUME Parts, FlushFlushed
    PROVE  Parts'
<1> USE DEF Parts, Types
<1>1. /\ TypeMem' /\ TypeTxn' /\ TypeApp' /\ TypeReqs' /\ TypeStore' /\ TypeTask'
      /\ RequestsKnown' /\ LocksKnown' /\ Decided' /\ WritesKnown' /\ TasksCover'
  BY KeepMem, KeepTxn, KeepReqs, KeepStore, KeepTask, KeepRequests, KeepLocks, KeepDecided, KeepWrites,
     KeepTasks DEF FlushFlushed, memVars, flushVars, txnVars, storeVars, TypeApp
<1>2. TypeFlush'
  BY ConstantsAssumption
  DEF TypeFlush, TypeMem, TypeTxn, TypeApp, TypeReqs, TypeStore, TypeTask, NoFlush, EmptyDB, Entry,
      AllEntries, FlushFlushed, memVars, flushVars, txnVars, storeVars
<1>3. FlushHandshake'
  BY ConstantsAssumption
  DEF FlushHandshake, TypeMem, TypeFlush, TypeTxn, TypeApp, TypeReqs, TypeStore, TypeTask, NoFlush,
      FlushFlushed, memVars, flushVars, txnVars, storeVars
<1>4. Phases'
  BY ConstantsAssumption
  DEF Phases, TypeMem, TypeFlush, TypeTxn, TypeApp, TypeReqs, TypeStore, TypeTask, Stopped, NoFlush,
      EmptyDB, NoCache, FlushFlushed, memVars, flushVars, txnVars, storeVars
<1>5. BatchKnown'
  BY ConstantsAssumption
  DEF BatchKnown, TypeMem, TypeFlush, TypeTxn, TypeApp, TypeReqs, TypeStore, TypeTask, Request,
      Mutations, NoFlush, FlushFlushed, memVars, flushVars, txnVars, storeVars
<1> QED
  BY <1>1, <1>2, <1>3, <1>4, <1>5

LEMMA SendFlushStep ==
    ASSUME Parts, NEW k \in Keys, SendFlush(k)
    PROVE  Parts'
<1> USE DEF Parts, Types
<1>1. /\ TypeMem' /\ TypeTxn' /\ TypeApp' /\ TypeStore' /\ TypeTask'
      /\ LocksKnown' /\ Decided' /\ WritesKnown' /\ TasksCover'
  BY KeepMem, KeepTxn, KeepStore, KeepTask, KeepLocks, KeepDecided, KeepWrites, KeepTasks
  DEF SendFlush, memVars, flushVars, txnVars, storeVars, TypeApp
<1>2. TypeFlush'
  BY ConstantsAssumption
  DEF TypeFlush, TypeMem, TypeTxn, TypeApp, TypeReqs, TypeStore, TypeTask, NoFlush, EmptyDB, Entry,
      AllEntries, SendFlush, memVars, flushVars, txnVars, storeVars
<1>3. TypeReqs'
  <2>1. primary \in Keys /\ flushing # Nil
    BY DEF SendFlush, TypeTxn, FlushHandshake
  <2>2. gen \in Nat /\ gen > 0
    BY <2>1 DEF Phases, TypeFlush
  <2>3. k \in Mutations
    BY DEF SendFlush, BatchKnown
  <2>4. flushing[k] \in AllEntries \ {"skip"}
    BY <2>1, <2>3 DEF TypeFlush, Mutations, Entry
  <2>5. Request(k) \in Req /\ Request(k).gen = gen
    BY <2>1, <2>2, <2>4 DEF Request, Req
  <2> QED
    BY <2>2, <2>5 DEF SendFlush, TypeReqs
<1>4. FlushHandshake'
  BY ConstantsAssumption
  DEF FlushHandshake, TypeMem, TypeFlush, TypeTxn, TypeApp, TypeReqs, TypeStore, TypeTask, NoFlush,
      SendFlush, memVars, flushVars, txnVars, storeVars
<1>5. Phases'
  BY ConstantsAssumption
  DEF Phases, TypeMem, TypeFlush, TypeTxn, TypeApp, TypeReqs, TypeStore, TypeTask, Stopped, NoFlush,
      EmptyDB, NoCache, SendFlush, memVars, flushVars, txnVars, storeVars
<1>6. RequestsKnown'
  <2>1. primary # 0 /\ flushing # Nil /\ k \in Mutations /\ lo <= k /\ k <= hi /\ gen > 0 /\ gen \in Nat
    BY DEF SendFlush, FlushHandshake, BatchKnown, Phases, TypeFlush
  <2>2. /\ Request(k).primary = primary /\ Request(k).key = k /\ Request(k).gen = gen
        /\ Request(k) = Request(Request(k).key)
    BY DEF Request
  <2>3. reqs' = reqs \cup {Request(k)} /\ UNCHANGED <<lo, hi, primary, gen, flushing, app, ran>>
    BY DEF SendFlush, memVars, txnVars
  <2>4. \A q \in reqs : q.key = k /\ q.gen = gen => q = Request(k)
    BY <2>1 DEF RequestsKnown
  <2>5. \A j : Request(j)' = Request(j)
    BY <2>3 DEF Request
  <2>6. \A q \in reqs' : /\ q.primary = primary /\ lo <= q.key /\ q.key <= hi
                         /\ q.gen = gen => q = Request(q.key)
                         /\ Intact /\ q.gen < gen => q \in ran
    BY <2>1, <2>2, <2>3, <2>4 DEF RequestsKnown
  <2>7. \A q, r \in reqs' : q.key = r.key /\ q.gen = r.gen => q = r
    BY <2>2, <2>3, <2>4 DEF RequestsKnown
  <2> QED
    BY <2>1, <2>3, <2>5, <2>6, <2>7 DEF RequestsKnown, Intact
<1>7. BatchKnown'
  BY ConstantsAssumption
  DEF BatchKnown, TypeMem, TypeFlush, TypeTxn, TypeApp, TypeReqs, TypeStore, TypeTask, Request,
      Mutations, NoFlush, SendFlush, memVars, flushVars, txnVars, storeVars
<1> QED
  BY <1>1, <1>2, <1>3, <1>4, <1>5, <1>6, <1>7

LEMMA FlushOkStep ==
    ASSUME Parts, NEW k \in Keys, FlushOk(k)
    PROVE  Parts'
<1> USE DEF Parts, Types
<1>1. /\ TypeMem' /\ TypeApp' /\ TypeReqs' /\ TypeStore' /\ TypeTask'
      /\ RequestsKnown' /\ LocksKnown' /\ Decided' /\ WritesKnown' /\ TasksCover'
  BY KeepMem, KeepReqs, KeepStore, KeepTask, KeepRequests, KeepLocks, KeepDecided, KeepWrites, KeepTasks
  DEF FlushOk, memVars, flushVars, txnVars, storeVars, TypeApp
<1>2. TypeFlush'
  BY ConstantsAssumption
  DEF TypeFlush, TypeMem, TypeTxn, TypeApp, TypeReqs, TypeStore, TypeTask, NoFlush, EmptyDB, Entry,
      AllEntries, FlushOk, memVars, flushVars, txnVars, storeVars
<1>3. TypeTxn'
  BY ConstantsAssumption
  DEF TypeTxn, TypeMem, TypeFlush, TypeApp, TypeReqs, TypeStore, TypeTask, close, FlushOk, memVars,
      flushVars, txnVars, storeVars
<1>4. FlushHandshake'
  BY ConstantsAssumption
  DEF FlushHandshake, TypeMem, TypeFlush, TypeTxn, TypeApp, TypeReqs, TypeStore, TypeTask, NoFlush,
      FlushOk, memVars, flushVars, txnVars, storeVars
<1>5. Phases'
  BY ConstantsAssumption
  DEF Phases, TypeMem, TypeFlush, TypeTxn, TypeApp, TypeReqs, TypeStore, TypeTask, Stopped, NoFlush,
      EmptyDB, NoCache, FlushOk, memVars, flushVars, txnVars, storeVars
<1>6. BatchKnown'
  BY ConstantsAssumption
  DEF BatchKnown, TypeMem, TypeFlush, TypeTxn, TypeApp, TypeReqs, TypeStore, TypeTask, Request,
      Mutations, NoFlush, FlushOk, memVars, flushVars, txnVars, storeVars
<1> QED
  BY <1>1, <1>2, <1>3, <1>4, <1>5, <1>6

LEMMA FlushReportStep ==
    ASSUME Parts, FlushReport
    PROVE  Parts'
<1> USE DEF Parts, Types
<1>1. /\ TypeMem' /\ TypeApp' /\ TypeReqs' /\ TypeStore' /\ TypeTask'
      /\ RequestsKnown' /\ LocksKnown' /\ Decided' /\ WritesKnown' /\ TasksCover'
  BY KeepMem, KeepReqs, KeepStore, KeepTask, KeepRequests, KeepLocks, KeepDecided, KeepWrites, KeepTasks
  DEF FlushReport, memVars, flushVars, txnVars, storeVars, TypeApp
<1>2. TypeFlush'
  BY ConstantsAssumption
  DEF TypeFlush, TypeMem, TypeTxn, TypeApp, TypeReqs, TypeStore, TypeTask, NoFlush, EmptyDB, Entry,
      AllEntries, FlushReport, memVars, flushVars, txnVars, storeVars
<1>3. TypeTxn'
  BY ConstantsAssumption
  DEF TypeTxn, TypeMem, TypeFlush, TypeApp, TypeReqs, TypeStore, TypeTask, close, FlushReport, memVars,
      flushVars, txnVars, storeVars
<1>4. FlushHandshake'
  BY ConstantsAssumption
  DEF FlushHandshake, TypeMem, TypeFlush, TypeTxn, TypeApp, TypeReqs, TypeStore, TypeTask, NoFlush,
      FlushReport, memVars, flushVars, txnVars, storeVars
<1>5. Phases'
  BY ConstantsAssumption
  DEF Phases, TypeMem, TypeFlush, TypeTxn, TypeApp, TypeReqs, TypeStore, TypeTask, Stopped, NoFlush,
      EmptyDB, NoCache, FlushReport, memVars, flushVars, txnVars, storeVars
<1>6. BatchKnown'
  BY ConstantsAssumption
  DEF BatchKnown, TypeMem, TypeFlush, TypeTxn, TypeApp, TypeReqs, TypeStore, TypeTask, Request,
      Mutations, NoFlush, FlushReport, memVars, flushVars, txnVars, storeVars
<1> QED
  BY <1>1, <1>2, <1>3, <1>4, <1>5, <1>6

LEMMA KeepAliveFailsStep ==
    ASSUME Parts, KeepAliveFails
    PROVE  Parts'
<1> USE DEF Parts, Types
<1>1. /\ TypeMem' /\ TypeFlush' /\ TypeApp' /\ TypeReqs' /\ TypeStore' /\ TypeTask' /\ FlushHandshake'
      /\ Phases' /\ RequestsKnown' /\ BatchKnown' /\ LocksKnown' /\ Decided' /\ WritesKnown' /\ TasksCover'
  BY KeepMem, KeepFlush, KeepReqs, KeepStore, KeepTask, KeepHandshake, KeepPhases, KeepRequests,
     KeepBatch, KeepLocks, KeepDecided, KeepWrites, KeepTasks
  DEF KeepAliveFails, memVars, flushVars, txnVars, storeVars, TypeApp
<1>2. TypeTxn'
  BY ConstantsAssumption
  DEF TypeTxn, TypeMem, TypeFlush, TypeApp, TypeReqs, TypeStore, TypeTask, close, KeepAliveFails,
      memVars, flushVars, txnVars, storeVars
<1> QED
  BY <1>1, <1>2

LEMMA SendCommitStep ==
    ASSUME Parts, SendCommit
    PROVE  Parts'
<1> USE DEF Parts, Types
<1>1. /\ TypeMem' /\ TypeFlush' /\ TypeTxn' /\ TypeStore' /\ TypeTask'
      /\ FlushHandshake' /\ BatchKnown' /\ LocksKnown' /\ TasksCover'
  BY KeepMem, KeepFlush, KeepTxn, KeepStore, KeepTask, KeepHandshake, KeepBatch, KeepLocks, KeepTasks
  DEF SendCommit, memVars, flushVars, txnVars, storeVars
<1>2. TypeApp'
  BY ConstantsAssumption
  DEF TypeApp, TypeMem, TypeFlush, TypeTxn, TypeReqs, TypeStore, TypeTask, Waiting, SendCommit,
      memVars, flushVars, txnVars, storeVars
<1>3. TypeReqs'
  BY ConstantsAssumption
  DEF TypeReqs, TypeMem, TypeFlush, TypeTxn, TypeApp, TypeStore, TypeTask, Req, SendCommit, memVars,
      flushVars, txnVars, storeVars
<1>4. Phases'
  BY ConstantsAssumption
  DEF Phases, TypeMem, TypeFlush, TypeTxn, TypeApp, TypeReqs, TypeStore, TypeTask, Stopped, NoFlush,
      EmptyDB, NoCache, SendCommit, memVars, flushVars, txnVars, storeVars
<1>5. RequestsKnown'
  BY ConstantsAssumption
  DEF RequestsKnown, TypeMem, TypeFlush, TypeTxn, TypeApp, TypeReqs, TypeStore, TypeTask, Request,
      Intact, SendCommit, memVars, flushVars, txnVars, storeVars
<1>6. Decided'
  BY ConstantsAssumption
  DEF Decided, TypeMem, TypeFlush, TypeTxn, TypeApp, TypeReqs, TypeStore, TypeTask, Doomed, Committed,
      SendCommit, memVars, flushVars, txnVars, storeVars
<1>7. WritesKnown'
  BY ConstantsAssumption
  DEF WritesKnown, TypeMem, TypeFlush, TypeTxn, TypeApp, TypeReqs, TypeStore, TypeTask, Agrees, Below,
      Intact, Matches, Absent, Fresh, SendCommit, memVars, flushVars, txnVars, storeVars
<1> QED
  BY <1>1, <1>2, <1>3, <1>4, <1>5, <1>6, <1>7

LEMMA CommitUndeterminedStep ==
    ASSUME Parts, CommitUndetermined
    PROVE  Parts'
<1> USE DEF Parts, Types
<1>1. /\ TypeMem' /\ TypeFlush' /\ TypeReqs' /\ TypeStore' /\ TypeTask'
      /\ FlushHandshake' /\ BatchKnown' /\ LocksKnown' /\ TasksCover'
  BY KeepMem, KeepFlush, KeepReqs, KeepStore, KeepTask, KeepHandshake, KeepBatch, KeepLocks, KeepTasks
  DEF CommitUndetermined, memVars, flushVars, txnVars, storeVars
<1>2. TypeTxn'
  BY ConstantsAssumption
  DEF TypeTxn, TypeMem, TypeFlush, TypeApp, TypeReqs, TypeStore, TypeTask, close, CommitUndetermined,
      memVars, flushVars, txnVars, storeVars
<1>3. TypeApp'
  BY ConstantsAssumption
  DEF TypeApp, TypeMem, TypeFlush, TypeTxn, TypeReqs, TypeStore, TypeTask, Waiting, CommitUndetermined,
      memVars, flushVars, txnVars, storeVars
<1>4. Phases'
  BY ConstantsAssumption
  DEF Phases, TypeMem, TypeFlush, TypeTxn, TypeApp, TypeReqs, TypeStore, TypeTask, Stopped, NoFlush,
      EmptyDB, NoCache, CommitUndetermined, memVars, flushVars, txnVars, storeVars
<1>5. RequestsKnown'
  BY ConstantsAssumption
  DEF RequestsKnown, TypeMem, TypeFlush, TypeTxn, TypeApp, TypeReqs, TypeStore, TypeTask, Request,
      Intact, CommitUndetermined, memVars, flushVars, txnVars, storeVars
<1>6. Decided'
  BY ConstantsAssumption
  DEF Decided, TypeMem, TypeFlush, TypeTxn, TypeApp, TypeReqs, TypeStore, TypeTask, Doomed, Committed,
      CommitUndetermined, memVars, flushVars, txnVars, storeVars
<1>7. WritesKnown'
  BY ConstantsAssumption
  DEF WritesKnown, TypeMem, TypeFlush, TypeTxn, TypeApp, TypeReqs, TypeStore, TypeTask, Agrees, Below,
      Intact, Matches, Absent, Fresh, CommitUndetermined, memVars, flushVars, txnVars, storeVars
<1> QED
  BY <1>1, <1>2, <1>3, <1>4, <1>5, <1>6, <1>7

LEMMA ResolveGivesUpStep ==
    ASSUME Parts, ResolveGivesUp
    PROVE  Parts'
<1> USE DEF Parts, Types
<1>1. /\ TypeMem' /\ TypeFlush' /\ TypeTxn' /\ TypeApp' /\ TypeReqs' /\ TypeStore'
      /\ FlushHandshake' /\ RequestsKnown' /\ BatchKnown' /\ LocksKnown' /\ WritesKnown'
  BY KeepMem, KeepFlush, KeepTxn, KeepReqs, KeepStore, KeepHandshake, KeepRequests, KeepBatch,
     KeepLocks, KeepWrites DEF ResolveGivesUp, memVars, flushVars, txnVars, storeVars, TypeApp
<1>2. TypeTask'
  BY ConstantsAssumption
  DEF TypeTask, TypeMem, TypeFlush, TypeTxn, TypeApp, TypeReqs, TypeStore, NoTask, ResolveGivesUp,
      memVars, flushVars, txnVars, storeVars
<1>3. Phases'
  BY ConstantsAssumption
  DEF Phases, TypeMem, TypeFlush, TypeTxn, TypeApp, TypeReqs, TypeStore, TypeTask, Stopped, NoFlush,
      EmptyDB, NoCache, ResolveGivesUp, memVars, flushVars, txnVars, storeVars
<1>4. Decided'
  BY ConstantsAssumption
  DEF Decided, TypeMem, TypeFlush, TypeTxn, TypeApp, TypeReqs, TypeStore, TypeTask, Doomed, Committed,
      ResolveGivesUp, memVars, flushVars, txnVars, storeVars
<1>5. TasksCover'
  BY ConstantsAssumption
  DEF TasksCover, TypeMem, TypeFlush, TypeTxn, TypeApp, TypeReqs, TypeStore, TypeTask, OutsideRange,
      InTasks, ResolveGivesUp, memVars, flushVars, txnVars, storeVars
<1> QED
  BY <1>1, <1>2, <1>3, <1>4, <1>5

LEMMA SplitStep ==
    ASSUME Parts, NEW b \in 2 .. NKeys, Split(b)
    PROVE  Parts'
<1> USE DEF Parts, Types
<1>1. /\ TypeMem' /\ TypeFlush' /\ TypeTxn' /\ TypeApp' /\ TypeReqs' /\ TypeStore'
      /\ FlushHandshake' /\ RequestsKnown' /\ BatchKnown' /\ LocksKnown' /\ WritesKnown'
  BY KeepMem, KeepFlush, KeepTxn, KeepReqs, KeepStore, KeepHandshake, KeepRequests, KeepBatch,
     KeepLocks, KeepWrites DEF Split, memVars, flushVars, txnVars, storeVars, TypeApp
<1>2. TypeTask'
  BY ConstantsAssumption
  DEF TypeTask, TypeMem, TypeFlush, TypeTxn, TypeApp, TypeReqs, TypeStore, NoTask, Split, memVars,
      flushVars, txnVars, storeVars
<1>3. Phases'
  BY ConstantsAssumption
  DEF Phases, TypeMem, TypeFlush, TypeTxn, TypeApp, TypeReqs, TypeStore, TypeTask, Stopped, NoFlush,
      EmptyDB, NoCache, Split, memVars, flushVars, txnVars, storeVars
<1>4. Decided'
  BY ConstantsAssumption
  DEF Decided, TypeMem, TypeFlush, TypeTxn, TypeApp, TypeReqs, TypeStore, TypeTask, Doomed, Committed,
      Split, memVars, flushVars, txnVars, storeVars
<1>5. TasksCover'
  BY ConstantsAssumption
  DEF TasksCover, TypeMem, TypeFlush, TypeTxn, TypeApp, TypeReqs, TypeStore, TypeTask, OutsideRange,
      InTasks, Split, memVars, flushVars, txnVars, storeVars
<1> QED
  BY <1>1, <1>2, <1>3, <1>4, <1>5

LEMMA FlushErrStep ==
    ASSUME Parts, FlushErr
    PROVE  Parts'
<1> USE DEF Parts, Types
<1>1. TypeMem' /\ TypeReqs' /\ TypeStore' /\ LocksKnown'
  BY KeepMem, KeepReqs, KeepStore, KeepLocks DEF FlushErr, Abort, memVars, flushVars, txnVars, storeVars
<1>2. TypeFlush'
  BY ConstantsAssumption
  DEF TypeFlush, TypeMem, TypeTxn, TypeApp, TypeReqs, TypeStore, TypeTask, NoFlush, EmptyDB, Entry,
      AllEntries, FlushErr, Abort, memVars, flushVars, txnVars, storeVars
<1>3. TypeTxn'
  BY ConstantsAssumption
  DEF TypeTxn, TypeMem, TypeFlush, TypeApp, TypeReqs, TypeStore, TypeTask, close, FlushErr, Abort,
      memVars, flushVars, txnVars, storeVars
<1>4. TypeApp'
  BY ConstantsAssumption
  DEF TypeApp, TypeMem, TypeFlush, TypeTxn, TypeReqs, TypeStore, TypeTask, Waiting, FlushErr, Abort,
      memVars, flushVars, txnVars, storeVars
<1>5. TypeTask'
  <2>1. res.pc = "idle" /\ UNCHANGED <<lock, lo, hi>>
    BY DEF FlushErr, Phases, TypeTask
  <2> QED
    BY <2>1, AbortTask, KeepTask, KeepTasks DEF FlushErr
<1>6. FlushHandshake'
  <2>1. fl.pc = "idle"
    BY DEF FlushErr, FlushHandshake, Phases, TypeFlush
  <2>2. fl' = fl /\ errCh' = "none" /\ flushing' = Nil
    BY DEF FlushErr
  <2> QED
    BY <2>1, <2>2 DEF FlushHandshake
<1>7. Phases'
  <2>1. res.pc = "idle" /\ ~creq /\ UNCHANGED <<mem, stage, cache, gen, fl, creq>>
    BY DEF FlushErr, Phases, TypeTask, memVars, flushVars
  <2>2. res' = res \/ app' \in {"error", "rolledback"}
    BY DEF FlushErr, Abort
  <2>3. flushing' = Nil /\ app' \in {"failed", "error"} /\ stage = Nil
    BY DEF FlushErr, Abort, Phases, flushVars, Stopped
  <2>4. fl.pc # "idle" => errCh' = "none"
    BY DEF FlushErr, Phases, flushVars
  <2> QED
    BY <2>1, <2>2, <2>3, <2>4 DEF Phases, Stopped
<1>8. RequestsKnown'
  BY ConstantsAssumption
  DEF RequestsKnown, TypeMem, TypeFlush, TypeTxn, TypeApp, TypeReqs, TypeStore, TypeTask, Request,
      Intact, FlushErr, Abort, memVars, flushVars, txnVars, storeVars
<1>9. BatchKnown'
  <2>1. fl.pc = "idle"
    BY DEF FlushErr, FlushHandshake, Phases, TypeFlush
  <2>2. fl' = fl /\ errCh' = "none" /\ flushing' = Nil
    BY DEF FlushErr
  <2> QED
    BY <2>1, <2>2 DEF BatchKnown
<1>10. Decided'
  <2>1. res.pc = "idle" /\ ~creq /\ UNCHANGED <<lock, lo, hi, primary, rec, creq>>
    BY DEF FlushErr, Phases, TypeTask
  <2>2. app' # "committed" /\ (res' = res \/ (app' \in {"error", "rolledback"} /\ res'.commit = FALSE))
    BY <2>1, AbortTask DEF FlushErr, Abort
  <2>3. (Doomed => Doomed') /\ (Committed' <=> Committed) /\ ~Committed
    BY <2>1 DEF FlushErr, Abort, Doomed, Committed, Decided
  <2>4. app' \in {"error", "rolledback"} => Doomed'
    BY <2>1 DEF Doomed
  <2> QED
    BY <2>1, <2>2, <2>3, <2>4 DEF Decided
<1>11. WritesKnown'
  BY ConstantsAssumption
  DEF WritesKnown, TypeMem, TypeFlush, TypeTxn, TypeApp, TypeReqs, TypeStore, TypeTask, Agrees, Below,
      Intact, Matches, Absent, Fresh, FlushErr, Abort, memVars, flushVars, txnVars, storeVars
<1>12. TasksCover'
  <2>1. res.pc = "idle" /\ UNCHANGED <<lock, lo, hi>>
    BY DEF FlushErr, Phases, TypeTask
  <2> QED
    BY <2>1, AbortTask, KeepTask, KeepTasks DEF FlushErr
<1> QED
  BY <1>1, <1>2, <1>3, <1>4, <1>5, <1>6, <1>7, <1>8, <1>9, <1>10, <1>11, <1>12

LEMMA CommitWaitStep ==
    ASSUME Parts, CommitWait
    PROVE  Parts'
<1> USE DEF Parts, Types
<1>1. TypeMem' /\ TypeReqs' /\ TypeStore' /\ LocksKnown'
  BY KeepMem, KeepReqs, KeepStore, KeepLocks DEF CommitWait, Abort, memVars, flushVars, txnVars, storeVars
<1>2. TypeFlush'
  BY ConstantsAssumption
  DEF TypeFlush, TypeMem, TypeTxn, TypeApp, TypeReqs, TypeStore, TypeTask, NoFlush, EmptyDB, Entry,
      AllEntries, CommitWait, Abort, memVars, flushVars, txnVars, storeVars
<1>3. TypeTxn'
  BY ConstantsAssumption
  DEF TypeTxn, TypeMem, TypeFlush, TypeApp, TypeReqs, TypeStore, TypeTask, close, CommitWait, Abort,
      memVars, flushVars, txnVars, storeVars
<1>4. TypeApp'
  BY ConstantsAssumption
  DEF TypeApp, TypeMem, TypeFlush, TypeTxn, TypeReqs, TypeStore, TypeTask, Waiting, CommitWait, Abort,
      memVars, flushVars, txnVars, storeVars
<1>5. TypeTask'
  <2>1. res.pc = "idle" /\ UNCHANGED <<lock, lo, hi>>
    BY DEF CommitWait, Phases, TypeTask
  <2> QED
    BY <2>1, AbortTask, KeepTask, KeepTasks DEF CommitWait
<1>6. FlushHandshake'
  <2>1. fl.pc = "idle"
    BY DEF CommitWait, FlushHandshake, Phases, TypeFlush
  <2>2. fl' = fl /\ errCh' = "none" /\ flushing' = Nil
    BY DEF CommitWait
  <2> QED
    BY <2>1, <2>2 DEF FlushHandshake
<1>7. Phases'
  <2>1. res.pc = "idle" /\ ~creq /\ UNCHANGED <<mem, stage, cache, gen, fl, creq>>
    BY DEF CommitWait, Phases, TypeTask, memVars, flushVars
  <2>2. res' = res \/ app' \in {"error", "rolledback"}
    BY DEF CommitWait, Abort
  <2>3. flushing' = Nil /\ app' \in {"committing", "error"} /\ stage = Nil /\ mem = EmptyDB
    BY DEF CommitWait, Abort, Phases, flushVars, Stopped
  <2>4. fl.pc # "idle" => errCh' = "none"
    BY DEF CommitWait, Phases, flushVars
  <2> QED
    BY <2>1, <2>2, <2>3, <2>4 DEF Phases, Stopped
<1>8. RequestsKnown'
  <2>1. CASE app' = "committing"
    <3>1. Intact /\ errCh = "ok" /\ flushing # Nil /\ flushing' = Nil
      BY <2>1 DEF CommitWait, Abort, Intact, Phases
    <3>2. reqs \subseteq ran
      BY <3>1, AllRan
    <3> QED
      BY <3>1, <3>2 DEF CommitWait, RequestsKnown
  <2>2. CASE app' = "error"
    BY <2>2 DEF CommitWait, RequestsKnown, Intact
  <2> QED
    BY <2>1, <2>2 DEF CommitWait, Abort
<1>9. BatchKnown'
  <2>1. fl.pc = "idle"
    BY DEF CommitWait, FlushHandshake, Phases, TypeFlush
  <2>2. fl' = fl /\ errCh' = "none" /\ flushing' = Nil
    BY DEF CommitWait
  <2> QED
    BY <2>1, <2>2 DEF BatchKnown
<1>10. Decided'
  <2>1. res.pc = "idle" /\ ~creq /\ UNCHANGED <<lock, lo, hi, primary, rec, creq>>
    BY DEF CommitWait, Phases, TypeTask
  <2>2. app' # "committed" /\ (res' = res \/ (app' \in {"error", "rolledback"} /\ res'.commit = FALSE))
    BY <2>1, AbortTask DEF CommitWait, Abort
  <2>3. (Doomed => Doomed') /\ (Committed' <=> Committed) /\ ~Committed
    BY <2>1 DEF CommitWait, Abort, Doomed, Committed, Decided
  <2>4. app' \in {"error", "rolledback"} => Doomed'
    BY <2>1 DEF Doomed
  <2> QED
    BY <2>1, <2>2, <2>3, <2>4 DEF Decided
<1>11. WritesKnown'
  <2>0. stage = Nil /\ flushing' = Nil /\ UNCHANGED <<mem, own, stage, cache, rec, lock>> /\ app' # "open"
        /\ mem = EmptyDB
    BY DEF CommitWait, memVars, Phases, Abort
  <2>1. ASSUME Intact', NEW k \in Keys, rec[k] = "none"
        PROVE  Matches(Value[lock[k].entry], own[k])
    <3>1. Intact /\ errCh = "ok"
      BY <2>1 DEF CommitWait, Abort, Intact
    <3> QED
      BY <2>0, <2>1, <3>1, Landed, Empties
  <2>2. \A k \in Keys : Agrees(k, mem[k], own[k])'
    BY <2>0, <2>1, Empties DEF Agrees, Below, Matches, Fresh
  <2> QED
    BY <2>0, <2>2 DEF WritesKnown, Below, Matches
<1>12. TasksCover'
  <2>1. res.pc = "idle" /\ UNCHANGED <<lock, lo, hi>>
    BY DEF CommitWait, Phases, TypeTask
  <2> QED
    BY <2>1, AbortTask, KeepTask, KeepTasks DEF CommitWait
<1> QED
  BY <1>1, <1>2, <1>3, <1>4, <1>5, <1>6, <1>7, <1>8, <1>9, <1>10, <1>11, <1>12

LEMMA RollbackStep ==
    ASSUME Parts, Rollback
    PROVE  Parts'
<1> USE DEF Parts, Types
<1>1. TypeMem' /\ TypeReqs' /\ TypeStore' /\ LocksKnown'
  BY KeepMem, KeepReqs, KeepStore, KeepLocks DEF Rollback, Abort, memVars, flushVars, txnVars, storeVars
<1>2. TypeFlush'
  BY ConstantsAssumption
  DEF TypeFlush, TypeMem, TypeTxn, TypeApp, TypeReqs, TypeStore, TypeTask, NoFlush, EmptyDB, Entry,
      AllEntries, Rollback, Abort, memVars, flushVars, txnVars, storeVars
<1>3. TypeTxn'
  BY ConstantsAssumption
  DEF TypeTxn, TypeMem, TypeFlush, TypeApp, TypeReqs, TypeStore, TypeTask, close, Rollback, Abort,
      memVars, flushVars, txnVars, storeVars
<1>4. TypeApp'
  BY ConstantsAssumption
  DEF TypeApp, TypeMem, TypeFlush, TypeTxn, TypeReqs, TypeStore, TypeTask, Waiting, Rollback, Abort,
      memVars, flushVars, txnVars, storeVars
<1>5. TypeTask'
  <2>1. res.pc = "idle" /\ UNCHANGED <<lock, lo, hi>>
    BY DEF Rollback, Phases, TypeTask
  <2> QED
    BY <2>1, AbortTask, KeepTask, KeepTasks DEF Rollback
<1>6. FlushHandshake'
  <2>1. fl.pc = "idle"
    BY DEF Rollback, FlushHandshake, Phases, TypeFlush
  <2>2. fl' = fl /\ errCh' = "none" /\ flushing' = Nil
    BY DEF Rollback
  <2> QED
    BY <2>1, <2>2 DEF FlushHandshake
<1>7. Phases'
  <2>1. res.pc = "idle" /\ ~creq /\ UNCHANGED <<mem, stage, cache, gen, fl, creq>>
    BY DEF Rollback, Phases, TypeTask, memVars, flushVars
  <2>2. res' = res \/ app' \in {"error", "rolledback"}
    BY DEF Rollback, Abort
  <2>3. flushing' = Nil /\ app' = "rolledback"
    BY DEF Rollback, Abort, Phases, flushVars, Stopped
  <2>4. fl.pc # "idle" => errCh' = "none"
    BY DEF Rollback, Phases, flushVars
  <2> QED
    BY <2>1, <2>2, <2>3, <2>4 DEF Phases, Stopped
<1>8. RequestsKnown'
  BY ConstantsAssumption
  DEF RequestsKnown, TypeMem, TypeFlush, TypeTxn, TypeApp, TypeReqs, TypeStore, TypeTask, Request,
      Intact, Rollback, Abort, memVars, flushVars, txnVars, storeVars
<1>9. BatchKnown'
  <2>1. fl.pc = "idle"
    BY DEF Rollback, FlushHandshake, Phases, TypeFlush
  <2>2. fl' = fl /\ errCh' = "none" /\ flushing' = Nil
    BY DEF Rollback
  <2> QED
    BY <2>1, <2>2 DEF BatchKnown
<1>10. Decided'
  <2>1. res.pc = "idle" /\ ~creq /\ UNCHANGED <<lock, lo, hi, primary, rec, creq>>
    BY DEF Rollback, Phases, TypeTask
  <2>2. app' # "committed" /\ (res' = res \/ (app' \in {"error", "rolledback"} /\ res'.commit = FALSE))
    BY <2>1, AbortTask DEF Rollback, Abort
  <2>3. (Doomed => Doomed') /\ (Committed' <=> Committed) /\ ~Committed
    BY <2>1 DEF Rollback, Abort, Doomed, Committed, Decided
  <2>4. app' \in {"error", "rolledback"} => Doomed'
    BY <2>1 DEF Doomed
  <2> QED
    BY <2>1, <2>2, <2>3, <2>4 DEF Decided
<1>11. WritesKnown'
  BY ConstantsAssumption
  DEF WritesKnown, TypeMem, TypeFlush, TypeTxn, TypeApp, TypeReqs, TypeStore, TypeTask, Agrees, Below,
      Intact, Matches, Absent, Fresh, Rollback, Abort, memVars, flushVars, txnVars, storeVars
<1>12. TasksCover'
  <2>1. res.pc = "idle" /\ UNCHANGED <<lock, lo, hi>>
    BY DEF Rollback, Phases, TypeTask
  <2> QED
    BY <2>1, AbortTask, KeepTask, KeepTasks DEF Rollback
<1> QED
  BY <1>1, <1>2, <1>3, <1>4, <1>5, <1>6, <1>7, <1>8, <1>9, <1>10, <1>11, <1>12

LEMMA CommitTSFailsStep ==
    ASSUME Parts, CommitTSFails
    PROVE  Parts'
<1> USE DEF Parts, Types
<1>1. TypeMem' /\ TypeFlush' /\ TypeReqs' /\ TypeStore' /\ FlushHandshake' /\ BatchKnown' /\ LocksKnown'
  BY KeepMem, KeepFlush, KeepReqs, KeepStore, KeepHandshake, KeepBatch, KeepLocks
  DEF CommitTSFails, Abort, memVars, flushVars, txnVars, storeVars
<1>2. TypeTxn'
  BY ConstantsAssumption
  DEF TypeTxn, TypeMem, TypeFlush, TypeApp, TypeReqs, TypeStore, TypeTask, close, CommitTSFails, Abort,
      memVars, flushVars, txnVars, storeVars
<1>3. TypeApp'
  BY ConstantsAssumption
  DEF TypeApp, TypeMem, TypeFlush, TypeTxn, TypeReqs, TypeStore, TypeTask, Waiting, CommitTSFails,
      Abort, memVars, flushVars, txnVars, storeVars
<1>4. TypeTask'
  <2>1. res.pc = "idle" /\ UNCHANGED <<lock, lo, hi>>
    BY DEF CommitTSFails, Phases, TypeTask
  <2> QED
    BY <2>1, AbortTask, KeepTask, KeepTasks DEF CommitTSFails
<1>5. Phases'
  <2>1. res.pc = "idle" /\ ~creq /\ UNCHANGED <<mem, stage, cache, gen, fl, creq>>
    BY DEF CommitTSFails, Phases, TypeTask, memVars, flushVars
  <2>2. res' = res \/ app' \in {"error", "rolledback"}
    BY DEF CommitTSFails, Abort
  <2>3. flushing' = Nil /\ app' = "error" /\ stage = Nil
    BY DEF CommitTSFails, Abort, Phases, flushVars, Stopped
  <2>4. fl.pc # "idle" => errCh' = "none"
    BY DEF CommitTSFails, Phases, flushVars
  <2> QED
    BY <2>1, <2>2, <2>3, <2>4 DEF Phases, Stopped
<1>6. RequestsKnown'
  BY DEF CommitTSFails, Abort, RequestsKnown, Intact, flushVars, Request
<1>7. Decided'
  <2>1. res.pc = "idle" /\ ~creq /\ UNCHANGED <<lock, lo, hi, primary, rec, creq>>
    BY DEF CommitTSFails, Phases, TypeTask
  <2>2. app' # "committed" /\ (res' = res \/ (app' \in {"error", "rolledback"} /\ res'.commit = FALSE))
    BY <2>1, AbortTask DEF CommitTSFails, Abort
  <2>3. (Doomed => Doomed') /\ (Committed' <=> Committed) /\ ~Committed
    BY <2>1 DEF CommitTSFails, Abort, Doomed, Committed, Decided
  <2>4. app' \in {"error", "rolledback"} => Doomed'
    BY <2>1 DEF Doomed
  <2> QED
    BY <2>1, <2>2, <2>3, <2>4 DEF Decided
<1>8. WritesKnown'
  BY ConstantsAssumption
  DEF WritesKnown, TypeMem, TypeFlush, TypeTxn, TypeApp, TypeReqs, TypeStore, TypeTask, Agrees, Below,
      Intact, Matches, Absent, Fresh, CommitTSFails, Abort, memVars, flushVars, txnVars, storeVars
<1>9. TasksCover'
  <2>1. res.pc = "idle" /\ UNCHANGED <<lock, lo, hi>>
    BY DEF CommitTSFails, Phases, TypeTask
  <2> QED
    BY <2>1, AbortTask, KeepTask, KeepTasks DEF CommitTSFails
<1> QED
  BY <1>1, <1>2, <1>3, <1>4, <1>5, <1>6, <1>7, <1>8, <1>9

LEMMA FlushFuncStep ==
    ASSUME Parts, FlushFunc
    PROVE  Parts'
<1> USE DEF Parts, Types
<1>1. TypeMem' /\ TypeApp' /\ TypeReqs' /\ TypeStore' /\ TypeTask' /\ LocksKnown' /\ WritesKnown'
  BY KeepMem, KeepReqs, KeepStore, KeepTask, KeepLocks, KeepWrites
  DEF FlushFunc, memVars, flushVars, txnVars, storeVars, TypeApp
<1>2. TypeFlush'
  BY ConstantsAssumption
  DEF TypeFlush, TypeMem, TypeTxn, TypeApp, TypeReqs, TypeStore, TypeTask, NoFlush, EmptyDB, Entry,
      AllEntries, FlushFunc, memVars, flushVars, txnVars, storeVars
<1>3. TypeTxn'
  <2>1. Lockable \subseteq Nat /\ flushing # Nil
    BY ConstantsAssumption DEF FlushFunc, Lockable, Keys, FlushHandshake
  <2>2. primary' \in Keys \cup {0}
    <3>1. CASE primary # 0 \/ Lockable = {}
      BY <3>1 DEF FlushFunc, choosePrimary, TypeTxn
    <3>2. CASE ~(primary # 0 \/ Lockable = {})
      <4>1. Min(Lockable) \in Lockable
        BY <2>1, <3>2, MinFacts
      <4> QED
        BY <3>2, <4>1 DEF FlushFunc, choosePrimary, Lockable
    <3> QED
      BY <3>1, <3>2
  <2>3. updateBounds /\ flushing # EmptyDB
    BY DEF FlushFunc
  <2>4. lo' \in Keys /\ hi' \in Keys /\ lo' <= hi'
    BY <2>1, <2>3, BoundsGrow
  <2> QED
    BY <2>2, <2>4 DEF TypeTxn, FlushFunc
<1>4. FlushHandshake'
  BY ConstantsAssumption
  DEF FlushHandshake, TypeMem, TypeFlush, TypeTxn, TypeApp, TypeReqs, TypeStore, TypeTask, NoFlush,
      FlushFunc, memVars, flushVars, txnVars, storeVars
<1>5. Phases'
  BY ConstantsAssumption
  DEF Phases, TypeMem, TypeFlush, TypeTxn, TypeApp, TypeReqs, TypeStore, TypeTask, Stopped, NoFlush,
      EmptyDB, NoCache, FlushFunc, memVars, flushVars, txnVars, storeVars
<1>6. RequestsKnown'
  <2>1. flushing # Nil /\ updateBounds /\ flushing # EmptyDB
    BY DEF FlushFunc, FlushHandshake
  <2>2. /\ lo' \in Keys /\ hi' \in Keys /\ (lo # 0 => lo' <= lo) /\ hi <= hi'
    BY <2>1, BoundsGrow
  <2>3. lo' # 0 /\ hi' # 0 /\ lo' \in Nat /\ hi' \in Nat /\ lo \in Nat /\ hi \in Nat
    BY <2>2, ConstantsAssumption DEF Keys, TypeTxn
  <2>4. \A q \in reqs : q.primary \in Keys /\ q.key \in Keys /\ q.primary = primary /\ lo <= q.key /\ q.key <= hi
    BY DEF TypeReqs, Req, RequestsKnown
  <2>5. reqs # {} => primary # 0 /\ lo # 0
    BY <2>4 DEF RequestsKnown, Keys
  <2>6. (reqs # {} => primary' = primary) /\ UNCHANGED <<reqs, ran, gen, flushing, app>>
    BY <2>5 DEF FlushFunc, choosePrimary, storeVars
  <2>7. \A q \in reqs : /\ q.primary = primary' /\ lo' <= q.key /\ q.key <= hi'
                        /\ q.gen = gen /\ flushing # Nil => q = Request(q.key)'
    BY <2>2, <2>3, <2>4, <2>5, <2>6 DEF RequestsKnown, Request, Keys
  <2> QED
    BY <2>3, <2>6, <2>7 DEF RequestsKnown, Intact
<1>7. BatchKnown'
  <2>1. flushing # Nil /\ updateBounds /\ flushing # EmptyDB
    BY DEF FlushFunc, FlushHandshake
  <2>2. \A k \in Keys : flushing[k] # "none" => lo' <= k /\ k <= hi'
    BY <2>1, BoundsGrow
  <2>3. /\ fl' = [fl EXCEPT !.pc = "send", !.batch = [k \in Keys |-> IF k \in Mutations THEN "todo" ELSE "none"]]
        /\ errCh = "none" /\ UNCHANGED <<flushing, errCh>>
    BY DEF FlushFunc, Phases
  <2>4. fl'.pc = "send" /\ fl'.batch = [k \in Keys |-> IF k \in Mutations THEN "todo" ELSE "none"]
    BY <2>3 DEF TypeFlush
  <2>5. Mutations' = Mutations /\ \A k \in Mutations : k \in Keys /\ flushing[k] # "none"
    BY <2>3 DEF Mutations
  <2> QED
    BY <2>2, <2>3, <2>4, <2>5 DEF BatchKnown
<1>8. Decided'
  <2>1. res.pc = "idle" /\ ~creq /\ app \notin {"error", "rolledback", "committed"}
    BY DEF FlushFunc, Phases, TypeTask, FlushHandshake, Stopped
  <2>2. (primary # 0 => primary' = primary) /\ UNCHANGED <<rec, creq, app, res>>
    BY DEF FlushFunc, choosePrimary, storeVars
  <2>3. primary = 0 => \A k \in Keys : rec[k] = "none"
    BY <2>1 DEF Decided, Doomed, Committed
  <2>4. primary' \in Keys \cup {0}
    BY <1>3 DEF TypeTxn
  <2>5. CASE primary = 0
    BY <2>1, <2>2, <2>3, <2>4, <2>5 DEF Decided, Doomed, Committed
  <2>6. CASE primary # 0
    BY <2>1, <2>2, <2>6 DEF Decided, Doomed, Committed
  <2> QED
    BY <2>5, <2>6
<1>9. TasksCover'
  <2>1. res.pc = "idle"
    BY DEF FlushFunc, Phases, TypeTask, FlushHandshake, Stopped
  <2>2. flushing # Nil /\ updateBounds /\ flushing # EmptyDB
    BY DEF FlushFunc, FlushHandshake
  <2>3. hi <= hi' /\ hi' \in Keys
    BY <2>2, BoundsGrow
  <2>4. \A t \in res.tasks : t[2] \in Keys /\ t[2] <= hi'
    BY <2>3 DEF TasksCover, TypeTask, TypeTxn, Keys
  <2> QED
    BY <2>1, <2>4 DEF FlushFunc, TasksCover
<1> QED
  BY <1>1, <1>2, <1>3, <1>4, <1>5, <1>6, <1>7, <1>8, <1>9

LEMMA CommitOkStep ==
    ASSUME Parts, CommitOk
    PROVE  Parts'
<1> USE DEF Parts, Types
<1>1. TypeMem' /\ TypeFlush' /\ TypeReqs' /\ TypeStore' /\ FlushHandshake' /\ BatchKnown' /\ LocksKnown'
  BY KeepMem, KeepFlush, KeepReqs, KeepStore, KeepHandshake, KeepBatch, KeepLocks
  DEF CommitOk, memVars, flushVars, txnVars, storeVars
<1>2. TypeTxn'
  BY ConstantsAssumption
  DEF TypeTxn, TypeMem, TypeFlush, TypeApp, TypeReqs, TypeStore, TypeTask, close, CommitOk, memVars,
      flushVars, txnVars, storeVars
<1>3. TypeApp'
  BY ConstantsAssumption
  DEF TypeApp, TypeMem, TypeFlush, TypeTxn, TypeReqs, TypeStore, TypeTask, Waiting, CommitOk, memVars,
      flushVars, txnVars, storeVars
<1>4. TypeTask'
  <2>1. UNCHANGED <<lock, lo, hi>> /\ resolveFlushedLocks(TRUE)
    BY DEF CommitOk
  <2> QED
    BY <2>1, TaskStarts
<1>5. Phases'
  BY ConstantsAssumption
  DEF Phases, TypeMem, TypeFlush, TypeTxn, TypeApp, TypeReqs, TypeStore, TypeTask, Stopped, NoFlush,
      EmptyDB, NoCache, CommitOk, memVars, flushVars, txnVars, storeVars
<1>6. RequestsKnown'
  BY ConstantsAssumption
  DEF RequestsKnown, TypeMem, TypeFlush, TypeTxn, TypeApp, TypeReqs, TypeStore, TypeTask, Request,
      Intact, CommitOk, memVars, flushVars, txnVars, storeVars
<1>7. Decided'
  <2>1. UNCHANGED <<lock, lo, hi, primary, rec, creq>> /\ resolveFlushedLocks(TRUE) /\ Committed
    BY DEF CommitOk
  <2>2. res'.pc # "idle" /\ res'.commit
    BY <2>1, TaskStarts
  <2>3. Committed' /\ app' = "committed" /\ (Doomed => Doomed')
    BY <2>1 DEF CommitOk, Committed, Doomed
  <2> QED
    BY <2>1, <2>2, <2>3 DEF Decided, CommitOk
<1>8. WritesKnown'
  BY ConstantsAssumption
  DEF WritesKnown, TypeMem, TypeFlush, TypeTxn, TypeApp, TypeReqs, TypeStore, TypeTask, Agrees, Below,
      Intact, Matches, Absent, Fresh, CommitOk, memVars, flushVars, txnVars, storeVars
<1>9. TasksCover'
  <2>1. UNCHANGED <<lock, lo, hi>> /\ resolveFlushedLocks(TRUE)
    BY DEF CommitOk
  <2> QED
    BY <2>1, TaskStarts
<1> QED
  BY <1>1, <1>2, <1>3, <1>4, <1>5, <1>6, <1>7, <1>8, <1>9

LEMMA CommitRefusedStep ==
    ASSUME Parts, CommitRefused
    PROVE  Parts'
<1> USE DEF Parts, Types
<1>1. TypeMem' /\ TypeFlush' /\ TypeReqs' /\ TypeStore' /\ FlushHandshake' /\ BatchKnown' /\ LocksKnown'
  BY KeepMem, KeepFlush, KeepReqs, KeepStore, KeepHandshake, KeepBatch, KeepLocks
  DEF CommitRefused, Abort, memVars, flushVars, txnVars, storeVars
<1>2. TypeTxn'
  BY ConstantsAssumption
  DEF TypeTxn, TypeMem, TypeFlush, TypeApp, TypeReqs, TypeStore, TypeTask, close, CommitRefused, Abort,
      memVars, flushVars, txnVars, storeVars
<1>3. TypeApp'
  BY ConstantsAssumption
  DEF TypeApp, TypeMem, TypeFlush, TypeTxn, TypeReqs, TypeStore, TypeTask, Waiting, CommitRefused,
      Abort, memVars, flushVars, txnVars, storeVars
<1>4. TypeTask'
  <2>1. res.pc = "idle" /\ UNCHANGED <<lock, lo, hi>>
    BY DEF CommitRefused, Phases, TypeTask
  <2> QED
    BY <2>1, AbortTask, KeepTask, KeepTasks DEF CommitRefused
<1>5. Phases'
  <2>1. res.pc = "idle" /\ (creq => rec[primary] = "rollback")
    BY DEF CommitRefused, Phases, TypeTask, Decided
  <2> QED
    BY <2>1 DEF CommitRefused, Abort, Phases, Stopped, flushVars, memVars
<1>6. RequestsKnown'
  BY ConstantsAssumption
  DEF RequestsKnown, TypeMem, TypeFlush, TypeTxn, TypeApp, TypeReqs, TypeStore, TypeTask, Request,
      Intact, CommitRefused, Abort, memVars, flushVars, txnVars, storeVars
<1>7. Decided'
  <2>1. res.pc = "idle" /\ UNCHANGED <<lock, lo, hi, primary, rec, creq>> /\ app' = "error"
    BY DEF CommitRefused, Abort, Phases, TypeTask
  <2>2. res' = res \/ res'.commit = FALSE
    BY <2>1, AbortTask DEF CommitRefused
  <2>3. Doomed' /\ (Committed' <=> Committed)
    BY <2>1 DEF CommitRefused, Doomed, Committed, Decided
  <2> QED
    BY <2>1, <2>2, <2>3 DEF Decided
<1>8. WritesKnown'
  BY ConstantsAssumption
  DEF WritesKnown, TypeMem, TypeFlush, TypeTxn, TypeApp, TypeReqs, TypeStore, TypeTask, Agrees, Below,
      Intact, Matches, Absent, Fresh, CommitRefused, Abort, memVars, flushVars, txnVars, storeVars
<1>9. TasksCover'
  <2>1. res.pc = "idle" /\ UNCHANGED <<lock, lo, hi>>
    BY DEF CommitRefused, Phases, TypeTask
  <2> QED
    BY <2>1, AbortTask, KeepTask, KeepTasks DEF CommitRefused
<1> QED
  BY <1>1, <1>2, <1>3, <1>4, <1>5, <1>6, <1>7, <1>8, <1>9

LEMMA RunCommitStep ==
    ASSUME Parts, RunCommit
    PROVE  Parts'
<1> USE DEF Parts, Types
<1>1. creq /\ primary \in Keys /\ lock[primary] # NoLock /\ ResolveLocks({primary}, TRUE)
  BY DEF RunCommit, Decided, TypeTxn
<1>2. /\ Settles /\ TypeStore'
     /\ \A k \in Keys : rec'[k] # rec[k] =>
           k = primary /\ rec'[k] = lock[k].entry /\ rec'[k] \notin {"none", "rollback"}
  BY <1>1, ResolveSettles
<1>3. UNCHANGED <<app, primary, creq, res, lo, hi, ran, mem, own, stage, flushing, cache>>
  BY DEF RunCommit, memVars, flushVars, txnVars
<1>4. ~Doomed
  BY <1>1, LockFacts DEF Doomed
<1>5. \A k \in Keys : rec'[k] # rec[k] => Committed'
  BY <1>1, <1>2, <1>3, ConstantsAssumption DEF Committed, Keys
<1>6. /\ TypeMem' /\ TypeFlush' /\ TypeTxn' /\ TypeApp' /\ TypeReqs'
      /\ TypeTask' /\ FlushHandshake' /\ Phases' /\ RequestsKnown' /\ BatchKnown'
  BY KeepMem, KeepFlush, KeepTxn, KeepReqs, KeepTask, KeepHandshake, KeepPhases, KeepRequests, KeepBatch
  DEF RunCommit, memVars, flushVars, txnVars, storeVars, TypeApp
<1>7. TypeStore'
  BY <1>2
<1>8. LocksKnown'
  BY <1>2, <1>3, SettleLocks
<1>9. Decided'
  BY <1>1, <1>2, <1>3, <1>5, SettleDecided
<1>10. WritesKnown'
  BY <1>1, <1>2, <1>3, <1>4, SettleWrites
<1>11. TasksCover'
  BY <1>2, <1>3, SettleTasks
<1> QED
  BY <1>6, <1>7, <1>8, <1>9, <1>10, <1>11

LEMMA OtherRollsBackStep ==
    ASSUME Parts, NEW k \in Keys, OtherRollsBack(k)
    PROVE  Parts'
<1> USE DEF Parts, Types
<1>1. rec[k] = "none" /\ primary \in Keys /\ lock[k].primary = primary
  BY LockFacts DEF OtherRollsBack
<1>2. /\ rec[primary] = "none" /\ rec' = [rec EXCEPT ![primary] = "rollback"]
     /\ lock' = [lock EXCEPT ![primary] = NoLock]
  BY <1>1 DEF OtherRollsBack
<1>3. Settles /\ TypeStore' /\ \A j \in Keys : rec'[j] # rec[j] => rec'[j] = "rollback"
  BY <1>1, <1>2 DEF Settles, TypeStore, NoLock, Lock, Entry, AllEntries
<1>4. UNCHANGED <<app, primary, creq, res, lo, hi, ran, mem, own, stage, flushing, cache>>
  BY DEF OtherRollsBack, memVars, flushVars, txnVars
<1>5. Doomed'
  BY <1>1, <1>2, <1>4, ConstantsAssumption DEF Doomed, TypeStore, Keys
<1>6. /\ TypeMem' /\ TypeFlush' /\ TypeTxn' /\ TypeApp' /\ TypeReqs'
      /\ TypeTask' /\ FlushHandshake' /\ Phases' /\ RequestsKnown' /\ BatchKnown'
  BY KeepMem, KeepFlush, KeepTxn, KeepReqs, KeepTask, KeepHandshake, KeepPhases, KeepRequests, KeepBatch
  DEF OtherRollsBack, memVars, flushVars, txnVars, storeVars, TypeApp
<1>7. TypeStore'
  BY <1>3
<1>8. LocksKnown'
  BY <1>3, <1>4, SettleLocks
<1>9. Decided'
  BY <1>3, <1>4, <1>5, SettleDecided
<1>10. WritesKnown'
  BY <1>3, <1>4, SettleWrites
<1>11. TasksCover'
  BY <1>3, <1>4, SettleTasks
<1> QED
  BY <1>6, <1>7, <1>8, <1>9, <1>10, <1>11

LEMMA OtherResolvesStep ==
    ASSUME Parts, NEW k \in Keys, OtherResolves(k)
    PROVE  Parts'
<1> USE DEF Parts, Types
<1>1. rec[k] = "none" /\ primary \in Keys /\ lock[k].primary = primary
  BY LockFacts DEF OtherResolves
<1>2. PICK commit \in BOOLEAN : commit <=> rec[primary] # "rollback"
  OBVIOUS
<1>3. rec[primary] # "none" /\ ResolveLocks({k}, commit)
  BY <1>1, <1>2 DEF OtherResolves
<1>4. UNCHANGED <<app, primary, creq, res, lo, hi, ran, mem, own, stage, flushing, cache>>
  BY DEF OtherResolves, memVars, flushVars, txnVars
<1>5. /\ Settles /\ TypeStore'
     /\ \A j \in Keys : rec'[j] # rec[j] =>
           /\ commit => rec'[j] = lock[j].entry /\ rec'[j] \notin {"none", "rollback"}
           /\ ~commit => rec'[j] = "rollback"
  BY <1>3, ResolveSettles
<1>6. primary # 0
  BY <1>1, ConstantsAssumption DEF Keys
<1>7. commit => Committed /\ creq /\ ~Doomed
  BY <1>2, <1>3, <1>6 DEF Decided, Committed, Doomed
<1>8. (commit => Committed') /\ (~commit => Doomed')
  BY <1>1, <1>2, <1>3, <1>4, <1>5, <1>6 DEF Settles, Committed, Doomed
<1>9. /\ TypeMem' /\ TypeFlush' /\ TypeTxn' /\ TypeApp' /\ TypeReqs'
      /\ TypeTask' /\ FlushHandshake' /\ Phases' /\ RequestsKnown' /\ BatchKnown'
  BY KeepMem, KeepFlush, KeepTxn, KeepReqs, KeepTask, KeepHandshake, KeepPhases, KeepRequests, KeepBatch
  DEF OtherResolves, memVars, flushVars, txnVars, storeVars, TypeApp
<1>10. TypeStore'
  BY <1>5
<1>11. LocksKnown'
  BY <1>5, <1>4, SettleLocks
<1>12. Decided'
  BY <1>4, <1>5, <1>7, <1>8, SettleDecided
<1>13. WritesKnown'
  BY <1>4, <1>5, <1>7, SettleWrites
<1>14. TasksCover'
  BY <1>5, <1>4, SettleTasks
<1> QED
  BY <1>9, <1>10, <1>11, <1>12, <1>13, <1>14

LEMMA RunFlushStep ==
    ASSUME Parts, NEW q \in reqs, RunFlush(q)
    PROVE  Parts'
<1> USE DEF Parts, Types
<1>1. /\ q \in Req /\ q.key \in Keys /\ q.gen \in Nat /\ q.gen > 0 /\ q.primary \in Keys
      /\ q.entry \in AllEntries \ {"skip"} /\ q.gen \in 1 .. gen
  BY DEF TypeReqs, Req
<1>2. UNCHANGED <<memVars, flushVars, txnVars, app, reqs, creq, rec>> /\ ran' = ran \cup {q}
  BY DEF RunFlush
<1>3. PICK k \in Keys : k = q.key
  BY <1>1
<1>4. \/ UNCHANGED <<lock, res>> /\ (q.entry = "cne" \/ lock[k].gen > q.gen \/ rec[k] # "none")
      \/ /\ q.entry # "cne" /\ lock[k].gen <= q.gen /\ rec[k] = "none"
         /\ lock' = [lock EXCEPT ![k] = [gen |-> q.gen, entry |-> q.entry, primary |-> q.primary]]
         /\ res' = IF res.pc = "idle" \/ lock[k] # NoLock THEN res ELSE [res EXCEPT !.late = @ \cup {k}]
  <2>1. lock[k].gen \in Nat
    BY DEF TypeStore, Lock
  <2> QED
    BY <1>1, <1>3, <2>1 DEF RunFlush
<1>5. res'.pc = res.pc /\ res'.commit = res.commit
  BY <1>4 DEF TypeTask
<1>6. TypeMem' /\ TypeFlush' /\ TypeTxn' /\ TypeApp' /\ FlushHandshake'
  BY KeepMem, KeepFlush, KeepTxn, KeepHandshake
  DEF RunFlush, memVars, flushVars, txnVars, storeVars, TypeApp
<1>7. TypeReqs'
  BY <1>2 DEF TypeReqs, flushVars
<1>8. TypeStore'
  BY <1>1, <1>2, <1>4 DEF TypeStore, Lock, Entry, AllEntries
<1>9. TypeTask'
  BY <1>4 DEF TypeTask
<1>10. Phases'
  BY <1>2, <1>5 DEF Phases, Stopped, memVars, flushVars
<1>11. RequestsKnown'
  BY <1>2 DEF RequestsKnown, Request, Intact, flushVars, txnVars
<1>12. BatchKnown'
  BY <1>2 DEF BatchKnown, Request, Mutations, flushVars, txnVars
<1>13. LocksKnown'
  <2>1. CASE UNCHANGED lock
    BY <1>1, <1>2, <1>3, <1>4, <2>1 DEF LocksKnown, TypeStore, Lock
  <2>2. CASE lock' # lock
    <3>1. /\ q.entry # "cne" /\ lock[k].gen <= q.gen /\ rec[k] = "none"
          /\ lock' = [lock EXCEPT ![k] = [gen |-> q.gen, entry |-> q.entry, primary |-> q.primary]]
      BY <1>4, <2>2
    <3>2. lock'[k] = [gen |-> q.gen, entry |-> q.entry, primary |-> q.primary]
      BY <3>1 DEF TypeStore
    <3>3. q = [key |-> k, gen |-> lock'[k].gen, entry |-> lock'[k].entry, primary |-> lock'[k].primary]
      BY <1>1, <1>3, <3>2 DEF Req
    <3>4. \A j \in Keys : j # k => lock'[j] = lock[j]
      BY <3>1 DEF TypeStore
    <3>5. ASSUME NEW r \in ran' PROVE r.entry = "cne" \/ rec[r.key] # "none" \/ lock'[r.key].gen >= r.gen
      <4>1. r \in Req /\ r.key \in Keys /\ r.gen \in Nat
        BY <1>1, <1>2 DEF TypeReqs, Req
      <4>2. CASE r = q
        BY <1>1, <1>3, <3>2, <4>2
      <4>3. CASE r # q /\ r.key = k
        <5>1. r.entry = "cne" \/ lock[k].gen >= r.gen
          BY <1>2, <3>1, <4>3 DEF LocksKnown
        <5>2. lock[k].gen \in Nat /\ lock'[k].gen = q.gen
          BY <3>2 DEF TypeStore, Lock
        <5> QED
          BY <1>1, <3>1, <4>1, <4>3, <5>1, <5>2
      <4>4. CASE r # q /\ r.key # k
        BY <1>2, <3>4, <4>1, <4>4 DEF LocksKnown
      <4> QED
        BY <4>2, <4>3, <4>4
    <3>6. \A j \in Keys : lock'[j] # NoLock =>
             [key |-> j, gen |-> lock'[j].gen, entry |-> lock'[j].entry, primary |-> lock'[j].primary] \in ran'
      BY <1>2, <3>3, <3>4 DEF LocksKnown
    <3>7. \A j \in Keys : rec[j] # "none" => lock'[j] = NoLock
      BY <3>1, <3>4 DEF LocksKnown
    <3> QED
      BY <1>2, <3>5, <3>6, <3>7 DEF LocksKnown
  <2> QED
    BY <2>1, <2>2
<1>14. Decided'
  BY <1>2, <1>5 DEF Decided, Doomed, Committed, txnVars
<1>15. WritesKnown'
  <2>1. UNCHANGED <<mem, own, stage, flushing, rec, app, cache>>
    BY <1>2 DEF memVars, flushVars
  <2>2. \A j \in Keys : j # k => lock'[j] = lock[j]
    BY <1>4 DEF TypeStore
  <2>3. Intact => lock'[k].entry = lock[k].entry \/ (Below(k) /\ flushing[k] \notin {"cne", "skip"})
    <3> SUFFICES ASSUME Intact, lock' # lock
                 PROVE  lock'[k].entry = lock[k].entry \/ (Below(k) /\ flushing[k] \notin {"cne", "skip"})
      OBVIOUS
    <3>1. /\ q.entry # "cne" /\ lock[k].gen <= q.gen /\ rec[k] = "none" /\ lock'[k].entry = q.entry
      BY <1>4 DEF TypeStore
    <3>2. CASE q \in ran
      <4>1. lock[k].gen >= q.gen
        BY <1>3, <3>1, <3>2 DEF LocksKnown
      <4>2. lock[k].gen = q.gen
        BY <1>1, <3>1, <4>1 DEF TypeStore, Lock
      <4>3. lock[k] # NoLock
        BY <1>1, <4>2 DEF NoLock
      <4>4. PICK r \in ran :
              r = [key |-> k, gen |-> lock[k].gen, entry |-> lock[k].entry, primary |-> lock[k].primary]
        BY <4>3 DEF LocksKnown
      <4>5. r.key = k /\ r.gen = lock[k].gen /\ r.entry = lock[k].entry
        BY <4>4
      <4>6. r = q
        BY <1>3, <4>2, <4>5 DEF RequestsKnown, TypeReqs
      <4> QED
        BY <3>1, <4>5, <4>6
    <3>3. CASE q \notin ran
      <4>1. ~(q.gen < gen) /\ flushing # Nil
        BY <3>3 DEF RequestsKnown
      <4>2. q.gen = gen
        BY <1>1, <4>1 DEF TypeFlush
      <4>3. q = Request(k)
        BY <1>3, <4>1, <4>2 DEF RequestsKnown
      <4>4. flushing[k] = q.entry
        BY <4>3 DEF Request
      <4> QED
        BY <1>1, <3>1, <4>1, <4>4 DEF Below, AllEntries
    <3> QED
      BY <3>2, <3>3
  <2>4. \A j \in Keys : \A e, w : Agrees(j, e, w) => Agrees(j, e, w)'
    BY <2>1, <2>2, <2>3 DEF Agrees, Below, Intact, Matches, Absent
  <2> QED
    BY <2>1, <2>2, <2>3, <2>4 DEF WritesKnown, Below, Intact, Matches, Absent
<1>16. TasksCover'
  <2>1. UNCHANGED <<lo, hi>> /\ res'.tasks = res.tasks /\ res'.bounds = res.bounds /\ res.late \subseteq res'.late
    BY <1>2, <1>4 DEF txnVars, TypeTask
  <2>2. \A j \in Keys : lock'[j] # NoLock /\ res.pc # "idle" => lock[j] # NoLock \/ j \in res'.late
    BY <1>4 DEF TypeStore, TypeTask
  <2> QED
    BY <1>5, <2>1, <2>2 DEF TasksCover, OutsideRange, InTasks
<1> QED
  BY <1>6, <1>7, <1>8, <1>9, <1>10, <1>11, <1>12, <1>13, <1>14, <1>15, <1>16

LEMMA ResolveRegionStep ==
    ASSUME Parts, NEW t \in res.tasks, ResolveRegion(t)
    PROVE  Parts'
<1> USE DEF Parts, Types
<1>1. /\ NKeys \in Nat /\ (\A k \in Keys : k \in Nat /\ 1 <= k /\ k <= NKeys)
      /\ t \in res.tasks /\ t = <<t[1], t[2]>> /\ t[1] \in Keys /\ t[2] \in Keys /\ res.bounds \subseteq 2 .. NKeys
  BY ConstantsAssumption DEF ResolveRegion, TypeTask, Keys
<1>2. t[1] < t[2] /\ t[2] <= hi /\ hi \in Keys
  BY <1>1 DEF TasksCover, TypeTxn
<1> DEFINE ends == {b \in res.bounds : b > t[1]}
           begins == {1} \cup {b \in res.bounds : b <= t[1]}
<1>3. PICK end \in 1 .. (NKeys + 1) :
         /\ end = IF ends = {} THEN NKeys + 1 ELSE Min(ends)
         /\ t[1] < end /\ (ends # {} => end \in res.bounds)
  <2>1. CASE ends = {}
    BY <1>1, <2>1
  <2>2. CASE ends # {}
    <3>1. ends \in SUBSET Nat
      BY <1>1
    <3>2. Min(ends) \in ends
      <4> HIDE DEF ends
      <4> QED
        BY <2>2, <3>1, MinFacts
    <3>3. PICK e \in res.bounds : e = Min(ends) /\ e > t[1]
      BY <3>2
    <3>4. e \in 2 .. NKeys
      BY <1>1
    <3>5. e \in 1 .. (NKeys + 1) /\ t[1] < e
      BY <1>1, <3>3, <3>4
    <3> QED
      BY <2>2, <3>3, <3>5
  <2> QED
    BY <2>1, <2>2
<1>4. PICK begin \in Keys : begin = Max(begins) /\ begin <= t[1]
  <2>1. begins \in SUBSET (0 .. NKeys) /\ 1 \in begins
    BY <1>1
  <2>2. Max(begins) \in begins
    <3> HIDE DEF begins
    <3> QED
      BY <1>1, <2>1, MaxFacts
  <2>3. PICK m \in 0 .. NKeys : m = Max(begins) /\ (m = 1 \/ (m \in res.bounds /\ m <= t[1]))
    BY <2>1, <2>2
  <2>4. m \in Keys /\ m <= t[1]
    BY <1>1, <2>3 DEF Keys
  <2> QED
    BY <2>3, <2>4
<1>5. PICK rest : /\ rest = IF ends = {} \/ end >= t[2] THEN {} ELSE {<<end, t[2]>>}
  OBVIOUS
<1>6. /\ res.pc = "run" /\ ResolveLocks(begin .. (end - 1), res.commit)
      /\ res' = [res EXCEPT !.tasks = (@ \ {t}) \cup rest,
                            !.pc = IF (res.tasks \ {t}) \cup rest = {} THEN "done" ELSE @]
  BY <1>3, <1>4, <1>5 DEF ResolveRegion
<1> HIDE DEF ends, begins
<1>7. PICK commit \in BOOLEAN : commit = res.commit
  BY DEF TypeTask
<1>8. PICK ks : ks = begin .. (end - 1)
  OBVIOUS
<1>9. ResolveLocks(ks, commit)
  BY <1>6, <1>7, <1>8
<1>10. /\ Settles /\ TypeStore'
       /\ \A k \in Keys : rec'[k] # rec[k] =>
             /\ lock[k] # NoLock
             /\ commit => rec'[k] = lock[k].entry /\ rec'[k] \notin {"none", "rollback"}
             /\ ~commit => rec'[k] = "rollback"
       /\ \A k \in Keys : lock'[k] # NoLock => lock[k] # NoLock /\ k \notin ks
  BY <1>9, ResolveSettles
<1>11. UNCHANGED <<app, primary, creq, lo, hi, ran, mem, own, stage, flushing, cache>>
  BY DEF ResolveRegion, memVars, flushVars, txnVars
<1>12. (commit => Committed /\ creq /\ ~Doomed) /\ (~commit => Doomed)
  BY <1>6, <1>7 DEF Decided, Committed, Doomed, Phases
<1>13. (commit => Committed') /\ (~commit => Doomed')
  BY <1>10, <1>11, <1>12 DEF Settles, Committed, Doomed, TypeTxn
<1>14. rest \subseteq Keys \X Keys /\ \A u \in rest : u[1] < u[2] /\ u[2] <= hi
  <2>1. rest # {} => end \in Keys /\ end < t[2] /\ rest = {<<end, t[2]>>}
    BY <1>1, <1>3, <1>5 DEF Keys
  <2> QED
    BY <1>1, <1>2, <2>1
<1>15. /\ res'.tasks = (res.tasks \ {t}) \cup rest /\ res'.commit = res.commit
       /\ res'.bounds = res.bounds /\ res'.late = res.late
       /\ res'.pc = IF res'.tasks = {} THEN "done" ELSE "run"
  BY <1>6 DEF TypeTask
<1>16. /\ TypeMem' /\ TypeFlush' /\ TypeTxn' /\ TypeApp'
       /\ TypeReqs' /\ FlushHandshake' /\ RequestsKnown' /\ BatchKnown'
  BY KeepMem, KeepFlush, KeepTxn, KeepReqs, KeepHandshake, KeepRequests, KeepBatch
  DEF ResolveRegion, memVars, flushVars, txnVars, storeVars, TypeApp
<1>17. TypeStore'
  BY <1>10
<1>18. TypeTask'
  BY <1>6, <1>14 DEF TypeTask
<1>19. Phases'
  BY <1>6, <1>15 DEF ResolveRegion, Phases, Stopped, memVars, flushVars
<1>20. LocksKnown'
  BY <1>10, <1>11, SettleLocks
<1>21. Decided'
  BY <1>6, <1>10, <1>11, <1>12, <1>13, <1>15, SettleDecided
<1>22. WritesKnown'
  BY <1>10, <1>11, <1>12, SettleWrites
<1>23. TasksCover'
  <2>1. ASSUME NEW k \in Keys, lock'[k] # NoLock
        PROVE  k \in res.late \/ OutsideRange(k) \/ InTasks(k)'
    <3>1. lock[k] # NoLock /\ (k < begin \/ end <= k)
      BY <1>1, <1>3, <1>10, <1>8, <2>1
    <3>2. CASE k \in res.late \/ OutsideRange(k)
      BY <3>2
    <3>3. CASE \E u \in res.tasks : u # t /\ ((u[1] <= k /\ k < u[2]) \/ (k = hi /\ u[2] = hi))
      BY <3>3, <1>11, <1>15 DEF InTasks
    <3>4. CASE (t[1] <= k /\ k < t[2]) \/ (k = hi /\ t[2] = hi)
      <4>1. end <= k
        BY <1>1, <1>2, <1>3, <1>4, <3>1, <3>4
      <4>2. ends # {} /\ end \in res.bounds
        BY <1>1, <1>3, <4>1
      <4>3. CASE end < t[2]
        <5>1. <<end, t[2]>> \in res'.tasks
          BY <1>1, <1>5, <1>15, <4>2, <4>3
        <5> QED
          BY <1>11, <3>4, <4>1, <5>1 DEF InTasks
      <4>4. CASE end >= t[2]
        BY <1>1, <1>3, <3>4, <4>1, <4>2, <4>4 DEF OutsideRange
      <4> QED
        BY <1>1, <1>3, <4>3, <4>4
    <3> QED
      BY <1>6, <3>1, <3>2, <3>3, <3>4 DEF TasksCover, InTasks
  <2>2. \A k \in Keys : OutsideRange(k)' <=> OutsideRange(k)
    BY <1>11, <1>15 DEF OutsideRange
  <2>3. \A u \in res'.tasks : u[1] < u[2] /\ u[2] <= hi'
    BY <1>11, <1>14, <1>15 DEF TasksCover
  <2>4. res'.pc = "done" => res'.tasks = {}
    BY <1>15
  <2> QED
    BY <1>15, <2>1, <2>2, <2>3, <2>4 DEF TasksCover
<1> QED
  BY <1>16, <1>17, <1>18, <1>19, <1>20, <1>21, <1>22, <1>23

-----------------------------------------------------------------------------
(* The theorems.                                                           *)

LEMMA InitParts == Init => Parts
<1> SUFFICES ASSUME Init PROVE Parts
  OBVIOUS
<1>1. /\ mem = EmptyDB /\ own = EmptyDB /\ cache = NoCache /\ stage = Nil /\ flushing = Nil
      /\ gen = 0 /\ writes = 0 /\ fl = NoFlush /\ errCh = "none" /\ app = "open" /\ ttl = "uninit"
      /\ primary = 0 /\ lo = 0 /\ hi = 0 /\ reqs = {} /\ ran = {} /\ creq = FALSE
      /\ lock = [k \in Keys |-> NoLock] /\ rec = [k \in Keys |-> "none"] /\ res = NoTask
  BY DEF Init
<1>2. Types
  <2>1. TypeMem
    BY <1>1, Empties, ConstantsAssumption DEF TypeMem
  <2>2. TypeFlush
    BY <1>1, ConstantsAssumption DEF TypeFlush, NoFlush, EmptyDB
  <2>3. TypeTxn
    BY <1>1 DEF TypeTxn
  <2>6. TypeApp
    BY <1>1 DEF TypeApp
  <2>7. TypeReqs
    BY <1>1 DEF TypeReqs
  <2>4. TypeStore
    BY <1>1 DEF TypeStore, NoLock, Lock, Entry, AllEntries
  <2>5. TypeTask
    BY <1>1 DEF TypeTask, NoTask
  <2> QED
    BY <2>1, <2>2, <2>3, <2>4, <2>5, <2>6, <2>7 DEF Types
<1>3. FlushHandshake /\ Phases /\ RequestsKnown /\ BatchKnown /\ TasksCover /\ LocksKnown
  BY <1>1, ConstantsAssumption
  DEF FlushHandshake, Phases, Stopped, RequestsKnown, BatchKnown, LocksKnown, TasksCover, NoFlush, NoTask
<1>4. Decided
  BY <1>1 DEF Decided, Doomed, Committed, NoTask
<1>5. WritesKnown
  BY <1>1 DEF WritesKnown, Agrees, Below, Matches, Value, Fresh, EmptyDB, NoCache, NoLock
<1> QED
  BY <1>2, <1>3, <1>4, <1>5 DEF Parts

LEMMA NextParts ==
    ASSUME Parts, Ordinarily, [Next]_vars
    PROVE  Parts'
<1>1. CASE UNCHANGED vars
  BY <1>1, KeepMem, KeepFlush, KeepTxn, KeepReqs, KeepStore, KeepTask, KeepHandshake, KeepPhases,
     KeepRequests, KeepBatch, KeepLocks, KeepDecided, KeepWrites, KeepTasks
  DEF vars, memVars, flushVars, txnVars, storeVars, Parts, Types, TypeApp
<1>2. CASE \E k \in Keys, e \in Entries : Set(k, e)
  BY <1>2, SetStep
<1>3. CASE Staging \/ Release \/ Cleanup
  BY <1>3, StagingStep, ReleaseStep, CleanupStep
<1>4. CASE \E ks \in (SUBSET Prefetch) \ {{}}, ok \in BOOLEAN : BatchGet(ks, ok)
  BY <1>4, BatchGetStep
<1>5. CASE FlushNothing \/ CallFlush \/ Flush \/ FlushErr
  BY <1>5, FlushNothingStep, CallFlushStep, FlushStep, FlushErrStep
<1>6. CASE Goroutine
  BY <1>6, FlushRefusedStep, FlushEmptyStep, FlushFuncStep, FlushFlushedStep, FlushReportStep DEF Goroutine
<1>7. CASE \E k \in Keys : SendFlush(k) \/ FlushOk(k) \/ FlushFails(k)
  BY <1>7, SendFlushStep, FlushOkStep, FlushFailsStep
<1>8. CASE KeepAliveFails
  BY <1>8, KeepAliveFailsStep
<1>9. CASE Commit \/ CommitWait \/ CommitTSFails \/ SendCommit
  BY <1>9, CommitStep, CommitWaitStep, CommitTSFailsStep, SendCommitStep
<1>10. CASE CommitOk \/ CommitRefused \/ CommitUndetermined
  BY <1>10, CommitOkStep, CommitRefusedStep, CommitUndeterminedStep
<1>11. CASE CallRollback \/ Rollback
  BY <1>11, CallRollbackStep, RollbackStep
<1>12. CASE \E t \in res.tasks : ResolveRegion(t)
  BY <1>12, ResolveRegionStep
<1>13. CASE ResolveGivesUp \/ \E b \in 2 .. NKeys : Split(b)
  BY <1>13, ResolveGivesUpStep, SplitStep
<1>14. CASE \E q \in reqs : RunFlush(q)
  BY <1>14, RunFlushStep
<1>15. CASE RunCommit \/ \E k \in Keys : OtherRollsBack(k) \/ OtherResolves(k)
  BY <1>15, RunCommitStep, OtherRollsBackStep, OtherResolvesStep
<1> QED
  BY <1>1, <1>2, <1>3, <1>4, <1>5, <1>6, <1>7, <1>8, <1>9, <1>10, <1>11, <1>12, <1>13, <1>14, <1>15 DEF Next

(* The inductive invariant holds of every pipelined transaction: of its    *)
(* buffer, its flush goroutine, its requests in the network, its locks and *)
(* the range task that resolves them.                                      *)
THEOREM Invariance == Ordinarily => (Spec => []PipelinedInv)
<1> SUFFICES ASSUME Ordinarily PROVE Spec => []PipelinedInv
  OBVIOUS
<1>1. Init => PipelinedInv
  BY InitParts, InvIsParts
<1>2. PipelinedInv /\ [Next]_vars => PipelinedInv'
  <2>1. Parts /\ [Next]_vars => Parts'
    BY NextParts
  <2>2. (PipelinedInv <=> Parts)'
    BY InvIsParts, PTL
  <2> QED
    BY InvIsParts, <2>1, <2>2
<1> QED
  BY <1>1, <1>2, PTL DEF Spec

LEMMA ReadsOwn ==
    ASSUME Parts
    PROVE  ReadYourWrites
<1> USE DEF Parts, Types
<1> SUFFICES ASSUME app = "open", \A k \in Keys : rec[k] # "rollback", NEW k \in Keys
             PROVE  Matches(Get(k), own[k])
  BY DEF ReadYourWrites
<1>1. rec[k] = "none" /\ Intact
  BY DEF Decided, Phases, Intact
<1>2. Agrees(k, mem[k], own[k]) /\ mem[k] \in Entry
  BY DEF WritesKnown, TypeMem
<1>3. \A e \in Entry : (Value[e] = "none" <=> e = "none") /\ Matches(Value[e], e)
  BY DEF Entry, AllEntries, Value, Matches
<1>4. CASE mem[k] # "none"
  BY <1>2, <1>3, <1>4 DEF Get, GetLocal, Agrees
<1>5. CASE mem[k] = "none" /\ Below(k)
  <2>1. own[k] = flushing[k] /\ flushing # Nil /\ flushing[k] # "none" /\ flushing[k] \in Entry
    BY <1>2, <1>5 DEF Agrees, Below, TypeFlush
  <2> QED
    BY <1>3, <1>5, <2>1 DEF Get, GetLocal
<1>6. CASE mem[k] = "none" /\ ~Below(k)
  <2>1. GetLocal(k) = "none"
    BY <1>6 DEF GetLocal, Below, Value
  <2> QED
    BY <1>1, <1>2, <1>6, <2>1 DEF Get, bufferBatchGetter, Agrees
<1> QED
  BY <1>4, <1>5, <1>6

LEMMA OutcomeFollows ==
    ASSUME Parts
    PROVE  OutcomeRight
<1> USE DEF Parts, Types
<1>1. Committed => creq /\ ~Doomed
  BY DEF Decided, Committed, Doomed
<1>2. CommittedIsComplete
  <2> SUFFICES ASSUME NEW j \in Keys, rec[j] \notin {"none", "rollback"}
               PROVE  /\ Committed
                      /\ \A k \in Keys : /\ Matches(Stored(k), own[k])
                                         /\ rec[k] # "rollback"
                                         /\ lock[k] # NoLock => lock[k].primary = primary
    BY DEF CommittedIsComplete
  <2>1. Committed /\ creq /\ ~Doomed
    BY <1>1 DEF Decided
  <2>2. \A k \in Keys : rec[k] # "rollback"
    BY <2>1 DEF Decided
  <2>3. ASSUME NEW k \in Keys PROVE Matches(Stored(k), own[k])
    <3>1. CASE rec[k] = "none"
      BY <2>1, <3>1, CommitReady DEF Stored
    <3>2. CASE rec[k] # "none"
      BY <2>2, <3>2 DEF Stored, WritesKnown
    <3> QED
      BY <3>1, <3>2
  <2> QED
    BY <2>1, <2>2, <2>3, LockFacts
<1>3. ResultHonest
  <2>1. app \in {"error", "rolledback"} => Doomed /\ ~Committed
    BY <1>1 DEF Decided
  <2>2. app \in {"error", "rolledback"} /\ creq => lock[primary] = NoLock
    BY <2>1 DEF Doomed, LocksKnown, TypeTxn
  <2> QED
    BY <2>1, <2>2 DEF ResultHonest, Decided
<1>4. ResolvedClean
  BY DEF ResolvedClean, TasksCover, InTasks
<1> QED
  BY <1>2, <1>3, <1>4 DEF OutcomeRight

(* Get always returns the transaction's own last write, through flushes,   *)
(* prefetches and stages, and nobody waits for a report of the flush       *)
(* goroutine that does not come (pipelined_memdb.go).                      *)
THEOREM BufferReads == Ordinarily => (Spec => []BufferRight)
<1> SUFFICES ASSUME Ordinarily PROVE Spec => []BufferRight
  OBVIOUS
<1>1. PipelinedInv => BufferRight
  BY InvIsParts, ReadsOwn DEF PipelinedInv, BufferRight
<1>2. Spec => []PipelinedInv
  BY Invariance
<1> QED
  BY <1>1, <1>2, PTL

(* A pipelined transaction is committed whole or not at all, says what     *)
(* became of it, and leaves no lock in the range that it resolves          *)
(* (pipelined_flush.go, Commit and Rollback in txn.go).                    *)
THEOREM Outcome == Ordinarily => (Spec => []OutcomeRight)
<1> SUFFICES ASSUME Ordinarily PROVE Spec => []OutcomeRight
  OBVIOUS
<1>1. PipelinedInv => OutcomeRight
  BY InvIsParts, OutcomeFollows
<1>2. Spec => []PipelinedInv
  BY Invariance
<1> QED
  BY <1>1, <1>2, PTL

=============================================================================
