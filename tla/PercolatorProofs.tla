-------------------------- MODULE PercolatorProofs ---------------------------
(***************************************************************************)
(* Proofs about Percolator for any transactions, keys, primaries, readers  *)
(* and timestamp bound.                                                    *)
(*                                                                         *)
(* The steps that change what IndInv speaks of fall into four kinds: a     *)
(* record is put (RecordStep), a lock is taken (Prewrite), a minCommitTS   *)
(* grows, or the store does not change at all.  Each kind has a lemma; the *)
(* actions are then instances of them.                                     *)
(***************************************************************************)
EXTENDS Percolator, WellFoundedInduction, TLAPS

USE NoTxnAssumption, KeysAssumption, PrimaryAssumption, MaxTSAssumption

-----------------------------------------------------------------------------
(* The outcome of a transaction, without the set comprehension. *)
LEMMA OutcomeDef ==
    ASSUME NEW t \in Txn, NEW s
    PROVE  s \in OutcomeOf(t) <=>
             \E w \in write[Primary[t]] : w.txn = t /\ s = StatusOf(w)
  BY DEF OutcomeOf, InfoOf

LEMMA OutcomeDefPrime ==
    ASSUME NEW t \in Txn, NEW s
    PROVE  s \in OutcomeOf(t)' <=>
             \E w \in write'[Primary[t]] : w.txn = t /\ s = StatusOf(w)
  BY DEF OutcomeOf, InfoOf, StatusOf

(* A record that transaction t may leave on key k. *)
Legal(t, k, r) ==
    /\ r \in Record /\ r.txn = t
    /\ k \in Keys[t] /\ phase[t] # "idle"
    /\ InfoOf(t, k) = {}
    /\ r.type = "Rollback" => r.commit = startTS[t]
    /\ r.type # "Rollback" => r.commit \in commitReq[t] /\ lock[k] = t
    /\ r.type = "Put" => k \notin LockOnly[t]
    /\ r.type = "Lock" => k \in LockOnly[t]
    /\ k # Primary[t] => StatusOf(r) \in OutcomeOf(t)
    /\ (k = Primary[t] /\ r.type # "Rollback") => minCommit[t] <= r.commit

(* The record is put and t's lock on k, if any, is removed. *)
RecordStep(t, k, r) ==
    /\ PutRecord(k, r)
    /\ lock' = IF lock[k] = t THEN [lock EXCEPT ![k] = NoTxn] ELSE lock
    /\ UNCHANGED <<tso, startTS, clientVars, minCommit>>

(* Nothing is at the version of a legal record yet: PutRecord only adds. *)
LEMMA PutAdds ==
    ASSUME IndInv, NEW t \in Txn, NEW k \in Key, NEW r, Legal(t, k, r), PutRecord(k, r)
    PROVE  /\ write' = [write EXCEPT ![k] = write[k] \cup {r}]
           /\ \A j \in Key : write[j] \subseteq write'[j]
<1>1. ASSUME NEW w \in write[k], w.commit = r.commit PROVE FALSE
  <2>1. w.txn # t
    BY <1>1 DEF Legal, InfoOf
  <2>2. w \in Record /\ r \in Record /\ r.txn = t
    BY <1>1 DEF IndInv, TypeOK, StoreTypeOK, Legal
  <2>3. w.commit \in Timestamps(w.txn) /\ w.txn \in Txn
    BY <1>1, <2>2 DEF IndInv, WellFormed, Timestamps, Record
  <2>4. r.commit \in Timestamps(t)
    BY DEF Legal, Timestamps
  <2>5. r.commit # 0
    BY <2>2 DEF Record
  <2> QED
    BY <1>1, <2>1, <2>3, <2>4, <2>5 DEF IndInv, UniqueTS
<1>2. {w \in write[k] : w.commit # r.commit} = write[k]
  BY <1>1
<1>3. write' = [write EXCEPT ![k] = write[k] \cup {r}]
  BY <1>2 DEF PutRecord
<1> QED
  BY <1>3 DEF IndInv, TypeOK, StoreTypeOK

LEMMA RecordInv ==
    ASSUME IndInv, TypeOK', NEW t \in Txn, NEW k \in Key, NEW r,
           Legal(t, k, r), RecordStep(t, k, r),
           \A u \in Txn : decided'[u] \subseteq decided[u] \cup
               (IF u = t /\ k = Primary[t] THEN {StatusOf(r)} ELSE {}),
           \A u \in seen' : phase[u] # "idle",
           \A q \in Reader : wait'[q] = NoTxn \/ phase[wait'[q]] # "idle"
    PROVE  IndInv'
<1>1. write' = [write EXCEPT ![k] = write[k] \cup {r}]
  BY PutAdds DEF RecordStep
<1>2. TypeOK /\ write \in [Key -> SUBSET Record] /\ lock \in [Key -> Txn \cup {NoTxn}]
  BY DEF IndInv, TypeOK, StoreTypeOK
<1>3. write'[k] = write[k] \cup {r} /\ \A j \in Key : j # k => write'[j] = write[j]
  BY <1>1, <1>2
<1>4. /\ \A j \in Key : lock'[j] = lock[j] \/ (j = k /\ lock[k] = t /\ lock'[k] = NoTxn)
      /\ lock'[k] # t
  BY <1>2 DEF RecordStep
<1>5. UNCHANGED <<tso, startTS, phase, result, acked, commitTS, undet, commitReq, minCommit>>
  BY DEF RecordStep, clientVars
<1>6. r \in Record /\ r.txn = t
  BY DEF Legal
<1>7. \A w \in write[k] : w.txn # t
  BY DEF Legal, InfoOf
<1>8. \A u \in Txn : OutcomeOf(u) \subseteq OutcomeOf(u)'
  BY <1>3, OutcomeDef, OutcomeDefPrime
<1>9. k = Primary[t] => StatusOf(r) \in OutcomeOf(t)'
  BY <1>3, <1>6, OutcomeDefPrime
<1>10. Traces'
  BY <1>5, <1>2 DEF IndInv, Traces, Legal
<1>11. WellFormed'
  BY <1>2, <1>3, <1>4, <1>5, <1>6 DEF IndInv, WellFormed, Legal
<1>12. UniqueTS'
  BY <1>5 DEF IndInv, UniqueTS, Timestamps
<1>13. OneRecord'
  BY <1>3, <1>6, <1>7 DEF IndInv, OneRecord
<1>14. LockedIsOpen'
  BY <1>2, <1>3, <1>4, <1>6 DEF IndInv, LockedIsOpen, Record
<1>15. PrimaryDecides'
  <2>1. ASSUME NEW j \in Key, NEW w \in write'[j] PROVE StatusOf(w) \in OutcomeOf(w.txn)'
    <3>1. CASE w \in write[j]
      BY <3>1, <1>2, <1>8 DEF IndInv, PrimaryDecides, Record
    <3>2. CASE w = r /\ j = k
      BY <3>2, <1>6, <1>8, <1>9 DEF Legal
    <3> QED BY <3>1, <3>2, <1>3, <2>1
  <2>2. ASSUME NEW u \in Txn PROVE decided'[u] \subseteq OutcomeOf(u)'
    BY <1>8, <1>9 DEF IndInv, PrimaryDecides
  <2> QED BY <2>1, <2>2 DEF PrimaryDecides, StatusOf
<1>16. LockAfterCommits'
  BY <1>2, <1>3, <1>4, <1>5, <1>6 DEF IndInv, LockAfterCommits, Legal
<1>17. AckedHolds'
  <2>1. ASSUME NEW u \in Txn, NEW j \in acked[u] PROVE lock'[j] = u \/ InfoOf(u, j)' # {}
    <3>1. j \in Key /\ (lock[j] = u \/ \E w \in write[j] : w.txn = u)
      BY <2>1, <1>2 DEF IndInv, AckedHolds, InfoOf, TypeOK
    <3>2. lock'[j] = u \/ \E w \in write'[j] : w.txn = u
      BY <3>1, <1>3, <1>4, <1>6
    <3> QED
      BY <3>2 DEF InfoOf
  <2> QED
    BY <2>1, <1>5 DEF IndInv, AckedHolds
<1>18. ClientKnows'
  <2>1. ASSUME NEW u \in Txn, NEW c \in commitReq[u], Dead(u, c) PROVE Dead(u, c)'
    <3>1. Primary[u] \in Key
      OBVIOUS
    <3>2. lock'[Primary[u]] = u => minCommit'[u] > c
      BY <2>1, <3>1, <1>4, <1>5 DEF Dead
    <3>3. ASSUME NEW w \in write'[Primary[u]], w.txn = u, w.type # "Rollback", w.commit = c
          PROVE  FALSE
      <4>1. CASE w \in write[Primary[u]]
        BY <2>1, <3>3, <4>1 DEF Dead, CommitsOf, InfoOf
      <4>2. CASE w = r /\ k = Primary[u]
        <5>1. u = t /\ lock[k] = u /\ minCommit[u] <= c
          BY <3>3, <4>2, <1>6 DEF Legal
        <5>2. minCommit[u] \in Nat /\ c \in Nat
          BY <1>2 DEF TypeOK, StoreTypeOK
        <5> QED
          BY <2>1, <4>2, <5>1, <5>2 DEF Dead
      <4> QED
        BY <3>3, <4>1, <4>2, <3>1, <1>3
    <3> QED
      BY <3>2, <3>3 DEF Dead, CommitsOf, InfoOf
  <2> QED
    BY <2>1, <1>5, <1>8 DEF IndInv, ClientKnows
<1> QED
  BY <1>5, <1>10, <1>11, <1>12, <1>13, <1>14, <1>15, <1>16, <1>17, <1>18 DEF IndInv

-----------------------------------------------------------------------------
(* A prewrite that takes a lock. *)
LEMMA PrewriteInv ==
    ASSUME IndInv, NEW t \in Txn, NEW k \in Key, Prewrite(t, k)
    PROVE  IndInv'
<1>1. TypeOK /\ write \in [Key -> SUBSET Record] /\ lock \in [Key -> Txn \cup {NoTxn}]
      /\ startTS \in [Txn -> Nat] /\ minCommit \in [Txn -> Nat]
  BY DEF IndInv, TypeOK, StoreTypeOK
<1>2. /\ phase[t] # "idle" /\ k \in Keys[t]
      /\ lock[k] = NoTxn /\ lock' = [lock EXCEPT ![k] = t]
      /\ write' = write
  BY DEF Prewrite, prewriteMutation
<1>3. UNCHANGED <<tso, startTS, phase, result, acked, commitTS, undet, commitReq,
                  seen, decided, rts, wait, ignore, access, reads>>
  BY DEF Prewrite, clientVars, resolverVars, readerVars
<1>4. TypeOK'
  BY DEF IndInv, TypeOK, StoreTypeOK, Prewrite, prewriteMutation,
         clientVars, resolverVars, readerVars
<1>5. ASSUME NEW w \in write[k] PROVE w.txn # t
  <2>1. w \in Record
    BY <1>1
  <2>2. CASE w.type = "Rollback"
    BY <2>2 DEF IndInv, WellFormed, Prewrite, prewriteMutation, BarredByRollback
  <2>3. CASE w.type # "Rollback" /\ w.txn = t
    <3>1. w.commit > startTS[t]
      BY <2>3, <1>1 DEF IndInv, WellFormed, Traces
    <3> QED
      BY <3>1 DEF Prewrite, prewriteMutation, Conflict
  <2> QED BY <2>2, <2>3
<1>6. commitReq[t] # {} => k # Primary[t]
  <2>1. k \in acked[t] => \E w \in write[k] : w.txn = t
    BY <1>2 DEF IndInv, AckedHolds, InfoOf
  <2> QED
    BY <2>1, <1>2, <1>5 DEF IndInv, AckedHolds
<1>7. /\ minCommit' \in [Txn -> Nat]
      /\ \A u \in Txn : minCommit'[u] = minCommit[u] \/ (u = t /\ k = Primary[t])
  BY <1>1 DEF Prewrite, prewriteMutation
<1>8. \A j \in Key : lock'[j] = lock[j] \/ (j = k /\ lock'[k] = t)
  BY <1>1, <1>2
<1>9. \A u \in Txn : OutcomeOf(u)' = OutcomeOf(u)
  BY <1>2 DEF OutcomeOf, InfoOf, StatusOf
<1>10. Traces'
  BY <1>3 DEF IndInv, Traces
<1>11. WellFormed'
  BY <1>1, <1>2, <1>3, <1>8 DEF IndInv, WellFormed
<1>12. UniqueTS'
  BY <1>3 DEF IndInv, UniqueTS, Timestamps
<1>13. OneRecord'
  BY <1>2 DEF IndInv, OneRecord
<1>14. LockedIsOpen'
  BY <1>2, <1>5, <1>8 DEF IndInv, LockedIsOpen
<1>15. PrimaryDecides'
  BY <1>1, <1>2, <1>3, <1>9 DEF IndInv, PrimaryDecides, StatusOf, Record
<1>16. LockAfterCommits'
  <2>1. ASSUME NEW w \in write[k], w.type # "Rollback" PROVE w.commit < startTS[t]
    <3>1. w \in Record /\ w.txn \in Txn /\ w.txn # t /\ w.commit \in Nat \ {0}
      BY <1>1, <1>5 DEF Record
    <3>2. w.commit \in Timestamps(w.txn) /\ startTS[t] \in Timestamps(t)
      BY <2>1 DEF IndInv, WellFormed, Timestamps
    <3>3. w.commit # startTS[t]
      BY <3>1, <3>2 DEF IndInv, UniqueTS
    <3>4. ~(w.commit > startTS[t])
      BY DEF Prewrite, prewriteMutation, Conflict
    <3> QED
      BY <3>1, <3>3, <3>4, <1>1
  <2> QED
    BY <2>1, <1>2, <1>3, <1>8 DEF IndInv, LockAfterCommits
<1>17. AckedHolds'
  BY <1>1, <1>2, <1>3, <1>8 DEF IndInv, AckedHolds, InfoOf, TypeOK
<1>18. ClientKnows'
  <2>1. ASSUME NEW u \in Txn, NEW c \in commitReq[u], Dead(u, c) PROVE Dead(u, c)'
    <3>1. minCommit'[u] = minCommit[u]
      BY <1>6, <1>7
    <3>2. lock'[Primary[u]] = u => lock[Primary[u]] = u
      BY <1>6, <1>8
    <3> QED
      BY <2>1, <3>1, <3>2, <1>2 DEF Dead, CommitsOf, InfoOf
  <2> QED
    BY <2>1, <1>3, <1>9 DEF IndInv, ClientKnows
<1> QED
  BY <1>3, <1>4, <1>10, <1>11, <1>12, <1>13, <1>14, <1>15, <1>16, <1>17, <1>18 DEF IndInv

(* Steps of committers, resolvers and readers that leave locks and records *)
(* alone, take no timestamp and let minCommitTS only grow.                 *)
Quiet ==
    /\ UNCHANGED <<tso, startTS, lock, write, commitTS>>
    /\ \A t \in Txn : minCommit'[t] >= minCommit[t]
    /\ \A t \in Txn : (phase'[t] = "idle") <=> (phase[t] = "idle")
    /\ \A t \in Txn : commitReq'[t] \subseteq commitReq[t]

LEMMA QuietStore ==
    ASSUME IndInv, TypeOK', Quiet,
           \A k \in Key : \A w \in write[k] :
               w.type # "Rollback" => w.commit \in commitReq'[w.txn],
           \A t \in Txn : decided'[t] \subseteq OutcomeOf(t),
           \A t \in seen' : phase[t] # "idle",
           \A q \in Reader : wait'[q] = NoTxn \/ phase[wait'[q]] # "idle",
           \A t \in Txn : phase[t] = "idle" => acked'[t] = {}
    PROVE  /\ Traces' /\ WellFormed' /\ UniqueTS' /\ OneRecord' /\ LockedIsOpen'
           /\ PrimaryDecides' /\ LockAfterCommits'
           /\ \A t \in Txn : OutcomeOf(t)' = OutcomeOf(t)
           /\ \A t \in Txn, c \in Nat : Dead(t, c) => Dead(t, c)'
<1>1. TypeOK /\ write \in [Key -> SUBSET Record] /\ lock \in [Key -> Txn \cup {NoTxn}]
      /\ minCommit \in [Txn -> Nat] /\ minCommit' \in [Txn -> Nat]
  BY DEF IndInv, TypeOK, StoreTypeOK
<1>2. UNCHANGED <<tso, startTS, lock, write, commitTS>>
  BY DEF Quiet
<1>3. \A t \in Txn : OutcomeOf(t)' = OutcomeOf(t)
  BY <1>2 DEF OutcomeOf, InfoOf, StatusOf
<1>4. \A t \in Txn, c \in Nat : Dead(t, c) => Dead(t, c)'
  BY <1>1, <1>2 DEF Dead, CommitsOf, InfoOf, Quiet
<1>5. ASSUME NEW t \in Txn, phase[t] = "idle" PROVE decided'[t] = {}
  <2>1. \A k \in Key : \A w \in write[k] : w.txn # t
    BY <1>5 DEF IndInv, WellFormed
  <2>2. \A x : x \notin OutcomeOf(t)
    BY <2>1, OutcomeDef
  <2> QED BY <2>2
<1>6. Traces'
  <2>1. \A t \in Txn : commitReq[t] \subseteq Nat /\ startTS[t] \in Nat
    BY <1>1 DEF TypeOK
  <2> QED
    BY <1>2, <1>5, <2>1 DEF IndInv, Traces, Quiet
<1>7. WellFormed'
  BY <1>1, <1>2 DEF IndInv, WellFormed, Quiet, Record
<1>8. UniqueTS'
  BY <1>2 DEF IndInv, UniqueTS, Timestamps, Quiet
<1>9. OneRecord' /\ LockedIsOpen' /\ LockAfterCommits'
  BY <1>2 DEF IndInv, OneRecord, LockedIsOpen, LockAfterCommits
<1>10. PrimaryDecides'
  BY <1>1, <1>2, <1>3 DEF IndInv, PrimaryDecides, StatusOf, Record
<1> QED
  BY <1>3, <1>4, <1>6, <1>7, <1>8, <1>9, <1>10

-----------------------------------------------------------------------------
(* The committer's own steps. *)

LEMMA BeginInv ==
    ASSUME IndInv, NEW t \in Txn, Begin(t)
    PROVE  IndInv'
<1>1. TypeOK /\ write \in [Key -> SUBSET Record] /\ lock \in [Key -> Txn \cup {NoTxn}]
      /\ startTS \in [Txn -> Nat] /\ phase \in [Txn -> Phase] /\ tso \in Nat
      /\ result \in [Txn -> Result] /\ commitReq \in [Txn -> SUBSET Nat]
  BY DEF IndInv, TypeOK, StoreTypeOK
<1>2. /\ phase[t] = "idle" /\ tso < MaxTS /\ tso' = tso + 1
      /\ startTS' = [startTS EXCEPT ![t] = tso + 1]
      /\ phase' = [phase EXCEPT ![t] = "prewrite"]
  BY DEF Begin
<1>3. UNCHANGED <<lock, minCommit, write, result, acked, commitTS, undet, commitReq,
                  seen, decided, rts, wait, ignore, access, reads>>
  BY DEF Begin, storeVars, resolverVars, readerVars
<1>4. TypeOK'
  BY <1>1, <1>2, <1>3 DEF TypeOK, StoreTypeOK, Phase
<1>5. /\ \A k \in Key : \A w \in write[k] : w.txn # t
      /\ \A k \in Key : lock[k] # t
      /\ commitReq[t] = {}
  BY <1>2 DEF IndInv, WellFormed, Traces
<1>6. \A u \in Txn : OutcomeOf(u)' = OutcomeOf(u)
  BY <1>3 DEF OutcomeOf, InfoOf, StatusOf
<1>7. Traces'
  BY <1>1, <1>2, <1>3, <1>5 DEF IndInv, Traces, TypeOK
<1>8. WellFormed'
  BY <1>1, <1>2, <1>3, <1>5 DEF IndInv, WellFormed, Record
<1>9. UniqueTS'
  <2>1. \A u \in Txn : \A c \in Timestamps(u) : c \in Nat /\ c <= tso
    BY <1>1 DEF IndInv, Traces, Timestamps
  <2>2. \A u \in Txn : u # t => Timestamps(u)' = Timestamps(u)
    BY <1>1, <1>2, <1>3 DEF Timestamps
  <2>3. Timestamps(t)' = {tso + 1}
    BY <1>1, <1>2, <1>3, <1>5 DEF Timestamps
  <2> QED
    BY <2>1, <2>2, <2>3, <1>1 DEF IndInv, UniqueTS
<1>10. OneRecord' /\ LockedIsOpen'
  BY <1>3 DEF IndInv, OneRecord, LockedIsOpen
<1>11. LockAfterCommits'
  BY <1>1, <1>2, <1>3, <1>5 DEF IndInv, LockAfterCommits
<1>12. PrimaryDecides'
  BY <1>1, <1>3, <1>6 DEF IndInv, PrimaryDecides, StatusOf, Record
<1>13. AckedHolds'
  BY <1>3 DEF IndInv, AckedHolds, InfoOf
<1>14. ClientKnows'
  BY <1>1, <1>2, <1>3, <1>5, <1>6 DEF IndInv, ClientKnows, Dead, CommitsOf, InfoOf
<1> QED
  BY <1>1, <1>2, <1>4, <1>7, <1>8, <1>9, <1>10, <1>11, <1>12, <1>13, <1>14 DEF IndInv

(* Taking a commit version: all the versions sent before are dead. *)
LEMMA SendCommitInv ==
    ASSUME IndInv, NEW t \in Txn, SendCommitPrimary(t), acked[t] = Keys[t],
           phase[t] \in {"prewrite", "commit"},
           \A c \in commitReq[t] : Dead(t, c)
    PROVE  IndInv'
<1>1. TypeOK /\ write \in [Key -> SUBSET Record] /\ lock \in [Key -> Txn \cup {NoTxn}]
      /\ startTS \in [Txn -> Nat] /\ phase \in [Txn -> Phase] /\ tso \in Nat
      /\ result \in [Txn -> Result] /\ commitReq \in [Txn -> SUBSET Nat]
      /\ commitTS \in [Txn -> Nat]
  BY DEF IndInv, TypeOK, StoreTypeOK
<1>2. /\ tso < MaxTS /\ tso' = tso + 1
      /\ commitTS' = [commitTS EXCEPT ![t] = tso + 1]
      /\ commitReq' = [commitReq EXCEPT ![t] = commitReq[t] \cup {tso + 1}]
      /\ phase' = [phase EXCEPT ![t] = "commit"]
      /\ undet' = [undet EXCEPT ![t] = FALSE]
  BY DEF SendCommitPrimary
<1>3. UNCHANGED <<startTS, lock, minCommit, write, result, acked,
                  seen, decided, rts, wait, ignore, access, reads>>
  BY DEF SendCommitPrimary, storeVars, resolverVars, readerVars
<1>4. TypeOK'
  BY <1>1, <1>2, <1>3 DEF TypeOK, StoreTypeOK, Phase
<1>5. \A u \in Txn : OutcomeOf(u)' = OutcomeOf(u)
  BY <1>3 DEF OutcomeOf, InfoOf, StatusOf
<1>6. \A u \in Txn, c \in Nat : Dead(u, c)' <=> Dead(u, c)
  BY <1>3 DEF Dead, CommitsOf, InfoOf
<1>7. Traces'
  BY <1>1, <1>2, <1>3 DEF IndInv, Traces, TypeOK
<1>8. WellFormed'
  BY <1>1, <1>2, <1>3 DEF IndInv, WellFormed, Record
<1>9. UniqueTS'
  <2>1. \A u \in Txn : \A c \in Timestamps(u) : c \in Nat /\ c <= tso
    BY <1>1 DEF IndInv, Traces, Timestamps
  <2>2. \A u \in Txn : u # t => Timestamps(u)' = Timestamps(u)
    BY <1>1, <1>2, <1>3 DEF Timestamps
  <2>3. Timestamps(t)' = Timestamps(t) \cup {tso + 1}
    BY <1>1, <1>2, <1>3 DEF Timestamps
  <2> QED
    BY <2>1, <2>2, <2>3, <1>1 DEF IndInv, UniqueTS
<1>10. OneRecord' /\ LockedIsOpen' /\ LockAfterCommits'
  BY <1>3 DEF IndInv, OneRecord, LockedIsOpen, LockAfterCommits
<1>11. PrimaryDecides'
  BY <1>1, <1>3, <1>5 DEF IndInv, PrimaryDecides, StatusOf, Record
<1>12. AckedHolds'
  BY <1>1, <1>2, <1>3 DEF IndInv, AckedHolds, InfoOf
<1>13. ClientKnows'
  <2>1. ASSUME NEW u \in Txn, u # t
        PROVE  /\ phase'[u] = phase[u] /\ commitReq'[u] = commitReq[u]
               /\ commitTS'[u] = commitTS[u]
    BY <2>1, <1>1, <1>2
  <2>2. /\ phase'[t] = "commit" /\ commitTS'[t] = tso + 1
        /\ commitReq'[t] = commitReq[t] \cup {tso + 1}
    BY <1>1, <1>2
  <2>3. \A u \in Txn : \A c \in commitReq[u] : c \in Nat
    BY <1>1
  <2>4. result[t] = "none"
    BY DEF IndInv, ClientKnows
  <2> QED
    BY <2>1, <2>2, <2>3, <2>4, <1>3, <1>5, <1>6 DEF IndInv, ClientKnows
<1> QED
  BY <1>1, <1>2, <1>4, <1>7, <1>8, <1>9, <1>10, <1>11, <1>12, <1>13 DEF IndInv

(* A step of the committer of t that neither touches the store nor takes a *)
(* timestamp: what remains to show is what it knows afterwards.            *)
LEMMA QuietClient ==
    ASSUME IndInv, TypeOK', NEW t \in Txn,
           UNCHANGED <<tso, startTS, storeVars, commitTS, resolverVars, readerVars>>,
           phase[t] # "idle", phase'[t] # "idle",
           \A u \in Txn : u # t =>
               /\ phase'[u] = phase[u] /\ result'[u] = result[u]
               /\ acked'[u] = acked[u] /\ commitReq'[u] = commitReq[u],
           commitReq'[t] \subseteq commitReq[t],
           \A w \in CommitsOf(t, Primary[t]) : w.commit \in commitReq'[t],
           acked'[t] = acked[t] \/
               \E k \in Keys[t] : lock[k] = t /\ acked'[t] = acked[t] \cup {k},
           commitReq'[t] # {} => acked'[t] = acked[t],
           phase'[t] \in {"idle", "prewrite", "commit"} <=> result'[t] = "none",
           result'[t] = "ok" <=> phase'[t] = "committed",
           phase'[t] = "prewrite" => commitReq'[t] = {},
           phase'[t] = "commit" =>
               phase[t] = "commit" /\ commitReq'[t] = commitReq[t],
           phase'[t] = "committed" => commitTS[t] \in OutcomeOf(t) /\ commitTS[t] > 0,
           phase'[t] = "cleaned" => 0 \in OutcomeOf(t),
           result'[t] = "error" => \A c \in commitReq'[t] : Dead(t, c)
    PROVE  IndInv'
<1>1. UNCHANGED <<tso, startTS, lock, minCommit, write, commitTS, seen, decided, wait>>
  BY DEF storeVars, resolverVars, readerVars
<1>2. TypeOK /\ write \in [Key -> SUBSET Record] /\ minCommit \in [Txn -> Nat]
      /\ commitReq \in [Txn -> SUBSET Nat]
  BY DEF IndInv, TypeOK, StoreTypeOK
<1>3. Quiet
  BY <1>1, <1>2 DEF Quiet
<1>4. ASSUME NEW k \in Key, NEW w \in write[k], w.type # "Rollback"
      PROVE  w.commit \in commitReq'[w.txn]
  <2>1. w \in Record /\ w.txn \in Txn
    BY <1>2 DEF Record
  <2>2. CASE w.txn # t
    BY <2>1, <2>2, <1>4 DEF IndInv, WellFormed
  <2>3. CASE w.txn = t
    <3>1. StatusOf(w) \in OutcomeOf(t) /\ StatusOf(w) = w.commit /\ w.commit # 0
      BY <2>1, <2>3, <1>4 DEF IndInv, PrimaryDecides, StatusOf, Record
    <3>2. PICK p \in write[Primary[t]] : p.txn = t /\ w.commit = StatusOf(p)
      BY <3>1, OutcomeDef
    <3>3. p \in CommitsOf(t, Primary[t]) /\ p.commit = w.commit
      BY <3>1, <3>2 DEF CommitsOf, InfoOf, StatusOf
    <3> QED
      BY <3>3, <2>3
  <2> QED BY <2>2, <2>3
<1>5. /\ \A u \in seen' : phase[u] # "idle"
      /\ \A q \in Reader : wait'[q] = NoTxn \/ phase[wait'[q]] # "idle"
      /\ \A u \in Txn : phase[u] = "idle" => acked'[u] = {}
      /\ \A u \in Txn : decided'[u] \subseteq OutcomeOf(u)
  <2>1. seen \subseteq Txn /\ wait \in [Reader -> Txn \cup {NoTxn}]
    BY <1>2 DEF TypeOK
  <2>2. \A u \in Txn : phase[u] = "idle" =>
          acked[u] = {} /\ u \notin seen /\ \A q \in Reader : wait[q] # u
    BY DEF IndInv, Traces
  <2>3. \A u \in Txn : decided'[u] \subseteq OutcomeOf(u)
    BY <1>1 DEF IndInv, PrimaryDecides
  <2> QED
    BY <2>1, <2>2, <2>3, <1>1
<1>6. /\ Traces' /\ WellFormed' /\ UniqueTS' /\ OneRecord' /\ LockedIsOpen'
      /\ PrimaryDecides' /\ LockAfterCommits'
      /\ \A u \in Txn : OutcomeOf(u)' = OutcomeOf(u)
      /\ \A u \in Txn, c \in Nat : Dead(u, c) => Dead(u, c)'
  BY <1>3, <1>4, <1>5, QuietStore
<1>7. AckedHolds'
  <2>1. \A u \in Txn, k \in Key : InfoOf(u, k)' = InfoOf(u, k)
    BY <1>1 DEF InfoOf
  <2> QED
    BY <2>1, <1>1, <1>2 DEF IndInv, AckedHolds, TypeOK
<1>8. ClientKnows'
  <2>1. \A u \in Txn : \A c \in commitReq[u] : c \in Nat
    BY <1>2
  <2> QED
    BY <2>1, <1>1, <1>6 DEF IndInv, ClientKnows
<1> QED
  BY <1>1, <1>6, <1>7, <1>8 DEF IndInv

(* What a lock or a record on the primary says about commit versions. *)
LEMMA PrimaryFacts ==
    ASSUME IndInv, NEW t \in Txn
    PROVE  /\ CommittedOn(t, Primary[t]) => \E c \in commitReq[t] :
                 c > 0 /\ c \in OutcomeOf(t)
                 /\ \E w \in CommitsOf(t, Primary[t]) : w.commit = c
           /\ RolledBackOn(t, Primary[t]) => 0 \in OutcomeOf(t)
           /\ \A w \in CommitsOf(t, Primary[t]) : w.commit \in commitReq[t]
           /\ (RolledBackOn(t, Primary[t]) /\ lock[Primary[t]] # t) =>
                 \A c \in commitReq[t] : Dead(t, c)
<1>1. write[Primary[t]] \subseteq Record
  BY DEF IndInv, TypeOK, StoreTypeOK
<1>2. ASSUME NEW w \in CommitsOf(t, Primary[t])
      PROVE  /\ w \in write[Primary[t]] /\ w.txn = t /\ w.type # "Rollback"
             /\ w.commit \in commitReq[t] /\ w.commit > 0 /\ w.commit \in OutcomeOf(t)
  BY <1>1, <1>2, OutcomeDef DEF CommitsOf, InfoOf, IndInv, WellFormed, Record, StatusOf
<1>3. ASSUME NEW w \in RollbacksOf(t, Primary[t])
      PROVE  w \in write[Primary[t]] /\ w.txn = t /\ w.type = "Rollback" /\ 0 \in OutcomeOf(t)
  BY <1>1, <1>3, OutcomeDef DEF RollbacksOf, InfoOf, StatusOf
<1>4. RolledBackOn(t, Primary[t]) => CommitsOf(t, Primary[t]) = {}
  BY <1>2, <1>3 DEF RolledBackOn, IndInv, OneRecord
<1> QED
  BY <1>2, <1>3, <1>4 DEF CommittedOn, RolledBackOn, Dead

(* The committer's answers, errors and returns. *)
ClientStep(t) ==
    \/ \E k \in Key : PrewriteSucceed(t, k)
    \/ PrewriteFail(t) \/ CommitPrimarySucceed(t) \/ CommitPrimaryExpiredFail(t)
    \/ CommitPrimaryNotFound(t) \/ CommitPrimaryRPCError(t) \/ CommitUndetermined(t)
    \/ CommitRegionErrorFail(t) \/ CommitUndeterminedResult(t)
    \/ CleanupPrimarySucceed(t) \/ CleanupPrimaryCommitted(t)

LEMMA ClientStepInv ==
    ASSUME IndInv, NEW t \in Txn, ClientStep(t)
    PROVE  IndInv'
<1>1. /\ phase \in [Txn -> Phase] /\ result \in [Txn -> Result]
      /\ acked \in [Txn -> SUBSET Key] /\ commitReq \in [Txn -> SUBSET Nat]
      /\ undet \in [Txn -> BOOLEAN] /\ TypeOK
      /\ minCommit \in [Txn -> Nat] /\ commitTS \in [Txn -> Nat]
  BY DEF IndInv, TypeOK, StoreTypeOK
<1>2. /\ \A w \in CommitsOf(t, Primary[t]) : w.commit \in commitReq[t]
      /\ lock[Primary[t]] = t => CommitsOf(t, Primary[t]) = {}
  BY PrimaryFacts DEF IndInv, LockedIsOpen, CommitsOf, InfoOf
<1>3. /\ phase[t] \in {"idle", "prewrite", "commit"} <=> result[t] = "none"
      /\ result[t] = "ok" <=> phase[t] = "committed"
      /\ phase[t] = "prewrite" => commitReq[t] = {}
      /\ phase[t] = "commit" =>
           /\ commitTS[t] \in commitReq[t]
           /\ \A c \in commitReq[t] : c # commitTS[t] => Dead(t, c)
      /\ phase[t] = "committed" => commitTS[t] \in OutcomeOf(t) /\ commitTS[t] > 0
      /\ phase[t] = "cleaned" => 0 \in OutcomeOf(t)
      /\ result[t] = "error" => \A c \in commitReq[t] : Dead(t, c)
  BY DEF IndInv, ClientKnows
<1>4. CASE \E k \in Key : PrewriteSucceed(t, k)
  <2>1. PICK k \in Key : PrewriteSucceed(t, k)
    BY <1>4
  <2>2. TypeOK'
    BY <2>1, <1>1 DEF TypeOK, StoreTypeOK, PrewriteSucceed, storeVars, resolverVars, readerVars
  <2> QED
    BY <2>1, <2>2, <1>1, <1>2, <1>3, QuietClient DEF PrewriteSucceed
<1>5. CASE PrewriteFail(t)
  <2>1. TypeOK'
    BY <1>5, <1>1 DEF TypeOK, StoreTypeOK, PrewriteFail, Fail, Phase, Result,
                      storeVars, resolverVars, readerVars
  <2> QED
    BY <2>1, <1>5, <1>1, <1>2, <1>3, QuietClient DEF PrewriteFail, Fail
<1>6. CASE CommitPrimarySucceed(t)
  <2>1. TypeOK'
    BY <1>6, <1>1 DEF TypeOK, StoreTypeOK, CommitPrimarySucceed, Phase, Result,
                      storeVars, resolverVars, readerVars
  <2>2. commitTS[t] \in OutcomeOf(t) /\ commitTS[t] > 0
    <3>1. PICK c \in commitReq[t] : /\ c > 0 /\ c \in OutcomeOf(t)
                                    /\ \E w \in CommitsOf(t, Primary[t]) : w.commit = c
      BY <1>6, PrimaryFacts DEF CommitPrimarySucceed
    <3>2. c = commitTS[t]
      BY <3>1, <1>6, <1>3 DEF CommitPrimarySucceed, Dead
    <3> QED
      BY <3>1, <3>2
  <2> QED
    BY <2>1, <2>2, <1>6, <1>1, <1>2, <1>3, QuietClient DEF CommitPrimarySucceed
<1>7. CASE CommitPrimaryExpiredFail(t)
  <2>1. TypeOK'
    BY <1>7, <1>1 DEF TypeOK, StoreTypeOK, CommitPrimaryExpiredFail, Fail, Phase, Result,
                      storeVars, resolverVars, readerVars
  <2>2. \A c \in commitReq[t] : Dead(t, c)
    BY <1>7, <1>2, <1>3 DEF CommitPrimaryExpiredFail, CommitTSExpired, Dead
  <2> QED
    BY <2>1, <2>2, <1>7, <1>1, <1>2, <1>3, QuietClient DEF CommitPrimaryExpiredFail, Fail
<1>8. CASE CommitPrimaryNotFound(t)
  <2>1. TypeOK'
    BY <1>8, <1>1 DEF TypeOK, StoreTypeOK, CommitPrimaryNotFound, Fail, Phase, Result,
                      storeVars, resolverVars, readerVars
  <2>2. \A c \in commitReq[t] : Dead(t, c)
    BY <1>8 DEF CommitPrimaryNotFound, TxnNotFound, CommittedOn, Dead
  <2> QED
    BY <2>1, <2>2, <1>8, <1>1, <1>2, <1>3, QuietClient DEF CommitPrimaryNotFound, Fail
<1>9. CASE CommitPrimaryRPCError(t)
  <2>1. TypeOK'
    BY <1>9, <1>1 DEF TypeOK, StoreTypeOK, CommitPrimaryRPCError,
                      storeVars, resolverVars, readerVars
  <2> QED
    BY <2>1, <1>9, <1>1, <1>2, <1>3, QuietClient DEF CommitPrimaryRPCError
<1>10. CASE CommitUndetermined(t)
  <2>1. TypeOK'
    BY <1>10, <1>1 DEF TypeOK, StoreTypeOK, CommitUndetermined, Phase, Result,
                       storeVars, resolverVars, readerVars
  <2> QED
    BY <2>1, <1>10, <1>1, <1>2, <1>3, QuietClient DEF CommitUndetermined
<1>11. CASE CommitRegionErrorFail(t)
  <2>1. TypeOK'
    BY <1>11, <1>1 DEF TypeOK, StoreTypeOK, CommitRegionErrorFail, Fail, Phase, Result,
                       storeVars, resolverVars, readerVars
  <2>2. commitReq'[t] = commitReq[t] \ {commitTS[t]}
    BY <1>11, <1>1 DEF CommitRegionErrorFail
  <2>3. \A w \in CommitsOf(t, Primary[t]) : w.commit \in commitReq'[t]
    BY <2>2, <1>11, <1>2 DEF CommitRegionErrorFail
  <2>4. \A c \in commitReq'[t] : Dead(t, c)
    BY <2>2, <1>11, <1>3 DEF CommitRegionErrorFail
  <2>5. /\ phase'[t] = "cleanup" /\ result'[t] = "error" /\ phase[t] = "commit"
        /\ UNCHANGED <<tso, startTS, storeVars, commitTS, acked, resolverVars, readerVars>>
        /\ \A u \in Txn : u # t => phase'[u] = phase[u] /\ result'[u] = result[u]
                                   /\ commitReq'[u] = commitReq[u]
    BY <1>11, <1>1 DEF CommitRegionErrorFail, Fail
  <2> QED
    BY <2>1, <2>2, <2>3, <2>4, <2>5, QuietClient
<1>12. CASE CommitUndeterminedResult(t)
  <2>1. TypeOK'
    BY <1>12, <1>1 DEF TypeOK, StoreTypeOK, CommitUndeterminedResult, Fail, Phase, Result,
                       storeVars, resolverVars, readerVars
  <2> QED
    BY <2>1, <1>12, <1>1, <1>2, <1>3, QuietClient DEF CommitUndeterminedResult, Fail
<1>13. CASE CleanupPrimarySucceed(t)
  <2>1. TypeOK'
    BY <1>13, <1>1 DEF TypeOK, StoreTypeOK, CleanupPrimarySucceed, Phase,
                       storeVars, resolverVars, readerVars
  <2>2. 0 \in OutcomeOf(t)
    BY <1>13, PrimaryFacts DEF CleanupPrimarySucceed
  <2> QED
    BY <2>1, <2>2, <1>13, <1>1, <1>2, <1>3, QuietClient DEF CleanupPrimarySucceed
<1>14. CASE CleanupPrimaryCommitted(t)
  <2>1. TypeOK'
    BY <1>14, <1>1 DEF TypeOK, StoreTypeOK, CleanupPrimaryCommitted, Phase,
                       storeVars, resolverVars, readerVars
  <2> QED
    BY <2>1, <1>14, <1>1, <1>2, <1>3, QuietClient DEF CleanupPrimaryCommitted
<1> QED
  BY <1>4, <1>5, <1>6, <1>7, <1>8, <1>9, <1>10, <1>11, <1>12, <1>13, <1>14 DEF ClientStep

LEMMA TakeCommitTSInv ==
    ASSUME IndInv, NEW t \in Txn, GetCommitTS(t) \/ CommitPrimaryExpired(t)
    PROVE  IndInv'
<1>1. SendCommitPrimary(t) /\ phase[t] \in {"prewrite", "commit"}
  BY DEF GetCommitTS, CommitPrimaryExpired
<1>2. CASE GetCommitTS(t)
  BY <1>1, <1>2, SendCommitInv DEF GetCommitTS, IndInv, ClientKnows
<1>3. CASE CommitPrimaryExpired(t)
  <2>1. /\ commitTS[t] \in commitReq[t]
        /\ \A c \in commitReq[t] : c # commitTS[t] => Dead(t, c)
    BY <1>3 DEF CommitPrimaryExpired, IndInv, ClientKnows
  <2>2. acked[t] = Keys[t]
    BY <2>1 DEF IndInv, AckedHolds
  <2>3. Dead(t, commitTS[t])
    BY <1>3 DEF CommitPrimaryExpired, CommitTSExpired, Dead, CommitsOf, InfoOf,
                IndInv, LockedIsOpen
  <2> QED
    BY <1>1, <2>1, <2>2, <2>3, SendCommitInv
<1> QED
  BY <1>2, <1>3

-----------------------------------------------------------------------------
(* The steps that put a record. *)

LEMMA LegalRollback ==
    ASSUME IndInv, NEW t \in Txn, NEW k \in Keys[t],
           phase[t] # "idle", InfoOf(t, k) = {},
           k # Primary[t] => 0 \in OutcomeOf(t)
    PROVE  Legal(t, k, RollbackRecord(t)) /\ StatusOf(RollbackRecord(t)) = 0
<1>1. startTS[t] \in Nat \ {0}
  BY DEF IndInv, TypeOK, Traces
<1>2. RollbackRecord(t) \in Record
  BY <1>1 DEF RollbackRecord, Record, WriteType
<1> QED
  BY <1>2 DEF Legal, RollbackRecord, StatusOf

LEMMA LegalCommit ==
    ASSUME IndInv, NEW t \in Txn, NEW k \in Keys[t], NEW c \in commitReq[t],
           lock[k] = t,
           k # Primary[t] => c \in OutcomeOf(t),
           k = Primary[t] => minCommit[t] <= c
    PROVE  Legal(t, k, CommitRecord(t, k, c))
<1>1. c \in Nat \ {0} /\ k \in Key
  BY DEF IndInv, TypeOK, Traces
<1>2. /\ CommitRecord(t, k, c) \in Record /\ CommitRecord(t, k, c).type # "Rollback"
      /\ CommitRecord(t, k, c).txn = t /\ CommitRecord(t, k, c).commit = c
      /\ CommitRecord(t, k, c).type = "Put" => k \notin LockOnly[t]
      /\ CommitRecord(t, k, c).type = "Lock" => k \in LockOnly[t]
  BY <1>1 DEF CommitRecord, Record, WriteType
<1>3. InfoOf(t, k) = {} /\ phase[t] # "idle"
  BY <1>1 DEF InfoOf, IndInv, LockedIsOpen, WellFormed
<1> QED
  BY <1>2, <1>3 DEF Legal, StatusOf

(* A status other than 0 in the outcome is a commit version that was sent. *)
LEMMA OutcomeSent ==
    ASSUME IndInv, NEW t \in Txn, NEW s \in OutcomeOf(t)
    PROVE  /\ lock[Primary[t]] # t
           /\ phase[t] # "idle"
           /\ s # 0 => s \in commitReq[t]
<1>1. PICK w \in write[Primary[t]] : w.txn = t /\ s = StatusOf(w)
  BY OutcomeDef
<1> QED
  BY <1>1 DEF IndInv, WellFormed, LockedIsOpen, StatusOf

LEMMA RecordType ==
    ASSUME IndInv, NEW t \in Txn, NEW k \in Key, NEW r \in Record, RecordStep(t, k, r)
    PROVE  StoreTypeOK'
  BY DEF IndInv, TypeOK, StoreTypeOK, RecordStep, PutRecord

(* The store's changes as record steps. *)
LEMMA CommitLockStep ==
    ASSUME TypeOK, NEW t \in Txn, NEW k \in Key, NEW c, lock[k] = t,
           commitLock(t, k, c), UNCHANGED <<tso, startTS, clientVars, minCommit>>
    PROVE  RecordStep(t, k, CommitRecord(t, k, c))
  BY DEF commitLock, RecordStep

LEMMA RollbackLockStep ==
    ASSUME TypeOK, NEW t \in Txn, NEW k \in Key, lock[k] = t,
           rollbackLock(t, k), UNCHANGED <<tso, startTS, clientVars, minCommit>>
    PROVE  RecordStep(t, k, RollbackRecord(t))
  BY DEF rollbackLock, writeRollback, RecordStep

LEMMA WriteRollbackStep ==
    ASSUME TypeOK, NEW t \in Txn, NEW k \in Key, lock[k] # t, UNCHANGED lock,
           writeRollback(t, k), UNCHANGED <<tso, startTS, clientVars, minCommit>>
    PROVE  RecordStep(t, k, RollbackRecord(t))
  BY DEF writeRollback, RecordStep

(* Committers' and resolvers' records: the record is legal and nothing     *)
(* else changes.                                                           *)
WriteStep(t, k) ==
    \/ \E c \in 1 .. tso : k = Primary[t] /\ CommitPrimary(t, c)
    \/ CommitSecondary(t, k) \/ BatchRollback(t, k) \/ ResolveLock(t, k)

LEMMA WriteStepLegal ==
    ASSUME IndInv, NEW t \in Txn, NEW k \in Key, WriteStep(t, k)
    PROVE  /\ \E r \in Record : Legal(t, k, r) /\ RecordStep(t, k, r)
           /\ UNCHANGED <<resolverVars, readerVars>>
<1>1. TypeOK /\ minCommit \in [Txn -> Nat] /\ commitReq \in [Txn -> SUBSET Nat]
      /\ decided \in [Txn -> SUBSET Nat] /\ commitTS \in [Txn -> Nat]
  BY DEF IndInv, TypeOK, StoreTypeOK
<1>2. lock[k] = t => InfoOf(t, k) = {} /\ phase[t] # "idle" /\ k \in Keys[t]
  BY DEF InfoOf, IndInv, LockedIsOpen, WellFormed
<1>3. CASE \E c \in 1 .. tso : k = Primary[t] /\ CommitPrimary(t, c)
  <2>1. PICK c \in 1 .. tso : k = Primary[t] /\ CommitPrimary(t, c)
    BY <1>3
  <2>2. c \in commitReq[t] /\ lock[k] = t /\ minCommit[t] <= c
    BY <2>1, <1>1 DEF CommitPrimary, commitKey, CommitTSExpired
  <2>3. Legal(t, k, CommitRecord(t, k, c))
    BY <2>1, <2>2, LegalCommit
  <2>4. RecordStep(t, k, CommitRecord(t, k, c))
    BY <2>1, <2>2, <1>1, CommitLockStep DEF CommitPrimary, commitKey
  <2> QED
    BY <2>1, <2>3, <2>4 DEF CommitPrimary, Legal
<1>4. CASE CommitSecondary(t, k)
  <2>1. commitTS[t] \in OutcomeOf(t) /\ commitTS[t] # 0 /\ lock[k] = t
        /\ k \in Keys[t] /\ k # Primary[t]
    BY <1>4, <1>1 DEF CommitSecondary, commitKey, IndInv, ClientKnows
  <2>2. commitTS[t] \in commitReq[t]
    BY <2>1, OutcomeSent
  <2>3. Legal(t, k, CommitRecord(t, k, commitTS[t]))
    BY <2>1, <2>2, LegalCommit
  <2>4. RecordStep(t, k, CommitRecord(t, k, commitTS[t]))
    BY <1>4, <2>1, <1>1, CommitLockStep DEF CommitSecondary, commitKey
  <2> QED
    BY <1>4, <2>3, <2>4 DEF CommitSecondary, Legal
<1>5. CASE BatchRollback(t, k)
  <2>1. /\ k \in Keys[t] /\ phase[t] # "idle" /\ InfoOf(t, k) = {}
        /\ k # Primary[t] => 0 \in OutcomeOf(t)
    BY <1>5, <1>2 DEF BatchRollback, rollbackKey, IndInv, ClientKnows
  <2>2. Legal(t, k, RollbackRecord(t))
    BY <2>1, LegalRollback
  <2>3. RecordStep(t, k, RollbackRecord(t))
    <3>1. CASE lock[k] = t
      BY <1>5, <1>1, <3>1, RollbackLockStep DEF BatchRollback, rollbackKey
    <3>2. CASE lock[k] # t
      BY <1>5, <1>1, <3>2, WriteRollbackStep DEF BatchRollback, rollbackKey
    <3> QED BY <3>1, <3>2
  <2> QED
    BY <1>5, <2>2, <2>3 DEF BatchRollback, Legal
<1>6. CASE ResolveLock(t, k)
  <2>1. PICK s \in decided[t] : resolveLockOn(t, k, s)
    BY <1>6 DEF ResolveLock
  <2>2. s \in OutcomeOf(t) /\ s \in Nat /\ lock[k] = t
    BY <2>1, <1>1 DEF IndInv, PrimaryDecides, resolveLockOn
  <2>3. k # Primary[t]
    BY <2>2, OutcomeSent
  <2>4. CASE s > 0
    <3>1. s \in commitReq[t]
      BY <2>2, <2>4, OutcomeSent
    <3>2. Legal(t, k, CommitRecord(t, k, s))
      BY <2>2, <2>3, <3>1, <1>2, LegalCommit
    <3>3. RecordStep(t, k, CommitRecord(t, k, s))
      BY <1>6, <2>1, <2>2, <2>4, <1>1, CommitLockStep DEF ResolveLock, resolveLockOn
    <3> QED
      BY <1>6, <3>2, <3>3 DEF ResolveLock, Legal
  <2>5. CASE s = 0
    <3>1. Legal(t, k, RollbackRecord(t))
      BY <2>2, <2>5, <1>2, LegalRollback
    <3>2. RecordStep(t, k, RollbackRecord(t))
      BY <1>6, <2>1, <2>2, <2>5, <1>1, RollbackLockStep DEF ResolveLock, resolveLockOn
    <3> QED
      BY <1>6, <3>1, <3>2 DEF ResolveLock, Legal
  <2> QED
    BY <2>2, <2>4, <2>5
<1> QED
  BY <1>3, <1>4, <1>5, <1>6 DEF WriteStep

LEMMA KnownBegan ==
    ASSUME IndInv
    PROVE  /\ \A u \in seen : u \in Txn /\ phase[u] # "idle"
           /\ \A q \in Reader : wait[q] = NoTxn \/ (wait[q] \in Txn /\ phase[wait[q]] # "idle")
<1>1. seen \subseteq Txn /\ wait \in [Reader -> Txn \cup {NoTxn}]
  BY DEF IndInv, TypeOK
<1> QED
  BY <1>1 DEF IndInv, Traces

LEMMA WriteStepInv ==
    ASSUME IndInv, NEW t \in Txn, NEW k \in Key, WriteStep(t, k)
    PROVE  IndInv'
<1>1. PICK r \in Record : Legal(t, k, r) /\ RecordStep(t, k, r)
  BY WriteStepLegal
<1>2. UNCHANGED <<seen, decided, rts, wait, ignore, access, reads>>
  BY WriteStepLegal DEF resolverVars, readerVars
<1>3. TypeOK'
  <2>1. StoreTypeOK'
    BY <1>1, RecordType
  <2>2. UNCHANGED <<tso, startTS, phase, result, acked, commitTS, undet, commitReq>>
    BY <1>1 DEF RecordStep, clientVars
  <2> QED
    BY <1>2, <2>1, <2>2 DEF IndInv, TypeOK
<1>4. /\ \A u \in seen' : phase[u] # "idle"
      /\ \A q \in Reader : wait'[q] = NoTxn \/ phase[wait'[q]] # "idle"
  BY <1>2, KnownBegan
<1> QED
  BY <1>1, <1>2, <1>3, <1>4, RecordInv

(* CheckTxnStatus that determines t, asked by a writer, GC or a reader. *)
LEMMA DeterminedInv ==
    ASSUME IndInv, NEW t \in Txn, phase[t] # "idle", StatusDetermined(t),
           UNCHANGED <<tso, startTS, clientVars, seen>>,
           rts' \in [Reader -> Nat],
           wait' \in [Reader -> Txn \cup {NoTxn}],
           \A q \in Reader : wait'[q] \in {NoTxn, wait[q]},
           ignore' \in [Reader -> SUBSET Txn], access' \in [Reader -> SUBSET Txn],
           UNCHANGED reads
    PROVE  /\ IndInv'
           /\ \/ UNCHANGED storeVars
              \/ \E r \in Record : Legal(t, Primary[t], r) /\ RecordStep(t, Primary[t], r)
<1>1. TypeOK /\ decided \in [Txn -> SUBSET Nat] /\ write \in [Key -> SUBSET Record]
      /\ minCommit \in [Txn -> Nat]
  BY DEF IndInv, TypeOK, StoreTypeOK
<1>2. UNCHANGED <<tso, startTS, phase, result, acked, commitTS, undet, commitReq, seen>>
  BY DEF clientVars
<1>3. /\ \A u \in seen' : phase[u] # "idle"
      /\ \A q \in Reader : wait'[q] = NoTxn \/ phase[wait'[q]] # "idle"
  BY <1>2, KnownBegan
<1>4. lock[Primary[t]] = t => InfoOf(t, Primary[t]) = {}
  BY DEF InfoOf, IndInv, LockedIsOpen
<1>5. CASE (StatusExpired(t) \/ StatusNotExistRollback(t)) /\ saveResolved(t, 0)
  <2>1. Legal(t, Primary[t], RollbackRecord(t)) /\ StatusOf(RollbackRecord(t)) = 0
    BY <1>4, <1>5, LegalRollback DEF StatusExpired, StatusNotExistRollback
  <2>2. RecordStep(t, Primary[t], RollbackRecord(t))
    BY <1>1, <1>5, RollbackLockStep, WriteRollbackStep DEF StatusExpired, StatusNotExistRollback
  <2>3. decided' = [decided EXCEPT ![t] = decided[t] \cup {0}]
    BY <1>5 DEF saveResolved
  <2>4. RollbackRecord(t) \in Record
    BY <2>1 DEF Legal
  <2>5. TypeOK'
    <3>1. StoreTypeOK'
      BY <2>2, <2>4, RecordType
    <3>2. decided' \in [Txn -> SUBSET Nat]
      BY <1>1, <2>3
    <3> QED
      BY <1>1, <1>2, <3>1, <3>2 DEF TypeOK
  <2>6. \A u \in Txn : decided'[u] \subseteq decided[u] \cup
            (IF u = t /\ Primary[t] = Primary[t] THEN {StatusOf(RollbackRecord(t))} ELSE {})
    BY <1>1, <2>1, <2>3
  <2>7. IndInv'
    BY <1>3, <2>1, <2>2, <2>5, <2>6, RecordInv
  <2> QED
    BY <2>1, <2>2, <2>4, <2>7
<1>6. ASSUME NEW s \in Nat, saveResolved(t, s), s \in OutcomeOf(t), UNCHANGED storeVars
      PROVE  IndInv'
  <2>1. decided' = [decided EXCEPT ![t] = decided[t] \cup {s}]
    BY <1>6 DEF saveResolved
  <2>2. UNCHANGED <<lock, minCommit, write>>
    BY <1>6 DEF storeVars
  <2>3. TypeOK'
    <3>1. decided' \in [Txn -> SUBSET Nat]
      BY <1>1, <2>1
    <3> QED
      BY <1>1, <1>2, <2>2, <3>1 DEF TypeOK, StoreTypeOK
  <2>4. Quiet
    BY <1>1, <1>2, <2>2 DEF Quiet
  <2>5. \A u \in Txn : decided'[u] \subseteq OutcomeOf(u)
    BY <1>1, <1>6, <2>1 DEF IndInv, PrimaryDecides
  <2>6. \A k \in Key : \A w \in write[k] :
            w.type # "Rollback" => w.commit \in commitReq'[w.txn]
    BY <1>2 DEF IndInv, WellFormed
  <2>7. \A u \in Txn : phase[u] = "idle" => acked'[u] = {}
    BY <1>2 DEF IndInv, Traces
  <2>8. /\ Traces' /\ WellFormed' /\ UniqueTS' /\ OneRecord' /\ LockedIsOpen'
        /\ PrimaryDecides' /\ LockAfterCommits'
        /\ \A u \in Txn : OutcomeOf(u)' = OutcomeOf(u)
        /\ \A u \in Txn, c \in Nat : Dead(u, c) => Dead(u, c)'
    BY <1>3, <2>3, <2>4, <2>5, <2>6, <2>7, QuietStore
  <2>9. AckedHolds'
    BY <1>2, <2>2 DEF IndInv, AckedHolds, InfoOf
  <2>10. ClientKnows'
    <3>1. \A u \in Txn : \A c \in commitReq[u] : c \in Nat
      BY <1>1 DEF TypeOK
    <3> QED
      BY <1>2, <2>8, <3>1 DEF IndInv, ClientKnows
  <2> QED
    BY <1>2, <2>3, <2>8, <2>9, <2>10 DEF IndInv
<1>7. CASE StatusRolledBack(t) /\ saveResolved(t, 0)
  BY <1>6, <1>7, PrimaryFacts DEF StatusRolledBack
<1>8. CASE \E c \in 1 .. tso : StatusCommitted(t, c) /\ saveResolved(t, c)
  <2>1. PICK c \in 1 .. tso : StatusCommitted(t, c) /\ saveResolved(t, c)
    BY <1>8
  <2>2. PICK w \in CommitsOf(t, Primary[t]) : w.commit = c
    BY <2>1 DEF StatusCommitted
  <2>3. c \in OutcomeOf(t) /\ c \in Nat
    BY <2>2, OutcomeDef DEF CommitsOf, InfoOf, StatusOf
  <2>4. UNCHANGED storeVars
    BY <2>1 DEF StatusCommitted
  <2> QED
    BY <1>6, <2>1, <2>3, <2>4
<1> QED
  BY <1>5, <1>7, <1>8 DEF StatusDetermined

-----------------------------------------------------------------------------
(* The remaining steps change neither a lock nor a record nor a committer. *)
LEMMA QuietOthers ==
    ASSUME IndInv, TypeOK', UNCHANGED <<tso, startTS, lock, write, clientVars, decided>>,
           \A t \in Txn : minCommit'[t] >= minCommit[t],
           \A t \in seen' : phase[t] # "idle",
           \A q \in Reader : wait'[q] = NoTxn \/ phase[wait'[q]] # "idle"
    PROVE  IndInv'
<1>1. UNCHANGED <<tso, startTS, lock, write, phase, result, acked, commitTS, undet,
                  commitReq, decided>>
  BY DEF clientVars
<1>2. Quiet
  BY <1>1 DEF Quiet
<1>3. /\ \A t \in Txn : decided'[t] \subseteq OutcomeOf(t)
      /\ \A t \in Txn : phase[t] = "idle" => acked'[t] = {}
      /\ \A k \in Key : \A w \in write[k] :
            w.type # "Rollback" => w.commit \in commitReq'[w.txn]
  BY <1>1 DEF IndInv, PrimaryDecides, Traces, WellFormed
<1>4. /\ Traces' /\ WellFormed' /\ UniqueTS' /\ OneRecord' /\ LockedIsOpen'
      /\ PrimaryDecides' /\ LockAfterCommits'
      /\ \A u \in Txn : OutcomeOf(u)' = OutcomeOf(u)
      /\ \A u \in Txn, c \in Nat : Dead(u, c) => Dead(u, c)'
  BY <1>2, <1>3, QuietStore
<1>5. AckedHolds'
  BY <1>1 DEF IndInv, AckedHolds, InfoOf
<1>6. ClientKnows'
  <2>1. \A u \in Txn : \A c \in commitReq[u] : c \in Nat
    BY DEF IndInv, TypeOK
  <2> QED
    BY <1>1, <1>4, <2>1 DEF IndInv, ClientKnows
<1> QED
  BY <1>1, <1>4, <1>5, <1>6 DEF IndInv

LEMMA PushGrows ==
    ASSUME TypeOK, NEW t \in Txn, NEW caller \in Nat, NEW cur \in Nat,
           StatusPushed(t, caller, cur)
    PROVE  /\ minCommit' \in [Txn -> Nat]
           /\ \A u \in Txn : minCommit'[u] >= minCommit[u]
           /\ UNCHANGED <<lock, write>>
  BY DEF TypeOK, StoreTypeOK, StatusPushed

(* Steps that only show a lock to somebody or push a minCommitTS. *)
OtherStep ==
    \/ \E t \in Txn, k \in Key : PrewriteLocked(t, k)
    \/ \E k \in Key : ScanLock(k)
    \/ \E t, u \in Txn, cur \in 0 .. tso : CheckTxnStatusPush(t, u, cur)

LEMMA OtherStepInv ==
    ASSUME IndInv, OtherStep
    PROVE  IndInv'
<1>1. /\ TypeOK /\ minCommit \in [Txn -> Nat] /\ seen \subseteq Txn
      /\ lock \in [Key -> Txn \cup {NoTxn}] /\ startTS \in [Txn -> Nat] /\ tso \in Nat
  BY DEF IndInv, TypeOK, StoreTypeOK
<1>2. ASSUME NEW k \in Key, lock[k] # NoTxn, seen' = seen \cup {lock[k]},
             UNCHANGED <<tso, startTS, storeVars, clientVars, decided, readerVars>>
      PROVE  IndInv'
  <2>1. UNCHANGED <<lock, minCommit, write, phase, result, acked, commitTS, undet,
                    commitReq, rts, wait, ignore, access, reads>>
    BY <1>2 DEF storeVars, clientVars, readerVars
  <2>2. TypeOK'
    BY <1>1, <1>2, <2>1 DEF TypeOK, StoreTypeOK
  <2>3. \A t \in seen' : phase[t] # "idle"
    BY <1>2, KnownBegan DEF IndInv, WellFormed
  <2>4. \A q \in Reader : wait'[q] = NoTxn \/ phase[wait'[q]] # "idle"
    BY <2>1, KnownBegan
  <2>5. \A t \in Txn : minCommit'[t] >= minCommit[t]
    BY <1>1, <2>1
  <2> QED
    BY <1>2, <2>1, <2>2, <2>3, <2>4, <2>5, QuietOthers
<1>3. CASE \E t \in Txn, k \in Key : PrewriteLocked(t, k)
  BY <1>2, <1>3 DEF PrewriteLocked
<1>4. CASE \E k \in Key : ScanLock(k)
  BY <1>2, <1>4 DEF ScanLock
<1>5. CASE \E t, u \in Txn, cur \in 0 .. tso : CheckTxnStatusPush(t, u, cur)
  <2>1. PICK t \in Txn, u \in Txn, cur \in 0 .. tso : CheckTxnStatusPush(t, u, cur)
    BY <1>5
  <2>2. startTS[u] \in Nat /\ cur \in Nat /\ StatusPushed(t, startTS[u], cur)
    BY <1>1, <2>1 DEF CheckTxnStatusPush
  <2>3. /\ minCommit' \in [Txn -> Nat]
        /\ \A v \in Txn : minCommit'[v] >= minCommit[v]
        /\ UNCHANGED <<lock, write>>
    BY <1>1, <2>2, PushGrows
  <2>4. UNCHANGED <<tso, startTS, phase, result, acked, commitTS, undet, commitReq,
                    seen, decided, rts, wait, ignore, access, reads>>
    BY <2>1 DEF CheckTxnStatusPush, clientVars, resolverVars, readerVars
  <2>5. TypeOK'
    BY <1>1, <2>3, <2>4 DEF TypeOK, StoreTypeOK
  <2>6. /\ \A v \in seen' : phase[v] # "idle"
        /\ \A q \in Reader : wait'[q] = NoTxn \/ phase[wait'[q]] # "idle"
    BY <2>4, KnownBegan
  <2>7. UNCHANGED clientVars
    BY <2>4 DEF clientVars
  <2> QED
    BY <2>3, <2>4, <2>5, <2>6, <2>7, QuietOthers
<1> QED
  BY <1>3, <1>4, <1>5 DEF OtherStep

-----------------------------------------------------------------------------
(* Snapshot readers. *)

(* A non-empty set of versions below a bound has a largest one. *)
LEMMA LargestVersion ==
    ASSUME NEW ts \in Nat, NEW S, S # {}, \A w \in S : w.commit \in Nat /\ w.commit <= ts
    PROVE  \E w \in S : \A x \in S : x.commit <= w.commit
<1> DEFINE below == {ts - w.commit : w \in S}
<1>1. below \subseteq Nat /\ below # {}
  OBVIOUS
<1>2. PICK d \in below : \A e \in below : ~(<<e, d>> \in OpToRel(<, Nat))
  BY <1>1, WFMin, NatLessThanWellFounded, Zenon
<1>3. \A e \in below : d <= e
  <2>1. ASSUME NEW e \in Nat, NEW f \in Nat, e < f PROVE <<e, f>> \in OpToRel(<, Nat)
    BY <2>1 DEF OpToRel
  <2>2. \A e \in below : ~(e < d)
    BY <1>1, <1>2, <2>1, Zenon
  <2>3. \A e \in Nat, f \in Nat : ~(e < f) => f <= e
    OBVIOUS
  <2> HIDE DEF below
  <2> QED
    BY <1>1, <2>2, <2>3, Zenon
<1>4. PICK w \in S : d = ts - w.commit
  OBVIOUS
<1>5. \A x \in S : d <= ts - x.commit
  BY <1>3
<1> QED
  BY <1>4, <1>5

LEMMA ReaderInv ==
    ASSUME IndInv, NEW r \in Reader, ReaderNext(r)
    PROVE  /\ IndInv'
           /\ UNCHANGED result
           /\ \/ UNCHANGED <<lock, write>>
              \/ \E t \in Txn : \E w \in Record :
                    Legal(t, Primary[t], w) /\ RecordStep(t, Primary[t], w)
<1>1. /\ TypeOK /\ minCommit \in [Txn -> Nat] /\ lock \in [Key -> Txn \cup {NoTxn}]
      /\ write \in [Key -> SUBSET Record] /\ tso \in Nat
      /\ rts \in [Reader -> Nat] /\ wait \in [Reader -> Txn \cup {NoTxn}]
      /\ ignore \in [Reader -> SUBSET Txn] /\ access \in [Reader -> SUBSET Txn]
      /\ reads \in [Reader -> SUBSET (Nat \X Key \X (Txn \cup {NoTxn}))]
  BY DEF IndInv, TypeOK, StoreTypeOK
<1>2. ASSUME UNCHANGED <<tso, startTS, lock, write, clientVars, resolverVars>>,
             minCommit' \in [Txn -> Nat],
             \A t \in Txn : minCommit'[t] >= minCommit[t],
             rts' \in [Reader -> Nat],
             wait' \in [Reader -> Txn \cup {NoTxn}],
             \A q \in Reader : wait'[q] = NoTxn \/ phase[wait'[q]] # "idle",
             ignore' \in [Reader -> SUBSET Txn], access' \in [Reader -> SUBSET Txn],
             reads' \in [Reader -> SUBSET (Nat \X Key \X (Txn \cup {NoTxn}))]
      PROVE  IndInv' /\ UNCHANGED result /\ UNCHANGED <<lock, write>>
  <2>1. UNCHANGED <<tso, startTS, lock, write, phase, result, acked, commitTS, undet,
                    commitReq, seen, decided>>
    BY <1>2 DEF clientVars, resolverVars
  <2>2. TypeOK'
    BY <1>1, <1>2, <2>1 DEF TypeOK, StoreTypeOK
  <2>3. \A u \in seen' : phase[u] # "idle"
    BY <2>1, KnownBegan
  <2> QED
    BY <1>2, <2>1, <2>2, <2>3, QuietOthers
<1>3. \A q \in Reader : wait[q] = NoTxn \/ (wait[q] \in Txn /\ phase[wait[q]] # "idle")
  BY KnownBegan
<1>4. \A t \in Txn : minCommit[t] >= minCommit[t]
  BY <1>1
<1>5. CASE StartRead(r)
  <2>1. rts' \in [Reader -> Nat]
    BY <1>1, <1>5 DEF StartRead
  <2> QED
    BY <1>1, <1>2, <1>3, <1>4, <1>5, <2>1 DEF StartRead, storeVars
<1>6. CASE \E ts \in 1 .. tso : SetSnapshotTS(r, ts)
  <2>1. rts' \in [Reader -> Nat] /\ ignore' \in [Reader -> SUBSET Txn]
    BY <1>1, <1>6 DEF SetSnapshotTS
  <2> QED
    BY <1>1, <1>2, <1>3, <1>4, <1>6, <2>1 DEF SetSnapshotTS, storeVars
<1>7. CASE \E k \in Key : Read(r, k)
  <2>1. PICK k \in Key : Read(r, k)
    BY <1>7
  <2>2. ASSUME NEW x, x \in Puts(k, rts[r]) PROVE x.txn \in Txn
    BY <1>1, <2>2 DEF Puts, Record
  <2>3. ValueAt(k, rts[r]) \in Txn \cup {NoTxn}
    <3>1. CASE Puts(k, rts[r]) = {}
      BY <3>1 DEF ValueAt
    <3>2. CASE Puts(k, rts[r]) # {}
      <4> DEFINE top == CHOOSE w \in Puts(k, rts[r]) :
                            \A x \in Puts(k, rts[r]) : x.commit <= w.commit
      <4>1. \E w \in Puts(k, rts[r]) : \A x \in Puts(k, rts[r]) : x.commit <= w.commit
        <5>1. \A w \in Puts(k, rts[r]) : w.commit \in Nat /\ w.commit <= rts[r]
          BY <1>1 DEF Puts, Record
        <5> QED
          BY <1>1, <3>2, <5>1, LargestVersion
      <4>2. top \in Puts(k, rts[r])
        BY <4>1
      <4> QED
        BY <3>2, <2>2, <4>2 DEF ValueAt
    <3> QED BY <3>1, <3>2
  <2> QED
    BY <1>1, <1>2, <1>3, <1>4, <2>1, <2>3 DEF Read, storeVars
<1>8. CASE \E k \in Key : ReadLocked(r, k)
  <2>1. PICK k \in Key : ReadLocked(r, k)
    BY <1>8
  <2>2. lock[k] \in Txn /\ phase[lock[k]] # "idle"
    BY <1>1, <2>1 DEF ReadLocked, LockBlocks, IndInv, WellFormed
  <2>3. /\ wait' \in [Reader -> Txn \cup {NoTxn}]
        /\ \A q \in Reader : wait'[q] = NoTxn \/ phase[wait'[q]] # "idle"
    BY <1>1, <1>3, <2>1, <2>2 DEF ReadLocked
  <2> QED
    BY <1>1, <1>2, <1>4, <2>1, <2>3 DEF ReadLocked, storeVars
<1>9. ASSUME NEW t \in Txn, NEW s, wait[r] = t, Classify(r, t, s)
      PROVE  /\ wait' \in [Reader -> Txn \cup {NoTxn}]
             /\ \A q \in Reader : wait'[q] \in {NoTxn, wait[q]}
             /\ ignore' \in [Reader -> SUBSET Txn] /\ access' \in [Reader -> SUBSET Txn]
  <2>1. /\ wait' \in [Reader -> Txn \cup {NoTxn}]
        /\ \A q \in Reader : wait'[q] \in {NoTxn, wait[q]}
    BY <1>1, <1>9 DEF Classify
  <2>2. ignore' \in [Reader -> SUBSET Txn] /\ access' \in [Reader -> SUBSET Txn]
    <3>1. CASE s = 0 \/ s > rts[r]
      BY <1>1, <1>9, <3>1 DEF Classify
    <3>2. CASE ~(s = 0 \/ s > rts[r])
      BY <1>1, <1>9, <3>2 DEF Classify
    <3> QED BY <3>1, <3>2
  <2> QED
    BY <2>1, <2>2
<1>10. CASE \E t \in Txn : ReaderCheckDetermined(r, t)
  <2>1. PICK t \in Txn : ReaderCheckDetermined(r, t)
    BY <1>10
  <2>2. PICK s \in decided'[t] : Classify(r, t, s)
    BY <2>1 DEF ReaderCheckDetermined
  <2>3. phase[t] # "idle" /\ wait[r] = t
    BY <1>3, <2>1 DEF ReaderCheckDetermined
  <2>4. /\ wait' \in [Reader -> Txn \cup {NoTxn}]
        /\ \A q \in Reader : wait'[q] \in {NoTxn, wait[q]}
        /\ ignore' \in [Reader -> SUBSET Txn] /\ access' \in [Reader -> SUBSET Txn]
    BY <1>9, <2>2, <2>3
  <2>5. /\ StatusDetermined(t)
        /\ UNCHANGED <<tso, startTS, clientVars, seen, rts, reads>>
    BY <2>1 DEF ReaderCheckDetermined
  <2>6. /\ IndInv'
        /\ \/ UNCHANGED storeVars
           \/ \E w \in Record : Legal(t, Primary[t], w) /\ RecordStep(t, Primary[t], w)
    BY <1>1, <2>3, <2>4, <2>5, DeterminedInv
  <2> QED
    BY <2>5, <2>6 DEF clientVars, storeVars
<1>11. CASE \E t \in Txn : ReaderCheckCached(r, t)
  <2>1. PICK t \in Txn : ReaderCheckCached(r, t)
    BY <1>11
  <2>2. PICK s \in decided[t] : Classify(r, t, s)
    BY <2>1 DEF ReaderCheckCached
  <2>3. /\ wait' \in [Reader -> Txn \cup {NoTxn}]
        /\ \A q \in Reader : wait'[q] \in {NoTxn, wait[q]}
        /\ ignore' \in [Reader -> SUBSET Txn] /\ access' \in [Reader -> SUBSET Txn]
    BY <1>9, <2>1, <2>2 DEF ReaderCheckCached
  <2>4. \A q \in Reader : wait'[q] = NoTxn \/ phase[wait'[q]] # "idle"
    BY <1>3, <2>3
  <2> QED
    BY <1>1, <1>2, <1>4, <2>1, <2>3, <2>4 DEF ReaderCheckCached, storeVars
<1>12. CASE \E t \in Txn, cur \in 0 .. tso : ReaderCheckPush(r, t, cur)
  <2>1. PICK t \in Txn, cur \in 0 .. tso : ReaderCheckPush(r, t, cur)
    BY <1>12
  <2>2. /\ minCommit' \in [Txn -> Nat]
        /\ \A v \in Txn : minCommit'[v] >= minCommit[v]
        /\ UNCHANGED <<lock, write>>
    BY <1>1, <2>1, PushGrows DEF ReaderCheckPush
  <2>3. /\ wait' \in [Reader -> Txn \cup {NoTxn}]
        /\ \A q \in Reader : wait'[q] \in {NoTxn, wait[q]}
        /\ ignore' \in [Reader -> SUBSET Txn]
    BY <1>1, <2>1 DEF ReaderCheckPush
  <2>4. \A q \in Reader : wait'[q] = NoTxn \/ phase[wait'[q]] # "idle"
    BY <1>3, <2>3
  <2> QED
    BY <1>1, <1>2, <2>1, <2>2, <2>3, <2>4 DEF ReaderCheckPush
<1> QED
  BY <1>5, <1>6, <1>7, <1>8, <1>10, <1>11, <1>12 DEF ReaderNext

-----------------------------------------------------------------------------
(* Every step keeps the invariant, and is of one of three kinds: it leaves *)
(* all records and results alone, it puts one legal record, or Commit()    *)
(* returns.                                                                *)
Returns(t) ==
    /\ UNCHANGED write
    /\ result[t] = "none"
    /\ \E res \in {"ok", "error", "undetermined"} : result' = [result EXCEPT ![t] = res]

LEMMA StepShape ==
    ASSUME IndInv, Next
    PROVE  /\ IndInv'
           /\ \A u \in Txn : phase[u] # "idle" => startTS'[u] = startTS[u]
           /\ \/ UNCHANGED <<write, result>>
              \/ \E t \in Txn : \E k \in Key : \E r \in Record :
                    Legal(t, k, r) /\ RecordStep(t, k, r)
              \/ \E t \in Txn : Returns(t)
<1>1. TypeOK /\ startTS \in [Txn -> Nat]
  BY DEF IndInv, TypeOK
<1>2. CASE \E t \in Txn : Begin(t)
  BY <1>1, <1>2, BeginInv DEF Begin, storeVars
<1>3. CASE \E t \in Txn : GetCommitTS(t) \/ CommitPrimaryExpired(t)
  BY <1>3, TakeCommitTSInv DEF GetCommitTS, CommitPrimaryExpired, SendCommitPrimary, storeVars
<1>4. CASE \E t \in Txn, k \in Key : Prewrite(t, k)
  BY <1>4, PrewriteInv DEF Prewrite, prewriteMutation, clientVars
<1>5. CASE \E t \in Txn : ClientStep(t)
  <2>1. PICK t \in Txn : ClientStep(t)
    BY <1>5
  <2>2. phase[t] \in {"prewrite", "commit"} => result[t] = "none"
    BY DEF IndInv, ClientKnows
  <2>3. UNCHANGED <<startTS, write>>
    BY <2>1 DEF ClientStep, storeVars, PrewriteSucceed, PrewriteFail, CommitPrimarySucceed,
         CommitPrimaryExpiredFail, CommitPrimaryNotFound, CommitPrimaryRPCError,
         CommitUndetermined, CommitRegionErrorFail, CommitUndeterminedResult,
         CleanupPrimarySucceed, CleanupPrimaryCommitted
  <2>4. UNCHANGED result \/ Returns(t)
    BY <2>1, <2>2, <2>3 DEF ClientStep, Returns, Fail, PrewriteSucceed, PrewriteFail,
         CommitPrimarySucceed, CommitPrimaryExpiredFail, CommitPrimaryNotFound,
         CommitPrimaryRPCError, CommitUndetermined, CommitRegionErrorFail,
         CommitUndeterminedResult, CleanupPrimarySucceed, CleanupPrimaryCommitted
  <2> QED
    BY <2>1, <2>3, <2>4, ClientStepInv
<1>6. CASE \E t \in Txn, k \in Key : WriteStep(t, k)
  <2>1. PICK t \in Txn, k \in Key : WriteStep(t, k)
    BY <1>6
  <2> QED
    BY <2>1, WriteStepInv, WriteStepLegal DEF RecordStep
<1>7. CASE \E t \in Txn : CheckTxnStatus(t)
  <2>1. PICK t \in Txn : CheckTxnStatus(t)
    BY <1>7
  <2>2. /\ phase[t] # "idle" /\ StatusDetermined(t)
        /\ UNCHANGED <<tso, startTS, clientVars, seen, rts, wait, ignore, access, reads>>
    BY <2>1, KnownBegan DEF CheckTxnStatus, readerVars
  <2>3. /\ rts' \in [Reader -> Nat] /\ wait' \in [Reader -> Txn \cup {NoTxn}]
        /\ ignore' \in [Reader -> SUBSET Txn] /\ access' \in [Reader -> SUBSET Txn]
    BY <1>1, <2>2 DEF TypeOK
  <2>4. /\ IndInv'
        /\ \/ UNCHANGED storeVars
           \/ \E r \in Record : Legal(t, Primary[t], r) /\ RecordStep(t, Primary[t], r)
    BY <2>2, <2>3, DeterminedInv
  <2> QED
    BY <2>2, <2>4 DEF storeVars, clientVars
<1>8. CASE OtherStep
  BY <1>8, OtherStepInv DEF OtherStep, PrewriteLocked, ScanLock, CheckTxnStatusPush,
       StatusPushed, storeVars, clientVars
<1>9. CASE \E q \in Reader : ReaderNext(q)
  <2>1. PICK q \in Reader : ReaderNext(q)
    BY <1>9
  <2>2. UNCHANGED startTS
    BY <2>1 DEF ReaderNext, StartRead, SetSnapshotTS, Read, ReadLocked,
         ReaderCheckDetermined, ReaderCheckCached, ReaderCheckPush
  <2> QED
    BY <2>1, <2>2, ReaderInv
<1>10. \/ \E t \in Txn : Begin(t)
       \/ \E t \in Txn : GetCommitTS(t) \/ CommitPrimaryExpired(t)
       \/ \E t \in Txn, k \in Key : Prewrite(t, k)
       \/ \E t \in Txn : ClientStep(t)
       \/ \E t \in Txn, k \in Key : WriteStep(t, k)
       \/ \E t \in Txn : CheckTxnStatus(t)
       \/ OtherStep
       \/ \E q \in Reader : ReaderNext(q)
  BY DEF Next, ClientNext, ResolverNext, ClientStep, WriteStep, OtherStep
<1> QED
  BY <1>2, <1>3, <1>4, <1>5, <1>6, <1>7, <1>8, <1>9, <1>10

-----------------------------------------------------------------------------
(* The inductive invariant holds: in every run of committers, resolvers,   *)
(* GC and readers, whatever requests are late, repeated or unanswered, the *)
(* record on the primary is the single point of decision.                  *)
THEOREM Invariance == Spec => []IndInv
<1>1. Init => IndInv
  <2> SUFFICES ASSUME Init PROVE IndInv
    OBVIOUS
  <2> USE DEF Init, StoreInit
  <2>1. TypeOK /\ tso <= MaxTS
    BY DEF TypeOK, StoreTypeOK, Phase, Result
  <2>2. Traces /\ WellFormed /\ UniqueTS /\ OneRecord /\ LockedIsOpen /\ LockAfterCommits
    BY DEF Traces, WellFormed, UniqueTS, Timestamps, OneRecord, LockedIsOpen, LockAfterCommits
  <2>3. PrimaryDecides /\ AckedHolds /\ ClientKnows
    BY DEF PrimaryDecides, AckedHolds, ClientKnows
  <2> QED
    BY <2>1, <2>2, <2>3 DEF IndInv
<1>2. IndInv /\ [Next]_vars => IndInv'
  <2>1. ASSUME IndInv, Next PROVE IndInv'
    BY <2>1, StepShape
  <2>2. ASSUME IndInv, UNCHANGED vars PROVE IndInv'
    <3>1. /\ UNCHANGED <<tso, startTS, lock, minCommit, write, phase, result, acked,
                         commitTS, undet, commitReq, seen, decided, rts, wait, ignore,
                         access, reads>>
      BY <2>2 DEF vars, storeVars, clientVars, resolverVars, readerVars
    <3>2. TypeOK' /\ \A t \in Txn : minCommit'[t] >= minCommit[t]
      BY <2>2, <3>1 DEF IndInv, TypeOK, StoreTypeOK
    <3>3. /\ \A t \in seen' : phase[t] # "idle"
          /\ \A q \in Reader : wait'[q] = NoTxn \/ phase[wait'[q]] # "idle"
      BY <2>2, <3>1, KnownBegan
    <3>4. UNCHANGED clientVars
      BY <3>1 DEF clientVars
    <3> QED
      BY <2>2, <3>1, <3>2, <3>3, <3>4, QuietOthers
  <2> QED
    BY <2>1, <2>2
<1> QED
  BY <1>1, <1>2, PTL DEF Spec

(* A transaction has at most one outcome. *)
LEMMA OneOutcome ==
    ASSUME IndInv, NEW t \in Txn, NEW a \in OutcomeOf(t), NEW b \in OutcomeOf(t)
    PROVE  a = b
<1>1. PICK v \in write[Primary[t]] : v.txn = t /\ a = StatusOf(v)
  BY OutcomeDef
<1>2. PICK w \in write[Primary[t]] : w.txn = t /\ b = StatusOf(w)
  BY OutcomeDef
<1>3. v = w
  BY <1>1, <1>2 DEF IndInv, OneRecord
<1> QED
  BY <1>1, <1>2, <1>3

(* What a record on any key says about the primary. *)
LEMMA RecordSays ==
    ASSUME IndInv, NEW t \in Txn, NEW k \in Key, NEW w \in InfoOf(t, k)
    PROVE  /\ StatusOf(w) \in OutcomeOf(t)
           /\ w.type # "Rollback" =>
                w.commit = StatusOf(w) /\ w.commit # 0 /\ w.commit \in commitReq[t]
           /\ w.type = "Rollback" => StatusOf(w) = 0
  BY DEF IndInv, TypeOK, StoreTypeOK, Record, PrimaryDecides, WellFormed, InfoOf, StatusOf

(* All or nothing, at one version, for any transactions and keys. *)
THEOREM Atomicity == Spec => []Atomic
<1>1. IndInv => Atomic
  <2> SUFFICES ASSUME IndInv, NEW t \in Txn, NEW j \in Keys[t], NEW k \in Keys[t],
                      NEW v \in CommitsOf(t, j), NEW w \in InfoOf(t, k)
               PROVE  w.type # "Rollback" /\ w.commit = v.commit
    BY DEF Atomic
  <2>1. v \in InfoOf(t, j) /\ v.type # "Rollback" /\ j \in Key /\ k \in Key
    BY DEF CommitsOf
  <2>2. StatusOf(v) = StatusOf(w) /\ StatusOf(v) = v.commit /\ v.commit # 0
    BY <2>1, RecordSays, OneOutcome
  <2> QED
    BY <2>1, <2>2, RecordSays
<1> QED
  BY <1>1, Invariance, PTL

(* Nothing is lost after the primary committed. *)
THEOREM Durability == Spec => []NoMutationLost
<1>1. IndInv => NoMutationLost
  <2> SUFFICES ASSUME IndInv, NEW t \in Txn, CommittedOn(t, Primary[t]),
                      NEW k \in Keys[t], lock[k] # t
               PROVE  CommittedOn(t, k)
    BY DEF NoMutationLost
  <2>1. PICK v \in CommitsOf(t, Primary[t]) : TRUE
    BY DEF CommittedOn
  <2>2. v \in InfoOf(t, Primary[t]) /\ v.type # "Rollback" /\ k \in Key
    BY DEF CommitsOf
  <2>3. acked[t] = Keys[t]
    BY <2>2, RecordSays DEF IndInv, AckedHolds
  <2>4. PICK w \in InfoOf(t, k) : TRUE
    BY <2>3 DEF IndInv, AckedHolds
  <2>5. StatusOf(v) = StatusOf(w) /\ StatusOf(v) # 0
    BY <2>2, RecordSays, OneOutcome
  <2> QED
    BY <2>2, <2>5, RecordSays DEF CommittedOn, CommitsOf
<1> QED
  BY <1>1, Invariance, PTL

LEMMA HonestInv == IndInv => ResultHonest
<1> SUFFICES ASSUME IndInv, NEW t \in Txn
             PROVE  /\ result[t] = "ok" =>
                         \E w \in CommitsOf(t, Primary[t]) : w.commit = commitTS[t]
                    /\ result[t] = "error" => \A k \in Keys[t] : ~CommittedOn(t, k)
  BY DEF ResultHonest
<1>1. ASSUME result[t] = "ok"
      PROVE  \E w \in CommitsOf(t, Primary[t]) : w.commit = commitTS[t]
  <2>1. commitTS[t] \in OutcomeOf(t) /\ commitTS[t] # 0
    BY <1>1 DEF IndInv, ClientKnows
  <2>2. PICK w \in write[Primary[t]] : w.txn = t /\ commitTS[t] = StatusOf(w)
    BY <2>1, OutcomeDef
  <2> QED
    BY <2>1, <2>2 DEF CommitsOf, InfoOf, StatusOf
<1>2. ASSUME result[t] = "error", NEW k \in Keys[t], NEW w \in CommitsOf(t, k)
      PROVE  FALSE
  <2>1. w \in InfoOf(t, k) /\ w.type # "Rollback" /\ k \in Key
    BY <1>2 DEF CommitsOf
  <2>2. w.commit \in OutcomeOf(t) /\ w.commit # 0 /\ w.commit \in commitReq[t]
    BY <2>1, RecordSays
  <2>3. PICK p \in write[Primary[t]] : p.txn = t /\ w.commit = StatusOf(p)
    BY <2>2, OutcomeDef
  <2>4. p \in CommitsOf(t, Primary[t]) /\ p.commit = w.commit
    BY <2>2, <2>3 DEF CommitsOf, InfoOf, StatusOf
  <2> QED
    BY <1>2, <2>2, <2>4 DEF IndInv, ClientKnows, Dead
<1> QED
  BY <1>1, <1>2 DEF CommittedOn

LEMMA HonestPrime == IndInv' => ResultHonest'
  BY HonestInv, PTL

(* Commit() never reports a success or a definite failure that is not so. *)
THEOREM Honesty == Spec => []ResultHonest
  BY HonestInv, Invariance, PTL

(* Resolvers agree, so the check in saveResolved cannot fire. *)
THEOREM Agreement == Spec => []StatusAgreement
<1>1. IndInv => StatusAgreement
  BY OneOutcome DEF StatusAgreement, IndInv, PrimaryDecides
<1> QED
  BY <1>1, Invariance, PTL

(* No record is ever overwritten or removed. *)
THEOREM Permanence == Spec => RecordsPermanent
<1>1. IndInv /\ [Next]_vars => [\A k \in Key : write[k] \subseteq write'[k]]_vars
  <2>1. ASSUME IndInv, Next PROVE \A k \in Key : write[k] \subseteq write'[k]
    <3>1. CASE UNCHANGED write
      BY <3>1
    <3>2. CASE \E t \in Txn : \E k \in Key : \E r \in Record :
                  Legal(t, k, r) /\ RecordStep(t, k, r)
      BY <2>1, <3>2, PutAdds DEF RecordStep
    <3> QED
      BY <2>1, <3>1, <3>2, StepShape DEF Returns
  <2> QED
    BY <2>1
<1> QED
  BY <1>1, Invariance, PTL DEF Spec, RecordsPermanent

(* First committer wins. *)
THEOREM FirstCommitterWins == Spec => []NoLostUpdate
<1>1. Init => NoLostUpdate
  BY DEF Init, StoreInit, NoLostUpdate
<1>2. IndInv /\ NoLostUpdate /\ [Next]_vars => NoLostUpdate'
  <2>1. ASSUME IndInv, NoLostUpdate, Next PROVE NoLostUpdate'
    <3>1. write \in [Key -> SUBSET Record]
      BY <2>1 DEF IndInv, TypeOK, StoreTypeOK
    <3>2. \A k \in Key : \A w \in write[k] :
            w.txn \in Txn /\ phase[w.txn] # "idle" /\ startTS'[w.txn] = startTS[w.txn]
      BY <2>1, <3>1, StepShape DEF IndInv, WellFormed, Record
    <3>3. CASE UNCHANGED write
      BY <2>1, <3>2, <3>3 DEF NoLostUpdate
    <3>4. CASE \E t \in Txn : \E k \in Key : \E r \in Record :
                  Legal(t, k, r) /\ RecordStep(t, k, r)
      <4>1. PICK t \in Txn, k \in Key, r \in Record : Legal(t, k, r) /\ RecordStep(t, k, r)
        BY <3>4
      <4>2. /\ write'[k] = write[k] \cup {r}
            /\ \A j \in Key : j # k => write'[j] = write[j]
            /\ UNCHANGED startTS
        BY <2>1, <3>1, <4>1, PutAdds DEF RecordStep
      <4>3. r.type # "Rollback" => \A w \in write[k] :
               w.type # "Rollback" => w.commit < startTS[r.txn]
        BY <2>1, <4>1 DEF Legal, IndInv, LockAfterCommits
      <4> QED
        BY <2>1, <4>2, <4>3 DEF NoLostUpdate
    <3> QED
      BY <2>1, <3>3, <3>4, StepShape DEF Returns
  <2>2. ASSUME NoLostUpdate, UNCHANGED vars PROVE NoLostUpdate'
    BY <2>2 DEF NoLostUpdate, vars, storeVars
  <2> QED
    BY <2>1, <2>2
<1> QED
  BY <1>1, <1>2, Invariance, PTL DEF Spec

(* Every variable keeps its type. *)
THEOREM TypeCorrectness == Spec => []TypeOK
<1>1. IndInv => TypeOK
  BY DEF IndInv
<1> QED
  BY <1>1, Invariance, PTL

-----------------------------------------------------------------------------
(* The refinement: a record on the primary decides, any other record       *)
(* settles a key, a return tells, and every other step stutters.           *)
LEMMA SettledDef ==
    ASSUME NEW t \in Txn, NEW p
    PROVE  p \in SettledOf(t) <=>
             \E k \in Keys[t] : \E w \in write[k] : w.txn = t /\ p = <<k, StatusOf(w)>>
  BY DEF SettledOf, InfoOf

LEMMA SettledDefPrime ==
    ASSUME NEW t \in Txn, NEW p
    PROVE  p \in SettledOf(t)' <=>
             \E k \in Keys[t] : \E w \in write'[k] : w.txn = t /\ p = <<k, StatusOf(w)>>
  BY DEF SettledOf, InfoOf, StatusOf

LEMMA RecordMaps ==
    ASSUME IndInv, NEW t \in Txn, NEW k \in Key, NEW r \in Record,
           Legal(t, k, r), RecordStep(t, k, r)
    PROVE  Promise!Next
<1> DEFINE s == StatusOf(r)
<1>1. /\ write'[k] = write[k] \cup {r}
      /\ \A j \in Key : j # k => write'[j] = write[j]
      /\ UNCHANGED result
  <2>1. write' = [write EXCEPT ![k] = write[k] \cup {r}] /\ write \in [Key -> SUBSET Record]
    BY PutAdds DEF RecordStep, IndInv, TypeOK, StoreTypeOK
  <2> QED
    BY <2>1 DEF RecordStep, clientVars
<1>2. r.txn = t /\ k \in Keys[t]
  BY DEF Legal
<1>3. \A u \in Txn : u # t => OutcomeOf(u)' = OutcomeOf(u) /\ SettledOf(u)' = SettledOf(u)
  <2> SUFFICES ASSUME NEW u \in Txn, u # t
               PROVE  OutcomeOf(u)' = OutcomeOf(u) /\ SettledOf(u)' = SettledOf(u)
    OBVIOUS
  <2>1. \A x : x \in OutcomeOf(u)' <=> x \in OutcomeOf(u)
    BY <1>1, <1>2, OutcomeDef, OutcomeDefPrime
  <2>2. \A j \in Keys[u] : \A w : (w \in write'[j] /\ w.txn = u) <=> (w \in write[j] /\ w.txn = u)
    BY <1>1, <1>2
  <2>3. \A x : x \in SettledOf(u)' <=> x \in SettledOf(u)
    BY <2>2, SettledDef, SettledDefPrime
  <2> QED
    BY <2>1, <2>3
<1>4. SettledOf(t)' = SettledOf(t) \cup {<<k, s>>}
  <2>1. \A j \in Keys[t] : \A w : (w \in write'[j] /\ w.txn = t) <=>
          ((w \in write[j] /\ w.txn = t) \/ (j = k /\ w = r))
    BY <1>1, <1>2
  <2>2. \A x : x \in SettledOf(t)' <=> (x \in SettledOf(t) \/ x = <<k, s>>)
    BY <1>2, <2>1, SettledDef, SettledDefPrime
  <2> QED
    BY <2>2
<1>5. s \in 0 .. MaxTS
  BY DEF Legal, StatusOf, IndInv, TypeOK, Traces
<1>6. CASE k = Primary[t]
  <2>1. \A x : x \notin OutcomeOf(t)
    BY <1>6, OutcomeDef DEF Legal, InfoOf
  <2>2. \A x : x \in OutcomeOf(t)' <=> x = s
    BY <1>1, <1>2, <1>6, OutcomeDefPrime DEF Legal, InfoOf
  <2>3. OutcomeOf(t) = {} /\ OutcomeOf(t)' = {s}
    BY <2>1, <2>2
  <2>4. result[t] = "error" => s = 0
    <3> SUFFICES ASSUME result[t] = "error", r.type # "Rollback" PROVE FALSE
      BY DEF StatusOf
    <3>1. r.commit \in commitReq[t] /\ lock[k] = t /\ minCommit[t] <= r.commit
      BY <1>6 DEF Legal
    <3>2. minCommit[t] > r.commit
      BY <1>6, <3>1 DEF IndInv, ClientKnows, Dead
    <3>3. minCommit[t] \in Nat /\ r.commit \in Nat
      BY DEF IndInv, TypeOK, StoreTypeOK, Record
    <3> QED
      BY <3>1, <3>2, <3>3
  <2>5. Promise!Decide(t, k, s)
    BY <1>1, <1>3, <1>4, <2>3, <2>4 DEF Promise!Decide
  <2> QED
    BY <1>5, <2>5 DEF Promise!Next
<1>7. CASE k # Primary[t]
  <2>1. s \in OutcomeOf(t)
    BY <1>7 DEF Legal
  <2>2. \A x : x \in OutcomeOf(t)' <=> x \in OutcomeOf(t)
    BY <1>1, <1>7, OutcomeDef, OutcomeDefPrime
  <2>3. OutcomeOf(t)' = OutcomeOf(t)
    BY <2>2
  <2>4. Promise!Settle(t, k)
    BY <1>1, <1>3, <1>4, <2>1, <2>3 DEF Promise!Settle
  <2> QED
    BY <2>4 DEF Promise!Next
<1> QED
  BY <1>6, <1>7

LEMMA ReturnMaps ==
    ASSUME IndInv, IndInv', ResultHonest', NEW t \in Txn, Returns(t)
    PROVE  Promise!Next
<1>1. PICK res \in {"ok", "error", "undetermined"} : result' = [result EXCEPT ![t] = res]
  BY DEF Returns
<1>2. result'[t] = res /\ UNCHANGED write /\ result[t] = "none"
  BY <1>1 DEF Returns, IndInv, TypeOK
<1>3. \A u \in Txn : OutcomeOf(u)' = OutcomeOf(u) /\ SettledOf(u)' = SettledOf(u)
  BY <1>2 DEF OutcomeOf, SettledOf, InfoOf, StatusOf
<1>4. res = "ok" => OutcomeOf(t) # {} /\ OutcomeOf(t) # {0}
  BY <1>2, <1>3 DEF IndInv, ClientKnows
<1>5. res = "error" => OutcomeOf(t) \in {{}, {0}}
  <2>1. ASSUME res = "error", NEW x \in OutcomeOf(t) PROVE x = 0
    <3>1. PICK w \in write[Primary[t]] : w.txn = t /\ x = StatusOf(w)
      BY OutcomeDef
    <3>2. \A v \in write[Primary[t]] : v.txn = t => v.type = "Rollback"
      BY <1>2, <2>1 DEF ResultHonest, CommittedOn, CommitsOf, InfoOf
    <3> QED
      BY <3>1, <3>2 DEF StatusOf
  <2> QED
    BY <2>1
<1>6. Promise!Tell(t, res)
  BY <1>1, <1>2, <1>3, <1>4, <1>5 DEF Promise!Tell
<1> QED
  BY <1>1, <1>6 DEF Promise!Next

(* Two-phase commit with resolvers and lost messages implements the        *)
(* abstract promise: one outcome per transaction, chosen once, followed by *)
(* every key and reported truthfully.                                      *)
THEOREM Refinement == Spec => ImplementsAtomicCommit
<1>1. Init => Promise!Init
  BY DEF Init, StoreInit, Promise!Init, OutcomeOf, SettledOf, InfoOf
<1>2. IndInv /\ IndInv' /\ ResultHonest' /\ [Next]_vars => [Promise!Next]_(Promise!vars)
  <2>1. ASSUME IndInv, IndInv', ResultHonest', Next PROVE Promise!Next \/ UNCHANGED Promise!vars
    <3>1. CASE UNCHANGED <<write, result>>
      BY <3>1 DEF Promise!vars, OutcomeOf, SettledOf, InfoOf, StatusOf
    <3>2. CASE \E t \in Txn : \E k \in Key : \E r \in Record :
                  Legal(t, k, r) /\ RecordStep(t, k, r)
      BY <2>1, <3>2, RecordMaps
    <3>3. CASE \E t \in Txn : Returns(t)
      BY <2>1, <3>3, ReturnMaps
    <3> QED
      BY <2>1, <3>1, <3>2, <3>3, StepShape
  <2>2. ASSUME UNCHANGED vars PROVE UNCHANGED Promise!vars
    BY <2>2 DEF vars, storeVars, clientVars, Promise!vars, OutcomeOf, SettledOf, InfoOf, StatusOf
  <2> QED
    BY <2>1, <2>2
<1> QED
  BY <1>1, <1>2, Invariance, HonestInv, PTL DEF Spec, ImplementsAtomicCommit, Promise!Spec

-----------------------------------------------------------------------------
(***************************************************************************)
(* SNAPSHOTS.  Readers see their snapshot, as long as no application moves *)
(* an open one back.                                                       *)
(*                                                                         *)
(* A reader passes a lock only when its owner is late: none of the commit  *)
(* versions that were sent for it and lie in the snapshot can take effect. *)
(* Late transactions stay late, as later versions come from PD after the   *)
(* snapshot's, so a value that was read once stays the snapshot's value.   *)
(***************************************************************************)

(* Every step of committers, resolvers, GC and readers is of one of these  *)
(* kinds.                                                                  *)
LEMMA StepKinds ==
    ASSUME Next
    PROVE  \/ \E t \in Txn : Begin(t)
           \/ \E t \in Txn : GetCommitTS(t) \/ CommitPrimaryExpired(t)
           \/ \E t \in Txn, k \in Key : Prewrite(t, k)
           \/ \E t \in Txn : ClientStep(t)
           \/ \E t \in Txn, k \in Key : WriteStep(t, k)
           \/ \E t \in Txn : CheckTxnStatus(t)
           \/ OtherStep
           \/ \E q \in Reader : ReaderNext(q)
  BY DEF Next, ClientNext, ResolverNext, ClientStep, WriteStep, OtherStep

(* The versions sent for a primary: a new one is above all that PD had     *)
(* issued before (GetCommitTS, CommitPrimaryExpired).                      *)
VersionsGrow ==
    /\ tso <= tso'
    /\ \A t \in Txn : \A c \in commitReq'[t] : c \in commitReq[t] \/ c > tso

(* The lock on a primary: a step keeps it and may push its minCommitTS, or *)
(* takes it while no commit was sent.                                      *)
PrimaryLocks ==
    \A t \in Txn : lock'[Primary[t]] = t =>
       (lock[Primary[t]] = t /\ minCommit'[t] >= minCommit[t]) \/ commitReq[t] = {}

(* CheckTxnStatus of a writer, GC or a reader leaves the committer and its *)
(* minCommitTS alone.                                                      *)
LEMMA DeterminedKeeps ==
    ASSUME TypeOK, NEW t \in Txn, StatusDetermined(t)
    PROVE  /\ minCommit' = minCommit
           /\ \A k \in Key : lock'[k] = lock[k] \/ lock'[k] = NoTxn
  BY DEF StatusDetermined, StatusExpired, StatusRolledBack, StatusNotExistRollback,
         StatusCommitted, rollbackLock, storeVars, TypeOK, StoreTypeOK

(* Commit versions grow, whoever takes a step.                             *)
LEMMA VersionsStep == IndInv /\ Next => VersionsGrow
<1> SUFFICES ASSUME IndInv, Next PROVE VersionsGrow
  OBVIOUS
<1>0. tso \in Nat /\ commitReq \in [Txn -> SUBSET Nat]
  BY DEF IndInv, TypeOK
<1>1. CASE UNCHANGED <<tso, commitReq>>
  BY <1>0, <1>1 DEF VersionsGrow
<1>2. CASE \E t \in Txn : Begin(t)
  BY <1>0, <1>2 DEF Begin, VersionsGrow
<1>3. CASE \E t \in Txn : GetCommitTS(t) \/ CommitPrimaryExpired(t)
  BY <1>0, <1>3 DEF GetCommitTS, CommitPrimaryExpired, SendCommitPrimary, VersionsGrow
<1>4. CASE \E t \in Txn : ClientStep(t)
  BY <1>0, <1>4
  DEF VersionsGrow, ClientStep, PrewriteSucceed, PrewriteFail, CommitPrimarySucceed,
      CommitPrimaryExpiredFail, CommitPrimaryNotFound, CommitPrimaryRPCError, CommitUndetermined,
      CommitRegionErrorFail, CommitUndeterminedResult, CleanupPrimarySucceed,
      CleanupPrimaryCommitted
<1>5. CASE \E t \in Txn, k \in Key : Prewrite(t, k) \/ WriteStep(t, k)
  BY <1>1, <1>5
  DEF Prewrite, WriteStep, CommitPrimary, CommitSecondary, BatchRollback, ResolveLock, clientVars
<1>6. CASE (\E t \in Txn : CheckTxnStatus(t)) \/ OtherStep \/ \E q \in Reader : ReaderNext(q)
  BY <1>1, <1>6
  DEF CheckTxnStatus, OtherStep, PrewriteLocked, ScanLock, CheckTxnStatusPush, ReaderNext, StartRead,
      SetSnapshotTS, Read, ReadLocked, ReaderCheckDetermined, ReaderCheckCached, ReaderCheckPush,
      clientVars
<1> QED BY <1>2, <1>3, <1>4, <1>5, <1>6, StepKinds

(* A primary that is not locked cannot be locked again once a commit was   *)
(* sent for it: its prewrite was acknowledged.                             *)
LEMMA PrimaryLocksStep == IndInv /\ Next => PrimaryLocks
<1> SUFFICES ASSUME IndInv, Next PROVE PrimaryLocks
  OBVIOUS
<1>0. /\ TypeOK /\ tso \in Nat /\ lock \in [Key -> Txn \cup {NoTxn}]
      /\ minCommit \in [Txn -> Nat] /\ startTS \in [Txn -> Nat] /\ rts \in [Reader -> Nat]
  BY DEF IndInv, TypeOK, StoreTypeOK
<1>1. CASE (\A k \in Key : lock'[k] = lock[k] \/ lock'[k] = NoTxn)
           /\ \A t \in Txn : minCommit'[t] >= minCommit[t]
  BY <1>0, <1>1 DEF PrimaryLocks
<1>2. CASE UNCHANGED <<lock, minCommit>>
  BY <1>0, <1>1, <1>2
<1>3. CASE \E t \in Txn : Begin(t) \/ GetCommitTS(t) \/ CommitPrimaryExpired(t)
  BY <1>2, <1>3 DEF Begin, GetCommitTS, CommitPrimaryExpired, SendCommitPrimary, storeVars
<1>4. CASE \E t \in Txn : ClientStep(t)
  BY <1>2, <1>4
  DEF ClientStep, PrewriteSucceed, PrewriteFail, CommitPrimarySucceed,
      CommitPrimaryExpiredFail, CommitPrimaryNotFound, CommitPrimaryRPCError, CommitUndetermined,
      CommitRegionErrorFail, CommitUndeterminedResult, CleanupPrimarySucceed,
      CleanupPrimaryCommitted, storeVars
<1>5. ASSUME NEW t \in Txn, NEW k \in Key, Prewrite(t, k) PROVE PrimaryLocks
  <2>1. /\ k \in Keys[t] /\ lock[k] = NoTxn /\ ~Conflict(t, k) /\ ~BarredByRollback(t, k)
        /\ lock' = [lock EXCEPT ![k] = t]
        /\ minCommit' = IF k = Primary[t] THEN [minCommit EXCEPT ![t] = startTS[t] + 1] ELSE minCommit
    BY <1>5 DEF Prewrite, prewriteMutation
  <2>2. k = Primary[t] => commitReq[t] = {}
    <3> SUFFICES ASSUME k = Primary[t], commitReq[t] # {} PROVE FALSE
      OBVIOUS
    <3>1. k \in acked[t]
      BY <2>1 DEF IndInv, AckedHolds
    <3>2. PICK w \in write[k] : w.txn = t
      BY <1>0, <2>1, <3>1 DEF IndInv, AckedHolds, InfoOf
    <3>3. w.type = "Rollback" => w.commit = startTS[t]
      BY <3>2 DEF IndInv, WellFormed
    <3>4. w.type # "Rollback" => w.commit > startTS[t]
      BY <1>0, <3>2 DEF IndInv, WellFormed, Traces
    <3> QED BY <2>1, <3>2, <3>3, <3>4 DEF Conflict, BarredByRollback
  <2> QED BY <1>0, <2>1, <2>2 DEF PrimaryLocks
<1>6. ASSUME NEW t \in Txn, NEW k \in Key, WriteStep(t, k) PROVE PrimaryLocks
  <2>1. PICK r \in Record : Legal(t, k, r) /\ RecordStep(t, k, r)
    BY <1>6, WriteStepLegal
  <2> QED BY <1>0, <1>1, <2>1 DEF RecordStep
<1>7. CASE \E t \in Txn : CheckTxnStatus(t)
  BY <1>0, <1>1, <1>7, DeterminedKeeps DEF CheckTxnStatus
<1>8. ASSUME NEW t \in Txn, NEW caller \in Nat, NEW cur \in 0 .. tso, StatusPushed(t, caller, cur)
      PROVE  PrimaryLocks
  BY <1>0, <1>1, <1>8, PushGrows
<1>9. CASE OtherStep
  <2>1. CASE \E t, u \in Txn, cur \in 0 .. tso : CheckTxnStatusPush(t, u, cur)
    BY <1>0, <1>8, <2>1 DEF CheckTxnStatusPush
  <2> QED BY <1>2, <1>9, <2>1 DEF OtherStep, PrewriteLocked, ScanLock, storeVars
<1>10. ASSUME NEW q \in Reader, ReaderNext(q) PROVE PrimaryLocks
  <2>1. CASE \E t \in Txn, cur \in 0 .. tso : ReaderCheckPush(q, t, cur)
    BY <1>0, <1>8, <2>1 DEF ReaderCheckPush
  <2>2. CASE \E t \in Txn : ReaderCheckDetermined(q, t)
    BY <1>0, <1>1, <2>2, DeterminedKeeps DEF ReaderCheckDetermined
  <2> QED
    BY <1>2, <1>10, <2>1, <2>2
    DEF ReaderNext, StartRead, SetSnapshotTS, Read, ReadLocked, ReaderCheckCached, storeVars
<1> QED BY <1>3, <1>4, <1>5, <1>6, <1>7, <1>9, <1>10, StepKinds

-----------------------------------------------------------------------------
(* A record that is new on the primary is a commit that was sent and was   *)
(* not dead, or a rollback.                                                *)
LEMMA NewRecord ==
    ASSUME IndInv, Next, NEW t \in Txn
    PROVE  /\ write[Primary[t]] \subseteq write'[Primary[t]]
           /\ \A w \in write'[Primary[t]] \ write[Primary[t]] :
                 w.txn = t /\ w.type # "Rollback" =>
                    /\ InfoOf(t, Primary[t]) = {}
                    /\ lock[Primary[t]] = t /\ minCommit[t] <= w.commit /\ w.commit \in commitReq[t]
<1>0. Primary[t] \in Key /\ write \in [Key -> SUBSET Record]
  BY DEF IndInv, TypeOK, StoreTypeOK
<1>1. CASE UNCHANGED write
  BY <1>1
<1>2. ASSUME NEW u \in Txn, NEW k \in Key, NEW r \in Record, Legal(u, k, r), RecordStep(u, k, r)
      PROVE  /\ write[Primary[t]] \subseteq write'[Primary[t]]
             /\ \A w \in write'[Primary[t]] \ write[Primary[t]] :
                   w.txn = t /\ w.type # "Rollback" =>
                      /\ InfoOf(t, Primary[t]) = {}
                      /\ lock[Primary[t]] = t /\ minCommit[t] <= w.commit /\ w.commit \in commitReq[t]
  <2>1. write' = [write EXCEPT ![k] = write[k] \cup {r}]
    BY <1>2, PutAdds DEF RecordStep
  <2>2. \A w \in write'[Primary[t]] \ write[Primary[t]] : w = r /\ k = Primary[t]
    BY <1>0, <2>1
  <2> QED BY <1>0, <1>2, <2>1, <2>2 DEF Legal
<1> QED BY <1>1, <1>2, StepShape DEF Returns

(* A version that can no longer take effect never will.                    *)
LEMMA DeadStays ==
    ASSUME IndInv, Next, NEW t \in Txn, NEW c \in commitReq[t], Dead(t, c)
    PROVE  Dead(t, c)'
<1>0. c \in Nat /\ minCommit[t] \in Nat /\ minCommit'[t] \in Nat
  BY StepShape DEF IndInv, TypeOK, StoreTypeOK
<1>1. lock'[Primary[t]] = t => minCommit'[t] > c
  BY <1>0, PrimaryLocksStep DEF PrimaryLocks, Dead
<1>2. \A w \in write'[Primary[t]] : w.txn = t /\ w.type # "Rollback" => w.commit # c
  <2>1. \A w \in write[Primary[t]] : w.txn = t /\ w.type # "Rollback" => w.commit # c
    BY DEF Dead, CommitsOf, InfoOf
  <2>2. lock[Primary[t]] = t => minCommit[t] > c
    BY DEF Dead
  <2> QED BY <1>0, <2>1, <2>2, NewRecord
<1> QED BY <1>1, <1>2 DEF Dead, CommitsOf, InfoOf

(* A transaction that is late for a snapshot stays late.                   *)
LEMMA LateStays ==
    ASSUME IndInv, Next, NEW t \in Txn, NEW ts \in Nat, ts <= tso, Late(t, ts)
    PROVE  Late(t, ts)'
<1>1. \A c \in commitReq'[t] : c <= ts => c \in commitReq[t]
  <2>1. tso \in Nat /\ commitReq' \in [Txn -> SUBSET Nat]
    BY StepShape DEF IndInv, TypeOK
  <2> QED BY <2>1, VersionsStep DEF VersionsGrow
<1> QED BY <1>1, DeadStays DEF Late

(* What committed stays committed.                                         *)
LEMMA CommitsStay ==
    ASSUME IndInv, Next, NEW t \in Txn
    PROVE  /\ CommitsOf(t, Primary[t]) \subseteq CommitsOf(t, Primary[t])'
           /\ CommittedOn(t, Primary[t]) => CommittedOn(t, Primary[t])'
  BY NewRecord DEF CommitsOf, InfoOf, CommittedOn

(* The commits that a snapshot holds of a key do not change when every     *)
(* transaction that writes the key is late or committed.                   *)
LEMMA SnapshotFixed ==
    ASSUME IndInv, Next, NEW k \in Key, NEW ts \in Nat,
           \A t \in Txn : k \in Keys[t] \ LockOnly[t] => CommittedOn(t, Primary[t]) \/ Late(t, ts)
    PROVE  SnapshotValue(k, ts)' = SnapshotValue(k, ts)
<1>0. write \in [Key -> SUBSET Record] /\ write' \in [Key -> SUBSET Record]
  BY StepShape DEF IndInv, TypeOK, StoreTypeOK
<1>1. ASSUME NEW t \in Txn, k \in Keys[t] \ LockOnly[t],
             NEW w \in write'[Primary[t]] \ write[Primary[t]],
             w.txn = t, w.type # "Rollback", w.commit <= ts
      PROVE  FALSE
  <2>1. /\ InfoOf(t, Primary[t]) = {} /\ lock[Primary[t]] = t
        /\ minCommit[t] <= w.commit /\ w.commit \in commitReq[t]
    BY <1>1, NewRecord
  <2>2. ~CommittedOn(t, Primary[t])
    BY <2>1 DEF CommittedOn, CommitsOf
  <2>4. Dead(t, w.commit)
    BY <1>1, <2>1, <2>2 DEF Late
  <2>5. minCommit[t] \in Nat /\ w.commit \in Nat
    BY <1>0, <1>1 DEF IndInv, TypeOK, StoreTypeOK, Record
  <2> QED BY <2>1, <2>4, <2>5 DEF Dead
<1>2. InSnapshot(k, ts)' = InSnapshot(k, ts)
  <2>1. \A w : w \in InSnapshot(k, ts) <=>
          \E t \in Txn : /\ w \in write[Primary[t]] /\ w.txn = t /\ w.type # "Rollback"
                         /\ k \in Keys[t] \ LockOnly[t] /\ w.commit <= ts
    BY DEF InSnapshot, CommitsOf, InfoOf
  <2>2. \A w : w \in InSnapshot(k, ts)' <=>
          \E t \in Txn : /\ w \in write'[Primary[t]] /\ w.txn = t /\ w.type # "Rollback"
                         /\ k \in Keys[t] \ LockOnly[t] /\ w.commit <= ts
    BY DEF InSnapshot, CommitsOf, InfoOf
  <2>3. \A w : w \in InSnapshot(k, ts)' <=> w \in InSnapshot(k, ts)
    BY <1>1, <2>1, <2>2, NewRecord
  <2> QED BY <2>3, Zenon
<1> QED BY <1>2 DEF SnapshotValue

-----------------------------------------------------------------------------
(* A status that a resolver learned, as a reader sorts it: late, if rolled *)
(* back or committed after the snapshot, or else in the snapshot.          *)
LEMMA StatusSorts ==
    ASSUME IndInv, NEW t \in Txn, NEW s \in OutcomeOf(t), NEW ts \in Nat
    PROVE  /\ s = 0 \/ s > ts => Late(t, ts)
           /\ ~(s = 0 \/ s > ts) => \E w \in CommitsOf(t, Primary[t]) : w.commit <= ts
<1>1. PICK w \in write[Primary[t]] : w.txn = t /\ s = StatusOf(w)
  BY OutcomeDef
<1>2. /\ w \in Record /\ w.commit \in Nat \ {0} /\ lock[Primary[t]] # t
      /\ \A x \in write[Primary[t]] : x.txn = t => x = w
  BY <1>1 DEF IndInv, TypeOK, StoreTypeOK, Record, LockedIsOpen, OneRecord
<1>3. CASE s = 0 \/ s > ts
  <2>1. ASSUME NEW c \in commitReq[t], c <= ts PROVE Dead(t, c)
    <3>1. c \in Nat
      BY <2>1 DEF IndInv, TypeOK
    <3>2. \A x \in CommitsOf(t, Primary[t]) : x.commit # c
      BY <1>1, <1>2, <1>3, <2>1, <3>1 DEF CommitsOf, InfoOf, StatusOf
    <3> QED BY <1>2, <3>2 DEF Dead
  <2> QED BY <1>3, <2>1 DEF Late
<1>4. CASE ~(s = 0 \/ s > ts)
  BY <1>1, <1>2, <1>4 DEF CommitsOf, InfoOf, StatusOf
<1> QED BY <1>3, <1>4

(* Pushing the minCommitTS of a live lock past the snapshot makes its      *)
(* owner late.                                                             *)
LEMMA PushedIsLate ==
    ASSUME IndInv, NEW t \in Txn, NEW ts \in Nat, NEW cur \in Nat, StatusPushed(t, ts, cur),
           UNCHANGED commitReq
    PROVE  Late(t, ts)'
<1>0. minCommit[t] \in Nat /\ commitReq[t] \subseteq Nat /\ minCommit \in [Txn -> Nat]
  BY DEF IndInv, TypeOK, StoreTypeOK
<1>1. lock[Primary[t]] = t /\ UNCHANGED <<lock, write>> /\ minCommit'[t] > ts /\ minCommit'[t] \in Nat
  BY <1>0 DEF StatusPushed
<1>2. \A w \in write[Primary[t]] : w.txn # t
  BY <1>1 DEF IndInv, LockedIsOpen
<1> QED BY <1>0, <1>1, <1>2 DEF Late, Dead, CommitsOf, InfoOf

-----------------------------------------------------------------------------
(* What a read finds. *)

(* A transaction that writes k and is in the snapshot by its primary has   *)
(* its record on k, or still holds the lock there.                         *)
LEMMA InSnapshotFound ==
    ASSUME IndInv, NEW k \in Key, NEW ts \in Nat, NEW t \in Txn, k \in Keys[t] \ LockOnly[t],
           NEW v \in CommitsOf(t, Primary[t]), v.commit <= ts
    PROVE  /\ v.commit \in commitReq[t] /\ startTS[t] < v.commit /\ ~Late(t, ts)
           /\ lock[k] # t => \E w \in write[k] : w.txn = t /\ w.type = "Put" /\ w.commit = v.commit
<1>0. /\ write \in [Key -> SUBSET Record] /\ startTS \in [Txn -> Nat] /\ k \in Keys[t] /\ k \notin LockOnly[t]
      /\ Primary[t] \in Key /\ v \in InfoOf(t, Primary[t]) /\ v.type # "Rollback"
  BY DEF IndInv, TypeOK, StoreTypeOK, CommitsOf
<1>1. v.commit = StatusOf(v) /\ v.commit # 0 /\ v.commit \in commitReq[t] /\ StatusOf(v) \in OutcomeOf(t)
  BY <1>0, RecordSays
<1>2. startTS[t] < v.commit
  BY <1>1 DEF IndInv, Traces
<1>3. ~Late(t, ts)
  BY <1>1 DEF Late, Dead
<1>4. ASSUME lock[k] # t
      PROVE  \E w \in write[k] : w.txn = t /\ w.type = "Put" /\ w.commit = v.commit
  <2>1. k \in acked[t]
    BY <1>0, <1>1 DEF IndInv, AckedHolds
  <2>2. PICK w \in InfoOf(t, k) : TRUE
    BY <1>4, <2>1 DEF IndInv, AckedHolds
  <2>3. StatusOf(w) \in OutcomeOf(t) /\ w \in write[k] /\ w.txn = t /\ w \in Record
    BY <1>0, <2>2, RecordSays DEF InfoOf
  <2>4. StatusOf(w) = v.commit
    BY <1>1, <2>3, OneOutcome
  <2>5. w.type # "Rollback" /\ w.commit = v.commit
    BY <1>1, <2>4 DEF StatusOf
  <2>6. w.type = "Put"
    BY <1>0, <2>3, <2>5 DEF IndInv, WellFormed, Record, WriteType
  <2> QED BY <2>3, <2>5, <2>6
<1> QED BY <1>1, <1>2, <1>3, <1>4

(* A value on a key is in the snapshot by the primary of its writer.       *)
LEMMA PutInSnapshot ==
    ASSUME IndInv, NEW k \in Key, NEW w \in write[k], w.type = "Put"
    PROVE  /\ w.txn \in Txn /\ k \in Keys[w.txn] \ LockOnly[w.txn]
           /\ \E v \in CommitsOf(w.txn, Primary[w.txn]) : v.commit = w.commit
<1>0. w \in Record /\ w.txn \in Txn /\ w.commit \in Nat \ {0} /\ write \in [Key -> SUBSET Record]
  BY DEF IndInv, TypeOK, StoreTypeOK, Record
<1>1. k \in Keys[w.txn] \ LockOnly[w.txn]
  BY DEF IndInv, WellFormed
<1>2. w.commit \in OutcomeOf(w.txn)
  BY DEF IndInv, PrimaryDecides, StatusOf
<1>3. PICK v \in write[Primary[w.txn]] : v.txn = w.txn /\ w.commit = StatusOf(v)
  BY <1>0, <1>2, OutcomeDef
<1>4. v.type # "Rollback" /\ v.commit = w.commit
  BY <1>0, <1>3 DEF StatusOf
<1> QED BY <1>0, <1>1, <1>3, <1>4 DEF CommitsOf, InfoOf

(* Two commits at one version are of one transaction.                      *)
LEMMA OneTxnPerVersion ==
    ASSUME IndInv, NEW t \in Txn, NEW u \in Txn, NEW c \in commitReq[t], c \in commitReq[u]
    PROVE  t = u
<1>1. c # 0
  BY DEF IndInv, TypeOK, Traces
<1> QED BY <1>1 DEF IndInv, UniqueTS, Timestamps

(* The value of a snapshot is that of its last commit.                     *)
LEMMA SnapshotValueIs ==
    ASSUME IndInv, NEW k \in Key, NEW ts \in Nat
    PROVE  /\ InSnapshot(k, ts) = {} => SnapshotValue(k, ts) = NoTxn
           /\ \A v \in InSnapshot(k, ts) :
                 (\A x \in InSnapshot(k, ts) : x.commit <= v.commit) => SnapshotValue(k, ts) = v.txn
<1>1. ASSUME NEW v \in InSnapshot(k, ts), \A x \in InSnapshot(k, ts) : x.commit <= v.commit
      PROVE  SnapshotValue(k, ts) = v.txn
  <2> DEFINE w == CHOOSE y \in InSnapshot(k, ts) : \A x \in InSnapshot(k, ts) : x.commit <= y.commit
  <2>1. w \in InSnapshot(k, ts) /\ \A x \in InSnapshot(k, ts) : x.commit <= w.commit
    BY <1>1
  <2>2. SnapshotValue(k, ts) = w.txn
    BY <1>1 DEF SnapshotValue
  <2> HIDE DEF w
  <2>3. \A y \in InSnapshot(k, ts) :
          y.txn \in Txn /\ y.commit \in Nat /\ y.commit \in commitReq[y.txn]
    <3> SUFFICES ASSUME NEW y \in InSnapshot(k, ts)
                 PROVE  y.txn \in Txn /\ y.commit \in Nat /\ y.commit \in commitReq[y.txn]
      OBVIOUS
    <3>1. PICK t \in Txn : y \in CommitsOf(t, Primary[t])
      BY DEF InSnapshot
    <3>2. y \in write[Primary[t]] /\ y.txn = t /\ y.type # "Rollback" /\ Primary[t] \in Key
      BY <3>1 DEF CommitsOf, InfoOf
    <3> QED BY <3>2 DEF IndInv, WellFormed, TypeOK
  <2>4. w.commit = v.commit
    BY <1>1, <2>1, <2>3
  <2>5. w.txn = v.txn
    BY <1>1, <2>1, <2>3, <2>4, OneTxnPerVersion
  <2> QED BY <2>2, <2>5
<1> QED BY <1>1 DEF SnapshotValue

(* After a read of k, whoever writes k is late for the snapshot or has     *)
(* committed: a lock that was not there means that no commit was sent.     *)
LEMMA ReadSettles ==
    ASSUME IndInv, ReadersKnow, NEW r \in Reader, NEW k \in Key, Read(r, k),
           NEW t \in Txn, k \in Keys[t] \ LockOnly[t]
    PROVE  CommittedOn(t, Primary[t]) \/ Late(t, rts[r])
<1>0. /\ rts[r] \in Nat /\ startTS \in [Txn -> Nat] /\ commitReq[t] \subseteq Nat
      /\ lock \in [Key -> Txn \cup {NoTxn}] /\ write \in [Key -> SUBSET Record]
  BY DEF IndInv, TypeOK, StoreTypeOK
<1>1. CASE lock[k] = t
  <2>1. CASE LockBlocks(k, rts[r], ignore[r])
    BY <1>1, <2>1 DEF Read, ReadersKnow, ReaderKnows, CommittedOn
  <2>2. CASE t \in ignore[r]
    BY <2>2 DEF ReadersKnow, ReaderKnows
  <2>3. CASE ~(startTS[t] <= rts[r])
    <3>1. \A c \in commitReq[t] : startTS[t] < c
      BY DEF IndInv, Traces
    <3> QED BY <1>0, <2>3, <3>1 DEF Late
  <2> QED BY <1>1, <2>1, <2>2, <2>3 DEF LockBlocks
<1>2. CASE lock[k] # t /\ InfoOf(t, k) = {}
  <2>1. commitReq[t] = {}
    BY <1>2 DEF IndInv, AckedHolds
  <2> QED BY <2>1 DEF Late
<1>3. CASE InfoOf(t, k) # {}
  <2>1. PICK w \in InfoOf(t, k) : TRUE
    BY <1>3
  <2>2. StatusOf(w) \in OutcomeOf(t)
    BY <2>1, RecordSays
  <2> QED BY <1>0, <2>2, StatusSorts DEF CommittedOn
<1> QED BY <1>1, <1>2, <1>3

(* A read returns the value of the snapshot, from the records or from a    *)
(* lock whose owner is committed.                                          *)
LEMMA ReadRight ==
    ASSUME IndInv, ReadersKnow, NEW r \in Reader, NEW k \in Key, Read(r, k)
    PROVE  reads'[r] = {<<rts[r], k, SnapshotValue(k, rts[r])>>}
<1> DEFINE ts == rts[r]
           viaLock == LockBlocks(k, ts, ignore[r])
           v == IF viaLock THEN lock[k] ELSE ValueAt(k, ts)
<1>0. /\ ts \in Nat /\ startTS \in [Txn -> Nat] /\ reads \in [Reader -> SUBSET (Nat \X Key \X (Txn \cup {NoTxn}))]
      /\ lock \in [Key -> Txn \cup {NoTxn}] /\ write \in [Key -> SUBSET Record]
      /\ \A w \in write[k] : w \in Record /\ w.commit \in Nat
  BY DEF IndInv, TypeOK, StoreTypeOK, Record
<1>1. reads'[r] = {<<ts, k, v>>} /\ (viaLock => lock[k] \in access[r])
  BY <1>0 DEF Read
<1>2. ASSUME NEW x \in InSnapshot(k, ts)
      PROVE  /\ x.txn \in Txn /\ k \in Keys[x.txn] \ LockOnly[x.txn]
             /\ x \in CommitsOf(x.txn, Primary[x.txn]) /\ x.commit <= ts
  BY <1>2 DEF InSnapshot, CommitsOf, InfoOf
<1>3. ASSUME NEW t \in Txn, k \in Keys[t] \ LockOnly[t],
             NEW x \in CommitsOf(t, Primary[t]), x.commit <= ts
      PROVE  x \in InSnapshot(k, ts) /\ x.txn = t
  BY <1>3 DEF InSnapshot, CommitsOf, InfoOf
<1>4. CASE viaLock
  <2> DEFINE t == lock[k]
  <2>1. /\ t \in Txn /\ k \in Keys[t] \ LockOnly[t]
    BY <1>0, <1>4 DEF LockBlocks, IndInv, WellFormed
  <2>2. PICK x \in CommitsOf(t, Primary[t]) : x.commit <= ts
    BY <1>1, <1>4 DEF ReadersKnow, ReaderKnows
  <2>3. x \in InSnapshot(k, ts) /\ x.txn = t /\ startTS[t] < x.commit /\ x.commit \in commitReq[t]
    BY <1>0, <1>3, <2>1, <2>2, InSnapshotFound
  <2>4. x.commit \in Nat
    BY <2>1, <2>3 DEF IndInv, TypeOK
  <2>5. ASSUME NEW y \in InSnapshot(k, ts) PROVE y.commit <= x.commit
    <3>1. CASE y.txn = t
      <4>1. y = x
        BY <1>2, <2>1, <2>2, <2>5, <3>1 DEF CommitsOf, InfoOf, IndInv, OneRecord
      <4> QED BY <2>4, <4>1
    <3>2. CASE y.txn # t
      <4>1. PICK u \in Txn : u = y.txn
        BY <1>2, <2>5
      <4>2. /\ k \in Keys[u] \ LockOnly[u] /\ y \in CommitsOf(u, Primary[u]) /\ y.commit <= ts
            /\ lock[k] # u
        BY <1>2, <2>5, <3>2, <4>1
      <4>3. PICK w \in write[k] : w.txn = u /\ w.type = "Put" /\ w.commit = y.commit
        BY <1>0, <4>2, InSnapshotFound
      <4>4. w.commit < startTS[t]
        BY <1>0, <2>1, <4>3 DEF IndInv, LockAfterCommits
      <4> QED BY <1>0, <2>1, <2>3, <2>4, <4>3, <4>4
    <3> QED BY <3>1, <3>2
  <2>6. SnapshotValue(k, ts) = t
    BY <1>0, <2>3, <2>5, SnapshotValueIs
  <2> QED BY <1>1, <1>4, <2>6
<1>5. CASE ~viaLock
  <2>1. ASSUME NEW x \in InSnapshot(k, ts)
        PROVE  \E w \in Puts(k, ts) : w.txn = x.txn /\ w.commit = x.commit
    <3>1. startTS[x.txn] < x.commit /\ ~Late(x.txn, ts) /\ x.commit \in commitReq[x.txn]
      BY <1>0, <1>2, <2>1, InSnapshotFound
    <3>2. x.commit \in Nat /\ startTS[x.txn] \in Nat
      BY <1>0, <1>2, <2>1, <3>1 DEF IndInv, TypeOK
    <3>3. x.txn \notin ignore[r]
      BY <3>1 DEF ReadersKnow, ReaderKnows
    <3>4. startTS[x.txn] <= ts
      BY <1>0, <1>2, <2>1, <3>1, <3>2
    <3>5. lock[k] # x.txn
      BY <1>2, <1>5, <2>1, <3>3, <3>4 DEF LockBlocks
    <3>6. \E w \in write[k] : w.txn = x.txn /\ w.type = "Put" /\ w.commit = x.commit
      BY <1>0, <1>2, <2>1, <3>5, InSnapshotFound
    <3> QED BY <1>2, <2>1, <3>6 DEF Puts
  <2>2. ASSUME NEW w \in Puts(k, ts)
        PROVE  \E x \in InSnapshot(k, ts) : w.txn = x.txn /\ w.commit = x.commit
    <3>1. w \in write[k] /\ w.type = "Put" /\ w.commit <= ts
      BY <2>2 DEF Puts
    <3> QED BY <1>3, <3>1, PutInSnapshot
  <2>3. CASE Puts(k, ts) = {}
    <3>1. ValueAt(k, ts) = NoTxn
      BY <2>3 DEF ValueAt
    <3>2. SnapshotValue(k, ts) = NoTxn
      BY <1>0, <2>1, <2>3, SnapshotValueIs
    <3> QED BY <1>1, <1>5, <3>1, <3>2
  <2>4. CASE Puts(k, ts) # {}
    <3> DEFINE w == CHOOSE y \in Puts(k, ts) : \A x \in Puts(k, ts) : x.commit <= y.commit
    <3>1. \A y \in Puts(k, ts) : y.commit \in Nat /\ y.commit <= ts
      BY <1>0 DEF Puts
    <3>2. \E y \in Puts(k, ts) : \A x \in Puts(k, ts) : x.commit <= y.commit
      BY <1>0, <2>4, <3>1, LargestVersion
    <3>3. w \in Puts(k, ts) /\ \A x \in Puts(k, ts) : x.commit <= w.commit
      BY <3>2
    <3>4. ValueAt(k, ts) = w.txn
      BY <2>4 DEF ValueAt
    <3> HIDE DEF w
    <3>5. PICK x \in InSnapshot(k, ts) : w.txn = x.txn /\ w.commit = x.commit
      BY <2>2, <3>3
    <3>6. \A y \in InSnapshot(k, ts) : y.commit <= x.commit
      BY <2>1, <3>3, <3>5
    <3>7. SnapshotValue(k, ts) = w.txn
      BY <1>0, <3>5, <3>6, SnapshotValueIs
    <3> QED BY <1>1, <1>5, <3>4, <3>7
  <2> QED BY <2>3, <2>4
<1> QED BY <1>4, <1>5

-----------------------------------------------------------------------------
(* What a reader knows of its snapshot stays true, whoever takes a step.   *)
LEMMA KnowledgeStays ==
    ASSUME SnapshotInv, Next, NEW r \in Reader, NEW ts \in Nat, rts[r] <= ts, ts <= tso
    PROVE  /\ ts <= tso'
           /\ ts = rts[r] => \A t \in ignore[r] : Late(t, ts)'
           /\ \A t \in access[r] : \E w \in CommitsOf(t, Primary[t])' : w.commit <= ts
<1>0. /\ tso \in Nat /\ tso' \in Nat /\ rts[r] \in Nat /\ IndInv /\ ReaderKnows(r)
      /\ ignore[r] \subseteq Txn /\ access[r] \subseteq Txn
      /\ \A t \in Txn : \A w \in CommitsOf(t, Primary[t]) : w.commit \in Nat
  BY StepShape DEF SnapshotInv, IndInv, TypeOK, StoreTypeOK, ReadersKnow, CommitsOf, InfoOf, Record
<1>1. ts <= tso'
  BY <1>0, VersionsStep DEF VersionsGrow
<1>2. ASSUME ts = rts[r], NEW t \in ignore[r] PROVE Late(t, ts)'
  <2>1. t \in Txn /\ Late(t, ts)
    BY <1>0, <1>2 DEF ReaderKnows
  <2> QED BY <1>0, <2>1, LateStays
<1>3. ASSUME NEW t \in access[r] PROVE \E w \in CommitsOf(t, Primary[t])' : w.commit <= ts
  <2>1. t \in Txn
    BY <1>0
  <2>2. PICK w \in CommitsOf(t, Primary[t]) : w.commit <= rts[r]
    BY <1>0 DEF ReaderKnows
  <2>3. w \in CommitsOf(t, Primary[t])' /\ w.commit <= ts
    BY <1>0, <2>1, <2>2, CommitsStay
  <2> QED BY <2>3
<1> QED BY <1>1, <1>2, <1>3

(* What a reader returned stays the value of its snapshot: whoever writes  *)
(* the key has committed, or is too late to.                               *)
LEMMA ReadStays ==
    ASSUME IndInv, Next, NEW k \in Key, NEW ts \in Nat, ts <= tso,
           \A t \in Txn : k \in Keys[t] \ LockOnly[t] => CommittedOn(t, Primary[t]) \/ Late(t, ts)
    PROVE  /\ ts <= tso'
           /\ \A t \in Txn : k \in Keys[t] \ LockOnly[t] =>
                 CommittedOn(t, Primary[t])' \/ Late(t, ts)'
           /\ SnapshotValue(k, ts)' = SnapshotValue(k, ts)
<1>1. ts <= tso'
  <2>1. tso \in Nat /\ tso' \in Nat
    BY StepShape DEF IndInv, TypeOK
  <2> QED BY <2>1, VersionsStep DEF VersionsGrow
<1>2. ASSUME NEW t \in Txn, k \in Keys[t] \ LockOnly[t]
      PROVE  CommittedOn(t, Primary[t])' \/ Late(t, ts)'
  BY <1>2, CommitsStay, LateStays
<1> QED BY <1>1, <1>2, SnapshotFixed

(* A reader's answers are those of its snapshot. *)
ReadsRight(r) == \A p \in reads[r] : p[3] = SnapshotValue(p[2], p[1])

(* The invariant after a step, for a reader that returned nothing new.     *)
LEMMA AnswersStay ==
    ASSUME SnapshotInv, Next, NEW r \in Reader, NEW p \in reads[r]
    PROVE  /\ p[1] <= tso'
           /\ \A t \in Txn : p[2] \in Keys[t] \ LockOnly[t] =>
                 CommittedOn(t, Primary[t])' \/ Late(t, p[1])'
           /\ p[3] = SnapshotValue(p[2], p[1])'
<1>1. IndInv /\ p[1] \in Nat /\ p[2] \in Key
  BY DEF SnapshotInv, IndInv, TypeOK
<1>2. /\ p[1] <= tso /\ p[3] = SnapshotValue(p[2], p[1])
      /\ \A t \in Txn : p[2] \in Keys[t] \ LockOnly[t] => CommittedOn(t, Primary[t]) \/ Late(t, p[1])
  BY DEF SnapshotInv, ReadersKnow, ReaderKnows, ReadsSnapshot
<1>3. PICK k \in Key, ts \in Nat : k = p[2] /\ ts = p[1]
  BY <1>1
<1>4. /\ ts <= tso'
      /\ \A t \in Txn : k \in Keys[t] \ LockOnly[t] => CommittedOn(t, Primary[t])' \/ Late(t, ts)'
      /\ SnapshotValue(k, ts)' = SnapshotValue(k, ts)
  BY <1>1, <1>2, <1>3, ReadStays
<1> QED BY <1>2, <1>3, <1>4

(* What has to hold of a reader's new snapshot version, transactions and   *)
(* answers for the invariant to hold after a step.                         *)
LEMMA ReaderAfter ==
    ASSUME SnapshotInv, Next, NEW r \in Reader, NEW ts \in Nat,
           rts'[r] = ts, rts[r] <= ts, ts <= tso,
           ts = 0 => wait'[r] = NoTxn /\ ignore'[r] = {},
           \A t \in ignore'[r] : (ts = rts[r] /\ t \in ignore[r]) \/ Late(t, ts)',
           \A t \in access'[r] :
              t \in access[r] \/ \E w \in CommitsOf(t, Primary[t])' : w.commit <= ts,
           reads'[r] \subseteq reads[r]
    PROVE  ReaderKnows(r)' /\ ReadsRight(r)'
<1>1. /\ rts'[r] <= tso'
      /\ \A t \in ignore'[r] : Late(t, ts)'
      /\ \A t \in access'[r] : \E w \in CommitsOf(t, Primary[t])' : w.commit <= ts
  BY KnowledgeStays
<1>2. \A p \in reads'[r] :
        /\ p[1] <= tso'
        /\ \A t \in Txn : p[2] \in Keys[t] \ LockOnly[t] =>
              CommittedOn(t, Primary[t])' \/ Late(t, p[1])'
        /\ p[3] = SnapshotValue(p[2], p[1])'
  BY AnswersStay
<1>3. \A t \in ignore'[r] : Late(t, rts[r])'
  BY <1>1
<1> QED BY <1>1, <1>2, <1>3 DEF ReaderKnows, ReadsRight

(* ... for a reader of which nothing changes.                              *)
LEMMA ReaderSame ==
    ASSUME SnapshotInv, Next, NEW r \in Reader,
           rts'[r] = rts[r], wait'[r] = wait[r], ignore'[r] = ignore[r],
           access'[r] = access[r], reads'[r] = reads[r]
    PROVE  ReaderKnows(r)' /\ ReadsRight(r)'
<1>1. rts[r] \in Nat /\ ReaderKnows(r)
  BY DEF SnapshotInv, IndInv, TypeOK, ReadersKnow
<1>2. PICK ts \in Nat : ts = rts[r]
  BY <1>1
<1> QED BY <1>1, <1>2, ReaderAfter DEF ReaderKnows

-----------------------------------------------------------------------------
(* The steps of a reader. *)

(* A reader opens its snapshot, or moves it forward and forgets the locks  *)
(* it ignored.                                                             *)
ForwardOnly == "back" \notin Moves

LEMMA SnapshotMoves ==
    ASSUME SnapshotInv, Next, ForwardOnly, NEW r \in Reader,
           StartRead(r) \/ \E ts \in 1 .. tso : SetSnapshotTS(r, ts)
    PROVE  ReaderKnows(r)' /\ ReadsRight(r)'
<1>1. rts \in [Reader -> Nat] /\ tso \in Nat /\ ReaderKnows(r) /\ ignore \in [Reader -> SUBSET Txn]
  BY DEF SnapshotInv, IndInv, TypeOK, ReadersKnow
<1>2. PICK ts \in 1 .. tso : rts'[r] = ts /\ rts[r] <= ts
  BY <1>1 DEF StartRead, SetSnapshotTS, ForwardOnly
<1>3. ignore'[r] = {} /\ access'[r] = access[r] /\ reads'[r] = reads[r]
  BY <1>1 DEF StartRead, SetSnapshotTS, ReaderKnows
<1>4. ts \in Nat /\ ts # 0 /\ ts <= tso
  BY <1>1
<1> QED BY <1>2, <1>3, <1>4, ReaderAfter

(* A get returns the value of the snapshot.                                *)
LEMMA GetReturns ==
    ASSUME SnapshotInv, Next, NEW r \in Reader, NEW k \in Key, Read(r, k)
    PROVE  ReaderKnows(r)' /\ ReadsRight(r)'
<1>1. rts \in [Reader -> Nat] /\ tso \in Nat /\ IndInv /\ ReadersKnow /\ ReaderKnows(r)
  BY DEF SnapshotInv, IndInv, TypeOK, ReadersKnow
<1>2. PICK ts \in Nat : ts = rts[r]
  BY <1>1
<1>3. /\ rts'[r] = ts /\ wait'[r] = wait[r] /\ ignore'[r] = ignore[r] /\ access'[r] = access[r]
      /\ ts # 0 /\ ts <= tso
  BY <1>1, <1>2 DEF Read, ReaderKnows
<1>4. /\ ts <= tso'
      /\ \A t \in ignore'[r] : Late(t, ts)'
      /\ \A t \in access'[r] : \E w \in CommitsOf(t, Primary[t])' : w.commit <= ts
  BY <1>2, <1>3, KnowledgeStays
<1>5. PICK v : v = SnapshotValue(k, ts)
  OBVIOUS
<1>6. reads'[r] = {<<ts, k, v>>}
  BY <1>1, <1>2, <1>5, ReadRight
<1>7. \A t \in Txn : k \in Keys[t] \ LockOnly[t] => CommittedOn(t, Primary[t]) \/ Late(t, ts)
  BY <1>1, <1>2, ReadSettles
<1>8. /\ \A t \in Txn : k \in Keys[t] \ LockOnly[t] => CommittedOn(t, Primary[t])' \/ Late(t, ts)'
      /\ SnapshotValue(k, ts)' = v
  BY <1>1, <1>3, <1>5, <1>7, ReadStays
<1>9. \A p \in reads'[r] : p[1] = ts /\ p[2] = k /\ p[3] = v
  BY <1>6
<1>10. \A t \in ignore'[r] : Late(t, rts[r])'
  BY <1>3, <1>4
<1>11. \A p \in reads'[r] :
        /\ p[1] <= tso' /\ p[3] = SnapshotValue(p[2], p[1])'
        /\ \A t \in Txn : p[2] \in Keys[t] \ LockOnly[t] =>
              CommittedOn(t, Primary[t])' \/ Late(t, p[1])'
  BY <1>4, <1>8, <1>9
<1> QED BY <1>3, <1>4, <1>10, <1>11 DEF ReaderKnows, ReadsRight

(* A reader waits for the transaction whose lock it met.                   *)
LEMMA GetWaits ==
    ASSUME SnapshotInv, Next, NEW r \in Reader, NEW k \in Key, ReadLocked(r, k)
    PROVE  ReaderKnows(r)' /\ ReadsRight(r)'
<1>1. rts \in [Reader -> Nat] /\ tso \in Nat /\ ReaderKnows(r)
  BY DEF SnapshotInv, IndInv, TypeOK, ReadersKnow
<1>2. PICK ts \in Nat : ts = rts[r]
  BY <1>1
<1>3. /\ rts'[r] = ts /\ ignore'[r] = ignore[r] /\ access'[r] = access[r] /\ reads'[r] = reads[r]
      /\ ts # 0 /\ ts <= tso
  BY <1>1, <1>2 DEF ReadLocked, ReaderKnows
<1> QED BY <1>1, <1>2, <1>3, ReaderAfter

(* A reader that learned the status of the transaction it waits for, from  *)
(* CheckTxnStatus or from the cache, sorts it rightly: in the state after  *)
(* the step, the status is the decision of the primary.                    *)
LEMMA StatusLearned ==
    ASSUME SnapshotInv, Next, NEW r \in Reader, NEW t \in Txn,
           ReaderCheckDetermined(r, t) \/ ReaderCheckCached(r, t)
    PROVE  ReaderKnows(r)' /\ ReadsRight(r)'
<1>1. /\ rts \in [Reader -> Nat] /\ tso \in Nat /\ ReaderKnows(r) /\ IndInv /\ IndInv'
      /\ ignore \in [Reader -> SUBSET Txn] /\ access \in [Reader -> SUBSET Txn]
      /\ wait[r] = t /\ rts[r] # 0
  BY StepShape DEF SnapshotInv, IndInv, TypeOK, ReadersKnow, ReaderKnows, ReaderCheckDetermined, ReaderCheckCached
<1>2. PICK ts \in Nat : ts = rts[r] /\ rts'[r] = ts
  BY <1>1 DEF ReaderCheckDetermined, ReaderCheckCached
<1>3. PICK s \in decided'[t] : Classify(r, t, s)
  BY DEF ReaderCheckDetermined, ReaderCheckCached, resolverVars
<1>4. /\ s = 0 \/ s > ts => Late(t, ts)'
      /\ ~(s = 0 \/ s > ts) => \E w \in CommitsOf(t, Primary[t])' : w.commit <= ts
  <2>1. PICK w \in write'[Primary[t]] : w.txn = t /\ s = StatusOf(w)
    <3>1. s \in OutcomeOf(t)'
      BY <1>1, <1>3 DEF IndInv, PrimaryDecides
    <3> QED BY <3>1, OutcomeDefPrime
  <2>2. Primary[t] \in Key /\ write' \in [Key -> SUBSET Record] /\ commitReq' \in [Txn -> SUBSET Nat]
    BY <1>1 DEF IndInv, TypeOK, StoreTypeOK
  <2>3. /\ w \in Record /\ w.commit \in Nat \ {0} /\ lock'[Primary[t]] # t
        /\ \A x \in write'[Primary[t]] : x.txn = t => x = w
    BY <1>1, <2>1, <2>2 DEF IndInv, Record, LockedIsOpen, OneRecord
  <2>4. CASE s = 0 \/ s > ts
    <3>1. ASSUME NEW c \in commitReq'[t], c <= ts PROVE Dead(t, c)'
      <4>1. c \in Nat
        BY <2>2, <3>1
      <4>2. \A x \in write'[Primary[t]] : x.txn = t /\ x.type # "Rollback" => x.commit # c
        BY <2>1, <2>3, <2>4, <3>1, <4>1 DEF StatusOf
      <4> QED BY <2>3, <4>2 DEF Dead, CommitsOf, InfoOf
    <3> QED BY <2>4, <3>1 DEF Late
  <2>5. CASE ~(s = 0 \/ s > ts)
    BY <2>1, <2>3, <2>5 DEF CommitsOf, InfoOf, StatusOf
  <2> QED BY <2>4, <2>5
<1>5. /\ s = 0 \/ s > ts => ignore'[r] = ignore[r] \cup {t} /\ access'[r] = access[r]
      /\ ~(s = 0 \/ s > ts) => ignore'[r] = ignore[r] /\ access'[r] = access[r] \cup {t}
  BY <1>1, <1>2, <1>3 DEF Classify
<1>6. reads'[r] = reads[r] /\ ts <= tso
  BY <1>1, <1>2 DEF ReaderCheckDetermined, ReaderCheckCached, ReaderKnows
<1>7. CASE s = 0 \/ s > ts
  BY <1>1, <1>2, <1>4, <1>5, <1>6, <1>7, ReaderAfter
<1>8. CASE ~(s = 0 \/ s > ts)
  BY <1>1, <1>2, <1>4, <1>5, <1>6, <1>8, ReaderAfter
<1> QED BY <1>7, <1>8

(* A reader that pushed a live lock may ignore it.                         *)
LEMMA LockPushed ==
    ASSUME SnapshotInv, Next, NEW r \in Reader, NEW t \in Txn, NEW cur \in 0 .. tso,
           ReaderCheckPush(r, t, cur)
    PROVE  ReaderKnows(r)' /\ ReadsRight(r)'
<1>1. /\ rts \in [Reader -> Nat] /\ tso \in Nat /\ ReaderKnows(r) /\ IndInv
      /\ ignore \in [Reader -> SUBSET Txn] /\ wait[r] = t /\ rts[r] # 0
  BY DEF SnapshotInv, IndInv, TypeOK, ReadersKnow, ReaderKnows, ReaderCheckPush
<1>2. PICK ts \in Nat : ts = rts[r]
  BY <1>1
<1>3. /\ rts'[r] = ts /\ ignore'[r] = ignore[r] \cup {t} /\ access'[r] = access[r]
      /\ reads'[r] = reads[r] /\ ts <= tso /\ UNCHANGED commitReq /\ StatusPushed(t, ts, cur)
  BY <1>1, <1>2 DEF ReaderCheckPush, ReaderKnows, clientVars
<1>4. Late(t, ts)'
  BY <1>1, <1>3, PushedIsLate
<1> QED BY <1>1, <1>2, <1>3, <1>4, ReaderAfter

-----------------------------------------------------------------------------
(* The theorem. *)

(* What readers know and have read stays right in every step.              *)
LEMMA SnapshotStep ==
    ASSUME SnapshotInv, Next, ForwardOnly
    PROVE  ReadersKnow' /\ ReadsSnapshot'
<1>1. TypeOK
  BY DEF SnapshotInv, IndInv
<1>2. ASSUME NEW r \in Reader PROVE ReaderKnows(r)' /\ ReadsRight(r)'
  <2>1. CASE UNCHANGED readerVars
    BY <2>1, ReaderSame DEF readerVars
  <2>2. ASSUME NEW q \in Reader, ReaderNext(q) PROVE ReaderKnows(r)' /\ ReadsRight(r)'
    <3>1. CASE q # r
      <4>1. /\ rts'[r] = rts[r] /\ wait'[r] = wait[r] /\ ignore'[r] = ignore[r]
            /\ access'[r] = access[r] /\ reads'[r] = reads[r]
        BY <1>1, <2>2, <3>1
        DEF TypeOK, ReaderNext, StartRead, SetSnapshotTS, Read, ReadLocked, ReaderCheckDetermined,
            ReaderCheckCached, ReaderCheckPush, Classify, resolverVars
      <4> QED BY <4>1, ReaderSame
    <3>2. CASE q = r
      BY <2>2, <3>2, SnapshotMoves, GetReturns, GetWaits, StatusLearned, LockPushed DEF ReaderNext
    <3> QED BY <3>1, <3>2
  <2>3. (\E q \in Reader : ReaderNext(q)) \/ UNCHANGED readerVars
    BY StepKinds
    DEF ClientStep, Begin, GetCommitTS, CommitPrimaryExpired, Prewrite, WriteStep, CheckTxnStatus,
        OtherStep, SendCommitPrimary, PrewriteSucceed, PrewriteFail, CommitPrimarySucceed,
        CommitPrimaryExpiredFail, CommitPrimaryNotFound, CommitPrimaryRPCError, CommitUndetermined,
        CommitRegionErrorFail, CommitUndeterminedResult, CleanupPrimarySucceed,
        CleanupPrimaryCommitted, CommitPrimary, CommitSecondary, BatchRollback, ResolveLock,
        PrewriteLocked, ScanLock, CheckTxnStatusPush
  <2> QED BY <2>1, <2>2, <2>3
<1> QED BY <1>2 DEF ReadersKnow, ReadsSnapshot, ReadsRight

(* Snapshot reads: as long as applications move an open snapshot only      *)
(* forward, whatever a reader returned is the value of its snapshot and    *)
(* stays it, for any number of transactions, keys and readers.             *)
THEOREM SnapshotReads == ForwardOnly => (Spec => []ReadsSnapshot)
<1> SUFFICES ASSUME ForwardOnly PROVE Spec => []ReadsSnapshot
  OBVIOUS
<1>1. Init => ReadersKnow /\ ReadsSnapshot
  BY DEF Init, ReadersKnow, ReaderKnows, ReadsSnapshot
<1>2. IndInv /\ (ReadersKnow /\ ReadsSnapshot) /\ [Next]_vars => (ReadersKnow /\ ReadsSnapshot)'
  <2> SUFFICES ASSUME IndInv, ReadersKnow, ReadsSnapshot, [Next]_vars
               PROVE  ReadersKnow' /\ ReadsSnapshot'
    OBVIOUS
  <2>1. CASE Next
    BY <2>1, SnapshotStep DEF SnapshotInv
  <2>2. CASE UNCHANGED vars
    <3>1. UNCHANGED <<tso, lock, minCommit, write, commitReq, rts, wait, ignore, access, reads>>
      BY <2>2 DEF vars, readerVars, clientVars, storeVars
    <3>2. \A t \in Txn, k \in Key : CommitsOf(t, k)' = CommitsOf(t, k)
      BY <3>1 DEF CommitsOf, InfoOf
    <3>3. \A t \in Txn : \A ts : Late(t, ts)' <=> Late(t, ts)
      BY <3>1, <3>2 DEF Late, Dead
    <3>4. \A t \in Txn : CommittedOn(t, Primary[t])' <=> CommittedOn(t, Primary[t])
      BY <3>2 DEF CommittedOn
    <3>5. \A k, ts : SnapshotValue(k, ts)' = SnapshotValue(k, ts)
      BY <3>1 DEF SnapshotValue, InSnapshot, CommitsOf, InfoOf
    <3>6. ReadersKnow'
      BY <3>1, <3>2, <3>3, <3>4 DEF ReadersKnow, ReaderKnows, IndInv, TypeOK
    <3>7. ReadsSnapshot'
      BY <3>1, <3>5 DEF ReadsSnapshot
    <3> QED BY <3>6, <3>7
  <2> QED BY <2>1, <2>2
<1> QED BY <1>1, <1>2, Invariance, PTL DEF Spec
=============================================================================
