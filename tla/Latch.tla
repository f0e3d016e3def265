-------------------------------- MODULE Latch --------------------------------
(***************************************************************************)
(* The local latches (internal/latch): transactions of one client that     *)
(* write the same keys take turns before they start two-phase commit.  A   *)
(* latch is a hash slot with a list of nodes, one per key, and a queue of  *)
(* waiting locks.  Locks are taken key by key in key order, by the caller  *)
(* of Lock() and, once it had to wait, by the scheduler's goroutine, which *)
(* also releases them.  A transaction that started before the last commit  *)
(* of one of its keys is stale and is told so instead of going on.         *)
(***************************************************************************)
EXTENDS Integers, Sequences, SequencesExt, FiniteSets, FiniteSetsExt

CONSTANTS
    Lock,        \* transactions, one Lock value each
    Key,
    Slot,        \* hash slots
    SlotOf,      \* SlotOf[k]: slotID(k)
    Keys,        \* Keys[l]: the keys of l
    None,        \* nil
    ListCount,   \* latchListCount
    Expire,      \* expireDuration
    CheckEvery,  \* checkInterval
    ChanSize,    \* lockChanSize
    MaxTS,       \* bound on timestamps
    MayClose     \* whether the scheduler is ever closed

ASSUME ChanAssumption == ChanSize \in Nat \ {0}
ASSUME KeysAssumption == \A l \in Lock : Keys[l] # {} /\ Keys[l] \subseteq Key /\ IsFiniteSet(Keys[l])
ASSUME SlotAssumption == SlotOf \in [Key -> Slot] /\ None \notin Lock
ASSUME TimeAssumption == {MaxTS, Expire} \subseteq Nat

genLock_Unsorted ==
    [l \in Lock |-> IF l = CHOOSE m \in Lock : Cardinality(Keys[m]) = 2
                      THEN SetToSortSeq(Keys[l], >) ELSE SetToSortSeq(Keys[l], <)]

(* genLock sorts the keys; they are acquired in this order. *)
genLock == [l \in Lock |-> SetToSortSeq(Keys[l], <)]

ASSUME GenLockAssumption ==
    \A l \in Lock : /\ genLock[l] \in Seq(Keys[l]) /\ Range(genLock[l]) = Keys[l]
                    /\ IsInjective(genLock[l])

VARIABLES
    tso,       \* the last timestamp issued
    startTS,   \* startTS[l]
    commitTS,  \* commitTS[l], 0 unless the transaction committed
    pc,        \* pc[l]: the goroutine of l
    acquired,  \* acquired[l]: acquiredCount
    stale,     \* stale[l]: isStale
    node,      \* node[k]: the list node of k: present, maxCommitTS and holder
    waiting,   \* waiting[s]: the waiting queue of slot s
    unlockCh,  \* locks on their way to the scheduler
    closed,
    sched,     \* the scheduler: what it releases and whom it has to wake up
    recycling, \* slots a spawned recycle has yet to visit, with its timestamp
    lastRecycle,
    newest     \* history: the largest commit version of each key, ever

lockVars == <<startTS, commitTS, pc, acquired, stale>>
latchVars == <<node, waiting>>
schedVars == <<unlockCh, closed, sched, recycling, lastRecycle>>
vars == <<tso, lockVars, latchVars, schedVars, newest>>

Node == [in : BOOLEAN, max : 0 .. MaxTS, val : Lock \cup {None}]
NoNode == [in |-> FALSE, max |-> 0, val |-> None]
SchedIdle == [pc |-> "idle", lock |-> None, wake |-> <<>>]

TypeOK ==
    /\ tso \in 0 .. MaxTS
    /\ startTS \in [Lock -> 0 .. MaxTS] /\ commitTS \in [Lock -> 0 .. MaxTS]
    /\ pc \in [Lock -> {"init", "begun", "acquire", "wait", "held", "done"}]
    /\ \A l \in Lock : acquired[l] \in 0 .. Len(genLock[l])
    /\ stale \in [Lock -> BOOLEAN]
    /\ node \in [Key -> Node]
    /\ \A s \in Slot : waiting[s] \in Seq(Lock)
    /\ unlockCh \in Seq(Lock) /\ Len(unlockCh) <= ChanSize
    /\ closed \in BOOLEAN
    /\ sched.pc \in {"idle", "release", "wakeup"}
    /\ recycling \subseteq (Slot \X (0 .. MaxTS))
    /\ newest \in [Key -> 0 .. MaxTS]

Init ==
    /\ tso = 0
    /\ startTS = [l \in Lock |-> 0] /\ commitTS = [l \in Lock |-> 0]
    /\ pc = [l \in Lock |-> "init"]
    /\ acquired = [l \in Lock |-> 0] /\ stale = [l \in Lock |-> FALSE]
    /\ node = [k \in Key |-> NoNode]
    /\ waiting = [s \in Slot |-> <<>>]
    /\ unlockCh = <<>> /\ closed = FALSE
    /\ sched = SchedIdle
    /\ recycling = {} /\ lastRecycle = 0
    /\ newest = [k \in Key |-> 0]

-----------------------------------------------------------------------------
(* Faulty: one time unit too early. *)
recycle_TooSoon(nodes, s, ts) ==
    [k \in Key |->
       IF SlotOf[k] = s /\ nodes[k].in /\ nodes[k].val = None /\ ts - nodes[k].max >= Expire - 1
         THEN NoNode ELSE nodes[k]]

(* recycle: the nodes of slot s nobody holds and nobody committed lately. *)
recycle(nodes, s, ts) ==
    [k \in Key |->
       IF SlotOf[k] = s /\ nodes[k].in /\ nodes[k].val = None /\ ts - nodes[k].max >= Expire
         THEN NoNode ELSE nodes[k]]

count(s) == Cardinality({k \in Key : SlotOf[k] = s /\ node[k].in})

recycled(l, s) == IF count(s) >= ListCount THEN recycle(node, s, startTS[l]) ELSE node

(* acquireSlot: the next key of l.  The result is where l's goroutine goes *)
(* from here: on to the next key, out of Lock(), or into the queue.        *)
acquireSlot(l) ==
    LET k == genLock[l][acquired[l] + 1]
        s == SlotOf[k]
        nodes == recycled(l, s)
    IN  \/ /\ ~nodes[k].in \/ (nodes[k].max <= startTS[l] /\ nodes[k].val = None)
           /\ node' = [nodes EXCEPT ![k].in = TRUE, ![k].val = l]
           /\ acquired' = [acquired EXCEPT ![l] = @ + 1]
           /\ pc' = [pc EXCEPT ![l] =
                       IF acquired'[l] = Len(genLock[l]) THEN "held" ELSE @]
           /\ UNCHANGED <<waiting, stale>>
        \/ /\ nodes[k].in /\ nodes[k].max > startTS[l]
           /\ stale' = [stale EXCEPT ![l] = TRUE]
           /\ pc' = [pc EXCEPT ![l] = "held"]
           /\ node' = nodes
           /\ UNCHANGED <<waiting, acquired>>
        \/ /\ nodes[k].in /\ nodes[k].max <= startTS[l] /\ nodes[k].val # None
           /\ waiting' = [waiting EXCEPT ![s] = Append(@, l)]
           /\ pc' = [pc EXCEPT ![l] = "wait"]
           /\ node' = nodes
           /\ UNCHANGED <<acquired, stale>>

(* The first lock in the queue of k's slot that waits for k itself. *)
Waits(s, k) == {i \in 1 .. Len(waiting[s]) : genLock[waiting[s][i]][acquired[waiting[s][i]] + 1] = k}

(* releaseSlot: the last key l acquired.  One waiter is taken from the     *)
(* queue; it is given the key at once only when it turned out stale.       *)
releaseSlot(l) ==
    LET k == genLock[l][acquired[l]]
        s == SlotOf[k]
        max == Max({node[k].max, commitTS[l]})
        less == [acquired EXCEPT ![l] = @ - 1]
    IN  IF Waits(s, k) = {}
          THEN /\ node' = [node EXCEPT ![k].max = max, ![k].val = None]
               /\ acquired' = less
               /\ UNCHANGED <<waiting, stale, sched>>
          ELSE LET i == Min(Waits(s, k))
                   next == waiting[s][i]
                   late == max > startTS[next]
               IN  /\ waiting' = [waiting EXCEPT ![s] = RemoveAt(@, i)]
                   /\ node' = [node EXCEPT ![k].max = max,
                                           ![k].val = IF late THEN next ELSE None]
                   /\ acquired' = IF late THEN [less EXCEPT ![next] = @ + 1] ELSE less
                   /\ stale' = [stale EXCEPT ![next] = @ \/ late]
                   /\ sched' = [sched EXCEPT !.wake = Append(@, next)]

-----------------------------------------------------------------------------
(* The transactions. *)

Begin(l) ==
    /\ pc[l] = "init" /\ tso < MaxTS
    /\ tso' = tso + 1
    /\ startTS' = [startTS EXCEPT ![l] = tso']
    /\ pc' = [pc EXCEPT ![l] = "begun"]
    /\ UNCHANGED <<commitTS, acquired, stale, latchVars, schedVars, newest>>

(* Lock(): genLock, then acquire. *)
CallLock(l) ==
    /\ pc[l] = "begun"
    /\ pc' = [pc EXCEPT ![l] = "acquire"]
    /\ UNCHANGED <<tso, startTS, commitTS, acquired, stale, latchVars, schedVars, newest>>

Acquire(l) ==
    /\ pc[l] = "acquire"
    /\ acquireSlot(l)
    /\ UNCHANGED <<tso, startTS, commitTS, schedVars, newest>>

(* The transaction commits, fails, or finds that it is stale, and unlocks. *)
UnLock(l, commits) ==
    /\ pc[l] = "held"
    /\ commits => ~stale[l] /\ tso < MaxTS
    /\ tso' = IF commits THEN tso + 1 ELSE tso
    /\ commitTS' = [commitTS EXCEPT ![l] = IF commits THEN tso' ELSE @]
    /\ newest' = [k \in Key |-> IF commits /\ k \in Keys[l] THEN tso' ELSE newest[k]]
    /\ pc' = [pc EXCEPT ![l] = "done"]
    /\ IF closed THEN UNCHANGED unlockCh
                 ELSE Len(unlockCh) < ChanSize /\ unlockCh' = Append(unlockCh, l)
    /\ UNCHANGED <<startTS, acquired, stale, latchVars, closed, sched, recycling, lastRecycle>>

Close ==
    /\ MayClose /\ ~closed
    /\ closed' = TRUE
    /\ UNCHANGED <<tso, lockVars, latchVars, unlockCh, sched, recycling, lastRecycle, newest>>

-----------------------------------------------------------------------------
(* The scheduler's goroutine. *)

TakeUnlock ==
    /\ sched.pc = "idle" /\ unlockCh # <<>>
    /\ sched' = [pc |-> "release", lock |-> Head(unlockCh), wake |-> <<>>]
    /\ unlockCh' = Tail(unlockCh)
    /\ UNCHANGED <<tso, lockVars, latchVars, closed, recycling, lastRecycle, newest>>

Release ==
    /\ sched.pc = "release" /\ acquired[sched.lock] > 0
    /\ releaseSlot(sched.lock)
    /\ UNCHANGED <<tso, startTS, commitTS, pc, unlockCh, closed, recycling, lastRecycle, newest>>

Released ==
    /\ sched.pc = "release" /\ acquired[sched.lock] = 0
    /\ sched' = [sched EXCEPT !.pc = "wakeup"]
    /\ UNCHANGED <<tso, lockVars, latchVars, unlockCh, closed, recycling, lastRecycle, newest>>

(* wakeup: go on acquiring for a lock that waited; it returns from Lock()  *)
(* unless it has to queue again.                                           *)
WakeStale ==
    /\ sched.pc = "wakeup" /\ sched.wake # <<>> /\ stale[Head(sched.wake)]
    /\ pc' = [pc EXCEPT ![Head(sched.wake)] = "held"]
    /\ sched' = [sched EXCEPT !.wake = Tail(@)]
    /\ UNCHANGED <<tso, startTS, commitTS, acquired, stale, latchVars, unlockCh, closed,
                   recycling, lastRecycle, newest>>

WakeAcquire ==
    /\ sched.pc = "wakeup" /\ sched.wake # <<>> /\ ~stale[Head(sched.wake)]
    /\ LET l == Head(sched.wake)
       IN  /\ acquireSlot(l)
           /\ sched' = IF pc'[l] = "held" \/ waiting' # waiting
                         THEN [sched EXCEPT !.wake = Tail(@)] ELSE sched
    /\ UNCHANGED <<tso, startTS, commitTS, unlockCh, closed, recycling, lastRecycle, newest>>

(* Every now and then a commit spawns a recycle of all slots. *)
EndUnlock ==
    /\ sched.pc = "wakeup" /\ sched.wake = <<>>
    /\ LET ts == commitTS[sched.lock]
           due == ts > startTS[sched.lock] /\ ts - lastRecycle > CheckEvery
       IN  /\ recycling' = IF due THEN recycling \cup (Slot \X {ts}) ELSE recycling
           /\ lastRecycle' = IF due THEN ts ELSE lastRecycle
    /\ sched' = SchedIdle
    /\ UNCHANGED <<tso, lockVars, latchVars, unlockCh, closed, newest>>

RecycleSlot(s, ts) ==
    /\ <<s, ts>> \in recycling
    /\ node' = recycle(node, s, ts)
    /\ recycling' = recycling \ {<<s, ts>>}
    /\ UNCHANGED <<tso, lockVars, waiting, unlockCh, closed, sched, lastRecycle, newest>>

Next ==
    \/ \E l \in Lock : Begin(l) \/ CallLock(l) \/ Acquire(l)
    \/ \E l \in Lock, commits \in BOOLEAN : UnLock(l, commits)
    \/ Close \/ TakeUnlock \/ Release \/ Released \/ WakeStale \/ WakeAcquire \/ EndUnlock
    \/ \E s \in Slot, ts \in 1 .. MaxTS : RecycleSlot(s, ts)

Spec == Init /\ [][Next]_vars

(* Callers of Lock() run and unlock what they were given; the scheduler's  *)
(* goroutine runs.                                                         *)
Fairness ==
    /\ \A l \in Lock : WF_vars(Acquire(l)) /\ WF_vars(UnLock(l, FALSE) \/ UnLock(l, TRUE))
    /\ WF_vars(TakeUnlock \/ Release \/ Released \/ WakeStale \/ WakeAcquire \/ EndUnlock)

FairSpec == Spec /\ Fairness

-----------------------------------------------------------------------------
(* Two transactions never are in their critical section with a key in      *)
(* common, although a key is free for anyone between the release of a      *)
(* lock and the scheduler's attempt to acquire for the waiter it took.     *)
MutualExclusion ==
    \A l, m \in Lock :
       l # m /\ pc[l] = "held" /\ pc[m] = "held" /\ ~stale[l] /\ ~stale[m]
         => Keys[l] \cap Keys[m] = {}

(* A lock that is let through did not start before a commit of one of its  *)
(* keys, unless so long ago that the key's node may have been recycled.    *)
NoStaleLock ==
    \A l \in Lock, k \in Key :
       pc[l] = "held" /\ ~stale[l] /\ k \in Keys[l] /\ tso - newest[k] < Expire
         => newest[k] <= startTS[l]

(* releaseSlot finds every key it releases under the lock that it releases *)
(* (else it panics), and Lock() never returns a lock that is still locked. *)
NoPanic ==
    /\ \A l \in Lock : \A i \in 1 .. acquired[l] :
          node[genLock[l][i]].in /\ node[genLock[l][i]].val = l
    /\ \A l \in Lock : pc[l] = "held" => stale[l] \/ acquired[l] = Len(genLock[l])

(* All of the above: Lock, acquireSlot, releaseSlot and recycle keep       *)
(* transactions with a key in common apart, let no stale one through and   *)
(* never lose track of who holds a key.                                    *)
LatchSafe == TypeOK /\ MutualExclusion /\ NoStaleLock /\ NoPanic

(* Every call of Lock() returns while the scheduler is not closed: key     *)
(* order excludes deadlocks, and every release wakes a waiter of its key.  *)
LockReturns == \A l \in Lock : (pc[l] = "acquire") ~> (pc[l] = "held" \/ closed)

-----------------------------------------------------------------------------
(* The inductive invariant behind LatchSafe. *)

Types ==
    /\ TypeOK
    /\ acquired \in [Lock -> Nat]
    /\ waiting \in [Slot -> Seq(Lock)]
    /\ sched \in [pc : {"idle", "release", "wakeup"}, lock : Lock \cup {None}, wake : Seq(Lock)]

(* Versions come from PD; a transaction commits when it is done, and is    *)
(* given its keys until it is stale, waits, or has them all.               *)
LockPhases ==
    /\ \A l \in Lock :
          /\ startTS[l] <= tso /\ commitTS[l] <= tso
          /\ pc[l] \in {"init", "begun"} => acquired[l] = 0 /\ ~stale[l]
          /\ pc[l] = "acquire" => acquired[l] < Len(genLock[l]) /\ ~stale[l]
          /\ pc[l] = "wait" => acquired[l] < Len(genLock[l]) \/ stale[l]
          /\ pc[l] = "held" => acquired[l] = Len(genLock[l]) \/ stale[l]
    /\ \A k \in Key : newest[k] <= tso
    /\ \A p \in recycling : p[2] <= tso

(* A waiting lock is in one queue, once: that of the slot of its next key, *)
(* or the list the scheduler has to wake up.                               *)
OneQueue ==
    /\ \A s \in Slot :
          /\ IsInjective(waiting[s])
          /\ \A l \in Range(waiting[s]) :
                /\ pc[l] = "wait" /\ ~stale[l] /\ l \notin Range(sched.wake)
                /\ SlotOf[genLock[l][acquired[l] + 1]] = s
    /\ IsInjective(sched.wake)
    /\ \A l \in Range(sched.wake) : pc[l] = "wait"

(* Only transactions that are done are released.                           *)
ReleasesDone ==
    /\ \A l \in Range(unlockCh) : pc[l] = "done"
    /\ sched.pc # "idle" => sched.lock \in Lock /\ pc[sched.lock] = "done"

(* A key that a lock acquired has a node that says so, with no commit      *)
(* after the start of a lock that was let through.                         *)
HoldsKeys ==
    \A l \in Lock : \A i \in 1 .. acquired[l] :
        LET n == node[genLock[l][i]]
        IN  n.in /\ n.val = l /\ (stale[l] \/ pc[l] = "done" \/ n.max <= startTS[l])

(* The last commit of a key is in its node, or its transaction still holds *)
(* the key, or it is so old that the node may be gone.                     *)
NewestKnown ==
    \A k \in Key :
        /\ ~node[k].in => node[k] = NoNode
        /\ \/ newest[k] = 0
           \/ tso - newest[k] >= Expire
           \/ node[k].in /\ newest[k] <= node[k].max
           \/ /\ node[k].in /\ node[k].val \in Lock
              /\ pc[node[k].val] = "done" /\ newest[k] <= commitTS[node[k].val]

LatchInv ==
    /\ Types /\ LockPhases /\ OneQueue /\ ReleasesDone /\ HoldsKeys /\ NewestKnown
=============================================================================
