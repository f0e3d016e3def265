---------------------------- MODULE LocalProofs ----------------------------
(***************************************************************************)
(* Proofs about what runs within the client alone: the run loop and the    *)
(* local latches.                                                          *)
(***************************************************************************)
EXTENDS Latch, RunLoop, SequenceTheorems, WellFoundedInduction, TLAPS

-----------------------------------------------------------------------------
(***************************************************************************)
(* THE RUN LOOP.  Tasks run once each and in order, and an Exec whose      *)
(* contexts are never done leaves the loop ready for the next call, for    *)
(* any appenders and tasks.                                                *)
(***************************************************************************)

(* What a task appends are tasks.                                          *)
SpawnsTasks == Spawns \in [Task -> Seq(Task)]

LEMMA Unfold ==
    ASSUME LoopInv
    PROVE  /\ state \in {"idle", "waiting", "running"}
           /\ runnable \in Seq(Task) /\ running \in Seq(Task)
           /\ app \in [Appender -> {"start", "notify", "done"}]
           /\ exec \in {"out", "loop", "select", "canceled", "run"}
           /\ cancelable \in MayCancel /\ calls \in 0 .. MaxExec /\ refused \in BOOLEAN
           /\ appended \in Seq(Task) /\ executed \in Seq(Task)
           /\ (state = "running") = (exec = "run")
           /\ executed \o running \o runnable = appended
           /\ exec # "run" => running = <<>>
  BY DEF LoopInv, LoopTypeOK, RunInOrder

LEMMA Together ==
    ASSUME NEW x \in Seq(Task), NEW q \in Seq(Task), NEW s \in Seq(Task)
    PROVE  x \o (q \o s) = (x \o q) \o s
<1>1. (x \o q) \o s = x \o (q \o s)
  BY ConcatAssociative
<1> QED BY <1>1

(* A task runs: it and the tasks it appends keep their places.             *)
InPlace(e, r, q, s) ==
    Append(e, Head(r)) \o Tail(r) \o (q \o s) = (e \o r \o q) \o s

LEMMA TakeFirst ==
    ASSUME NEW e \in Seq(Task), NEW r \in Seq(Task), NEW q \in Seq(Task), NEW s \in Seq(Task), r # <<>>
    PROVE  /\ Head(r) \in Task /\ Tail(r) \in Seq(Task) /\ Append(e, Head(r)) \in Seq(Task)
           /\ InPlace(e, r, q, s)
<1>1. /\ Head(r) \in Task /\ Tail(r) \in Seq(Task) /\ Append(e, Head(r)) \in Seq(Task)
      /\ <<Head(r)>> \in Seq(Task)
  BY HeadTailProperties
<1>2. Append(e, Head(r)) = e \o <<Head(r)>>
  BY <1>1, AppendIsConcat
<1>3. r = <<Head(r)>> \o Tail(r)
  <2>1. <<Head(r)>> \o Tail(r) \in Seq(Task) /\ Len(<<Head(r)>>) = 1
    BY <1>1, ConcatProperties
  <2>2. Len(r) \in Nat \ {0} /\ Len(Tail(r)) = Len(r) - 1
    BY EmptySeq, HeadTailProperties
  <2>3. Len(<<Head(r)>> \o Tail(r)) = Len(r)
    BY <1>1, <2>1, <2>2, ConcatProperties
  <2>4. \A i \in 1 .. Len(r) : (<<Head(r)>> \o Tail(r))[i] = r[i]
    <3> SUFFICES ASSUME NEW i \in 1 .. Len(r) PROVE (<<Head(r)>> \o Tail(r))[i] = r[i]
      OBVIOUS
    <3>1. (<<Head(r)>> \o Tail(r))[i] = IF i <= 1 THEN <<Head(r)>>[i] ELSE Tail(r)[i - 1]
      BY <1>1, <2>1, <2>2, ConcatProperties
    <3>2. CASE i = 1
      BY <3>1, <3>2
    <3>3. CASE i > 1
      <4>1. i - 1 \in 1 .. Len(Tail(r))
        BY <2>2, <3>3
      <4>2. Tail(r)[i - 1] = r[(i - 1) + 1]
        BY <4>1, HeadTailProperties
      <4> QED BY <2>2, <3>1, <3>3, <4>2
    <3> QED BY <2>2, <3>2, <3>3
  <2> QED BY <2>1, <2>3, <2>4, SeqEqual
<1>4. Append(e, Head(r)) \o Tail(r) = e \o r
  BY <1>1, <1>2, <1>3, ConcatAssociative
<1>5. e \o r \in Seq(Task)
  BY ConcatProperties
<1>6. (e \o r) \o (q \o s) = ((e \o r) \o q) \o s
  BY <1>5, Together
<1> QED BY <1>1, <1>4, <1>6 DEF InPlace

(* Every step keeps the order of the tasks.                                *)
LEMMA OrderKept ==
    ASSUME SpawnsTasks, LoopInv, [LoopNext]_loopVars
    PROVE  /\ runnable' \in Seq(Task) /\ running' \in Seq(Task)
           /\ appended' \in Seq(Task) /\ executed' \in Seq(Task)
           /\ RunInOrder' /\ (exec' # "run" => running' = <<>>)
<1>0. /\ runnable \in Seq(Task) /\ running \in Seq(Task) /\ appended \in Seq(Task)
      /\ executed \in Seq(Task) /\ <<>> \in Seq(Task) /\ executed \o running \in Seq(Task)
      /\ executed \o running \o runnable = appended /\ (exec # "run" => running = <<>>)
  BY Unfold, ConcatProperties, EmptySeq
<1>1. ASSUME UNCHANGED <<runnable, running, appended, executed>>, exec' # "run" => exec # "run"
      PROVE  /\ runnable' \in Seq(Task) /\ running' \in Seq(Task)
             /\ appended' \in Seq(Task) /\ executed' \in Seq(Task)
             /\ RunInOrder' /\ (exec' # "run" => running' = <<>>)
  BY <1>0, <1>1 DEF RunInOrder
<1>2. CASE \E a \in Appender : Append1(a)
  <2>1. PICK a \in Appender : Append1(a)
    BY <1>2
  <2>2. /\ a \in Task /\ runnable' = Append(runnable, a) /\ appended' = Append(appended, a)
        /\ UNCHANGED <<running, exec, executed>>
    BY <2>1 DEF Append1, Task
  <2>3. /\ runnable' \in Seq(Task) /\ appended' \in Seq(Task) /\ <<a>> \in Seq(Task)
        /\ runnable' = runnable \o <<a>> /\ appended' = appended \o <<a>>
    BY <1>0, <2>2, AppendIsConcat
  <2>4. executed \o running \o (runnable \o <<a>>) = (executed \o running \o runnable) \o <<a>>
    <3>1. PICK x \in Seq(Task), q \in Seq(Task), n \in Seq(Task) :
             x = executed \o running /\ q = runnable /\ n = <<a>>
      BY <1>0, <2>3
    <3>2. x \o (q \o n) = (x \o q) \o n
      BY Together
    <3> QED BY Zenon, <3>1, <3>2
  <2> QED BY <1>0, <2>2, <2>3, <2>4 DEF RunInOrder
<1>3. CASE \E a \in Appender : Ready(a)
  BY <1>1, <1>3 DEF Ready
<1>4. CASE CallExec \/ ExecRefused \/ ExecWait \/ Canceled \/ ExecCanceled \/ UNCHANGED loopVars
  BY <1>1, <1>4 DEF CallExec, ExecRefused, ExecWait, Canceled, ExecCanceled, loopVars
<1>5. CASE ExecRun
  <2>1. running = <<>> /\ running' = runnable /\ runnable' = <<>> /\ exec' = "run" /\ UNCHANGED <<appended, executed>>
    BY <1>0, <1>5 DEF ExecRun
  <2>2. executed \o runnable \o <<>> = executed \o <<>> \o runnable
    <3>1. executed \o runnable \in Seq(Task)
      BY <1>0, ConcatProperties
    <3> QED BY <1>0, <3>1, ConcatEmptySeq
  <2> QED BY <1>0, <2>1, <2>2 DEF RunInOrder
<1>6. CASE RunTask
  <2>1. PICK s \in Seq(Task) : s = Spawns[Head(running)]
    BY <1>0, <1>6, HeadTailProperties DEF RunTask, SpawnsTasks
  <2>2. /\ running # <<>> /\ executed' = Append(executed, Head(running)) /\ running' = Tail(running)
        /\ runnable' = runnable \o s /\ appended' = appended \o s /\ exec = "run" /\ UNCHANGED exec
    BY <1>6, <2>1 DEF RunTask
  <2>3. /\ Head(running) \in Task /\ Tail(running) \in Seq(Task) /\ Append(executed, Head(running)) \in Seq(Task)
        /\ Append(executed, Head(running)) \o Tail(running) \o (runnable \o s)
              = (executed \o running \o runnable) \o s
    <3>1. PICK e \in Seq(Task), r \in Seq(Task), q \in Seq(Task) :
             e = executed /\ r = running /\ q = runnable /\ r # <<>>
      BY <1>0, <2>2
    <3>2. /\ Head(r) \in Task /\ Tail(r) \in Seq(Task) /\ Append(e, Head(r)) \in Seq(Task)
          /\ InPlace(e, r, q, s)
      <4>1. r # <<>>
        BY <3>1
      <4> QED BY <4>1, TakeFirst
    <3> QED BY Zenon, <3>1, <3>2 DEF InPlace
  <2>4. runnable \o s \in Seq(Task) /\ appended \o s \in Seq(Task)
    BY <1>0, ConcatProperties
  <2>5. RunInOrder'
    BY Zenon, <1>0, <2>2, <2>3 DEF RunInOrder
  <2> QED BY <2>2, <2>3, <2>4, <2>5
<1>7. CASE RunCanceled
  <2>1. /\ runnable' = running \o runnable /\ running' = <<>> /\ UNCHANGED <<appended, executed>>
    BY <1>7 DEF RunCanceled, KeepRest
  <2>2. running \o runnable \in Seq(Task)
    BY <1>0, ConcatProperties
  <2>3. executed \o <<>> \o (running \o runnable) = executed \o running \o runnable
    <3>1. executed \o <<>> = executed
      BY <1>0, ConcatEmptySeq
    <3>2. executed \o (running \o runnable) = (executed \o running) \o runnable
      BY <1>0, Together
    <3> QED BY <3>1, <3>2
  <2> QED BY <1>0, <2>1, <2>2, <2>3 DEF RunInOrder
<1>8. CASE RunNextBatch
  <2>1. /\ running = <<>> /\ running' = runnable /\ runnable' = <<>> /\ UNCHANGED <<appended, executed>>
        /\ exec' # "run" => runnable = <<>>
    BY <1>8 DEF RunNextBatch
  <2>2. executed \o runnable \o <<>> = executed \o <<>> \o runnable
    <3>1. executed \o runnable \in Seq(Task)
      BY <1>0, ConcatProperties
    <3> QED BY <1>0, <3>1, ConcatEmptySeq
  <2> QED BY <1>0, <2>1, <2>2 DEF RunInOrder
<1> QED BY <1>2, <1>3, <1>4, <1>5, <1>6, <1>7, <1>8 DEF LoopNext

(* Every step keeps the places of the loop and of the appenders.           *)
LEMMA PlacesKept ==
    ASSUME LoopInv, [LoopNext]_loopVars, MaxExec \in Nat
    PROVE  /\ state' \in {"idle", "waiting", "running"}
           /\ app' \in [Appender -> {"start", "notify", "done"}]
           /\ exec' \in {"out", "loop", "select", "canceled", "run"}
           /\ cancelable' \in MayCancel /\ calls' \in 0 .. MaxExec /\ refused' \in BOOLEAN
           /\ (state' = "running") = (exec' = "run")
<1>1. CASE \E a \in Appender : Append1(a) \/ Ready(a)
  BY <1>1, Unfold DEF Append1, Ready
<1>2. CASE CallExec
  BY <1>2, Unfold DEF CallExec
<1>3. CASE ExecRefused \/ ExecWait \/ ExecRun \/ Canceled \/ ExecCanceled
  BY <1>3, Unfold DEF ExecRefused, ExecWait, ExecRun, Canceled, ExecCanceled
<1>4. CASE RunTask \/ RunCanceled \/ RunNextBatch \/ UNCHANGED loopVars
  BY <1>4, Unfold DEF RunTask, RunCanceled, RunNextBatch, loopVars
<1> QED BY <1>1, <1>2, <1>3, <1>4 DEF LoopNext

(* While no context is done, no wakeup is sent that nobody receives.       *)
LEMMA WakeupsKept ==
    ASSUME LoopInv, [LoopNext]_loopVars, ~cancelable'
    PROVE  Wakeups'
<1>1. ~cancelable
  BY DEF LoopNext, Append1, Ready, CallExec, ExecRefused, ExecWait, ExecRun, Canceled, ExecCanceled,
         RunTask, RunCanceled, RunNextBatch, loopVars
<1>2. Wakeups /\ app \in [Appender -> {"start", "notify", "done"}]
  BY <1>1, Unfold DEF LoopInv
<1>3. CASE \E a \in Appender : Append1(a)
  <2>1. PICK a \in Appender : Append1(a)
    BY <1>3
  <2>2. CASE state = "waiting"
    <3>1. /\ state' = "idle" /\ app' = [app EXCEPT ![a] = "notify"] /\ UNCHANGED <<exec, refused>>
      BY <2>1, <2>2 DEF Append1
    <3>2. exec = "select" /\ \A b \in Appender : app[b] # "notify"
      BY <1>2, <2>2 DEF Wakeups
    <3> QED BY <1>2, <3>1, <3>2 DEF Wakeups
  <2>3. CASE state # "waiting"
    <3>1. app' = [app EXCEPT ![a] = "done"] /\ UNCHANGED <<state, exec, refused>>
      BY <2>1, <2>3 DEF Append1
    <3> QED BY <1>2, <3>1 DEF Wakeups
  <2> QED BY <2>2, <2>3
<1>4. CASE \E a \in Appender : Ready(a)
  <2>1. PICK a \in Appender : Ready(a)
    BY <1>4
  <2>2. /\ app[a] = "notify" /\ exec' = "loop" /\ app' = [app EXCEPT ![a] = "done"]
        /\ UNCHANGED <<state, refused>>
    BY <2>1 DEF Ready
  <2>3. state = "idle" /\ \A b \in Appender : app[b] = "notify" => b = a
    BY <1>2, <2>2 DEF Wakeups
  <2>4. \A b \in Appender : app'[b] # "notify"
    BY <1>2, <2>2, <2>3
  <2> QED BY <1>2, <2>2, <2>3, <2>4 DEF Wakeups
<1>5. CASE CallExec \/ ExecRefused \/ ExecWait \/ ExecRun
  BY <1>2, <1>5 DEF CallExec, ExecRefused, ExecWait, ExecRun, Wakeups
<1>6. CASE Canceled \/ ExecCanceled \/ RunCanceled
  BY <1>1, <1>2, <1>6 DEF Canceled, ExecCanceled, RunCanceled, Wakeups
<1>7. CASE RunTask \/ RunNextBatch
  <2>1. \A a \in Appender : app[a] # "notify"
    BY <1>2, <1>7 DEF RunTask, RunNextBatch, Wakeups
  <2>2. state = "running"
    BY <1>7, Unfold DEF RunTask, RunNextBatch
  <2> QED BY <1>2, <1>7, <2>1, <2>2 DEF RunTask, RunNextBatch, Wakeups
<1>8. CASE UNCHANGED loopVars
  BY <1>2, <1>8 DEF loopVars, Wakeups
<1> QED BY <1>3, <1>4, <1>5, <1>6, <1>7, <1>8 DEF LoopNext

LEMMA LoopInitially ==
    ASSUME LoopInit, MaxExec \in Nat
    PROVE  LoopInv
<1>1. <<>> \in Seq(Task)
  BY EmptySeq
<1>2. LoopTypeOK
  <2>1. /\ app \in [Appender -> {"start", "notify", "done"}] /\ refused \in BOOLEAN
        /\ state \in {"idle", "waiting", "running"}
        /\ exec \in {"out", "loop", "select", "canceled", "run"}
    BY DEF LoopInit
  <2>4. calls \in 0 .. MaxExec
    <3>1. calls = 0
      BY DEF LoopInit
    <3> QED BY <3>1
  <2>3. (state = "running") = (exec = "run")
    <3>1. state # "running" /\ exec # "run"
      BY DEF LoopInit
    <3> QED BY <3>1
  <2>2. /\ runnable \in Seq(Task) /\ running \in Seq(Task) /\ appended \in Seq(Task)
        /\ executed \in Seq(Task) /\ cancelable \in MayCancel
    BY <1>1 DEF LoopInit
  <2> QED BY <2>1, <2>2, <2>3, <2>4 DEF LoopTypeOK
<1>3. RunInOrder
  <2>1. <<>> \o <<>> = <<>>
    BY <1>1, ConcatEmptySeq
  <2> QED BY <2>1 DEF LoopInit, RunInOrder
<1>4. Wakeups
  BY DEF LoopInit, Wakeups
<1> QED BY <1>2, <1>3, <1>4 DEF LoopInit, LoopInv

(* Tasks run once each and in the order of their Append, through batches,  *)
(* tasks that append tasks and canceled runs; while no context is done, no *)
(* call of the only caller is refused and the loop is idle between them.   *)
THEOREM LoopSafety == SpawnsTasks /\ MaxExec \in Nat => (LoopSpec => []LoopSafe)
<1> SUFFICES ASSUME SpawnsTasks, MaxExec \in Nat PROVE LoopSpec => []LoopSafe
  OBVIOUS
<1>1. LoopInit => LoopInv
  BY LoopInitially
<1>2. LoopInv /\ [LoopNext]_loopVars => LoopInv'
  <2> SUFFICES ASSUME LoopInv, [LoopNext]_loopVars PROVE LoopInv'
    OBVIOUS
  <2>1. LoopTypeOK'
    BY OrderKept, PlacesKept DEF LoopTypeOK
  <2>2. RunInOrder' /\ (exec' # "run" => running' = <<>>)
    BY OrderKept
  <2>3. ~cancelable' => Wakeups'
    BY WakeupsKept
  <2> QED BY <2>1, <2>2, <2>3 DEF LoopInv
<1>3. LoopInv => LoopSafe
  BY DEF LoopInv, LoopSafe, ReadyForNextExec, IdleOnReturn, Wakeups
<1> QED BY <1>1, <1>2, <1>3, PTL DEF LoopSpec

-----------------------------------------------------------------------------
(***************************************************************************)
(* LOCAL LATCHES.  They are safe for any transactions, keys, slots,        *)
(* channel size and recycling period: transactions with a key in common    *)
(* exclude each other, none is let through that started before a recent    *)
(* commit of one of its keys, and no release panics.                       *)
(*                                                                         *)
(* The argument follows the nodes: a lock that acquired a key is the val   *)
(* of the key's node until the scheduler releases it, which happens only   *)
(* to locks that are done; and a waiting lock is in one queue, so that no  *)
(* key is handed to it twice.                                              *)
(***************************************************************************)
USE ChanAssumption, SlotAssumption, TimeAssumption

-----------------------------------------------------------------------------
(* Sequences. *)

LEMMA AppendRange ==
    ASSUME NEW S, NEW s \in Seq(S), NEW e \in S
    PROVE  /\ Append(s, e) \in Seq(S) /\ Append(s, e) # s
           /\ \A x : x \in Range(Append(s, e)) <=> x \in Range(s) \/ x = e
           /\ IsInjective(s) /\ e \notin Range(s) => IsInjective(Append(s, e))
<1> DEFINE t == Append(s, e)
<1>1. /\ t \in Seq(S) /\ Len(t) = Len(s) + 1 /\ Len(s) \in Nat
      /\ DOMAIN t = 1 .. Len(t) /\ DOMAIN s = 1 .. Len(s)
      /\ \A i \in 1 .. Len(s) : t[i] = s[i]
      /\ t[Len(s) + 1] = e
  OBVIOUS
<1> HIDE DEF t
<1>2. \A x : x \in Range(t) <=> x \in Range(s) \/ x = e
  BY <1>1 DEF Range
<1>3. ASSUME IsInjective(s), e \notin Range(s) PROVE IsInjective(t)
  BY <1>1, <1>3 DEF IsInjective, Range
<1>4. t # s
  BY <1>1
<1> QED BY <1>1, <1>2, <1>3, <1>4 DEF t

LEMMA TailRange ==
    ASSUME NEW S, NEW s \in Seq(S), s # <<>>
    PROVE  /\ Tail(s) \in Seq(S) /\ Head(s) \in S /\ Head(s) \in Range(s)
           /\ \A x : x \in Range(Tail(s)) => x \in Range(s)
           /\ IsInjective(s) => IsInjective(Tail(s)) /\ Head(s) \notin Range(Tail(s))
<1> DEFINE t == Tail(s)
<1>1. /\ t \in Seq(S) /\ Len(t) = Len(s) - 1 /\ Len(s) \in Nat /\ Len(s) # 0
      /\ DOMAIN t = 1 .. Len(t) /\ DOMAIN s = 1 .. Len(s)
      /\ \A i \in 1 .. Len(t) : t[i] = s[i + 1]
      /\ Head(s) = s[1] /\ s[1] \in S
  OBVIOUS
<1> HIDE DEF t
<1>2. \A x : x \in Range(t) => x \in Range(s)
  <2> SUFFICES ASSUME NEW i \in 1 .. Len(t) PROVE t[i] \in Range(s)
    BY <1>1, Zenon DEF Range
  <2>1. i + 1 \in DOMAIN s /\ t[i] = s[i + 1]
    BY <1>1
  <2> QED BY <2>1, Zenon DEF Range
<1>3. Head(s) \in Range(s)
  <2>1. 1 \in DOMAIN s
    BY <1>1
  <2> QED BY <1>1, <2>1, Zenon DEF Range
<1>4. ASSUME IsInjective(s) PROVE IsInjective(t) /\ Head(s) \notin Range(t)
  <2>0. \A a, b \in 1 .. Len(s) : s[a] = s[b] => a = b
    BY <1>1, <1>4 DEF IsInjective
  <2>1. ASSUME NEW a \in 1 .. Len(t), NEW b \in 1 .. Len(t), t[a] = t[b] PROVE a = b
    <3>1. /\ s[a + 1] = s[b + 1] /\ a + 1 \in 1 .. Len(s) /\ b + 1 \in 1 .. Len(s)
      BY <1>1, <2>1
    <3>2. a + 1 = b + 1
      BY <2>0, <3>1
    <3> QED BY <3>2
  <2>2. ASSUME NEW a \in 1 .. Len(t), t[a] = s[1] PROVE FALSE
    <3>1. s[a + 1] = s[1] /\ a + 1 \in 1 .. Len(s) /\ 1 \in 1 .. Len(s)
      BY <1>1, <2>2
    <3>2. a + 1 = 1
      BY <2>0, <3>1
    <3> QED BY <3>2
  <2> QED BY <1>1, <2>1, <2>2 DEF IsInjective, Range
<1> QED BY <1>1, <1>2, <1>3, <1>4 DEF t

LEMMA RemoveRange ==
    ASSUME NEW S, NEW s \in Seq(S), NEW i \in 1 .. Len(s)
    PROVE  /\ RemoveAt(s, i) \in Seq(S)
           /\ \A x : x \in Range(RemoveAt(s, i)) => x \in Range(s)
           /\ IsInjective(s) => /\ IsInjective(RemoveAt(s, i))
                                /\ s[i] \notin Range(RemoveAt(s, i))
<1> DEFINE t == RemoveAt(s, i)
<1>1. /\ t \in Seq(S) /\ Len(t) = Len(s) - 1 /\ Len(s) \in Nat
      /\ DOMAIN t = 1 .. Len(t) /\ DOMAIN s = 1 .. Len(s)
      /\ \A j \in 1 .. Len(t) : t[j] = IF j < i THEN s[j] ELSE s[j + 1]
  <2> DEFINE a == SubSeq(s, 1, i - 1)
             b == SubSeq(s, i + 1, Len(s))
  <2>1. /\ a \in Seq(S) /\ Len(a) = i - 1 /\ \A j \in 1 .. i - 1 : a[j] = s[j]
        /\ Len(s) \in Nat /\ DOMAIN s = 1 .. Len(s)
    OBVIOUS
  <2>2. b \in Seq(S) /\ Len(b) = Len(s) - i /\ \A j \in 1 .. Len(s) - i : b[j] = s[j + i]
    OBVIOUS
  <2>3. t = a \o b
    BY DEF RemoveAt
  <2> HIDE DEF a, b, t
  <2>4. /\ t \in Seq(S) /\ Len(t) = Len(a) + Len(b) /\ DOMAIN t = 1 .. Len(t)
        /\ \A j \in 1 .. Len(a) + Len(b) : t[j] = IF j <= Len(a) THEN a[j] ELSE b[j - Len(a)]
    <3>1. /\ a \o b \in Seq(S) /\ Len(a \o b) = Len(a) + Len(b)
          /\ \A j \in 1 .. Len(a) + Len(b) : (a \o b)[j] = IF j <= Len(a) THEN a[j] ELSE b[j - Len(a)]
      BY <2>1, <2>2, ConcatProperties, Zenon
    <3>2. t \in Seq(S)
      BY <2>3, <3>1, Zenon
    <3>3. DOMAIN t = 1 .. Len(t)
      BY <3>2
    <3> QED BY <2>3, <3>1, <3>3, Zenon
  <2>5. \A j \in 1 .. Len(t) : t[j] = IF j < i THEN s[j] ELSE s[j + 1]
    <3> SUFFICES ASSUME NEW j \in 1 .. Len(t) PROVE t[j] = IF j < i THEN s[j] ELSE s[j + 1]
      OBVIOUS
    <3>1. CASE j < i
      <4>1. j \in 1 .. i - 1 /\ j <= Len(a) /\ j \in 1 .. Len(a) + Len(b)
        BY <2>1, <2>2, <2>4, <3>1
      <4> QED BY <2>1, <2>4, <3>1, <4>1
    <3>2. CASE ~(j < i)
      <4>1. j - (i - 1) \in 1 .. Len(s) - i /\ ~(j <= Len(a)) /\ j \in 1 .. Len(a) + Len(b)
        BY <2>1, <2>2, <2>4, <3>2
      <4>2. t[j] = b[j - (i - 1)]
        BY <2>1, <2>4, <4>1
      <4>3. (j - (i - 1)) + i = j + 1
        BY <4>1
      <4> QED BY <2>2, <3>2, <4>1, <4>2, <4>3
    <3> QED BY <3>1, <3>2
  <2> QED BY <2>1, <2>2, <2>4, <2>5
<1> HIDE DEF t
<1>2. \A x : x \in Range(t) => x \in Range(s)
  <2> SUFFICES ASSUME NEW j \in 1 .. Len(t) PROVE t[j] \in Range(s)
    BY <1>1, Zenon DEF Range
  <2>1. PICK m \in DOMAIN s : t[j] = s[m]
    <3>1. j \in DOMAIN s /\ j + 1 \in DOMAIN s /\ t[j] \in {s[j], s[j + 1]}
      BY <1>1
    <3> QED BY <3>1
  <2> QED BY <2>1, Zenon DEF Range
<1>3. ASSUME IsInjective(s) PROVE IsInjective(t) /\ s[i] \notin Range(t)
  <2> DEFINE to(j) == IF j < i THEN j ELSE j + 1
  <2>0. \A a, b \in 1 .. Len(s) : s[a] = s[b] => a = b
    BY <1>1, <1>3 DEF IsInjective
  <2>1. \A j \in 1 .. Len(t) : to(j) \in 1 .. Len(s) /\ t[j] = s[to(j)] /\ to(j) # i
    BY <1>1
  <2>2. \A j, m \in 1 .. Len(t) : to(j) = to(m) => j = m
    BY <1>1
  <2> HIDE DEF to
  <2>3. \A j, m \in 1 .. Len(t) : t[j] = t[m] => j = m
    BY <2>0, <2>1, <2>2
  <2>4. \A j \in 1 .. Len(t) : t[j] # s[i]
    BY <2>0, <2>1
  <2> QED BY <1>1, <2>3, <2>4 DEF IsInjective, Range
<1> QED BY <1>1, <1>2, <1>3 DEF t

LEMMA EmptyRange == Range(<<>>) = {} /\ IsInjective(<<>>)
  BY DEF Range, IsInjective

(* The keys of a lock, in the order of their acquisition.                  *)
LEMMA KeyOrder ==
    ASSUME NEW l \in Lock
    PROVE  /\ Len(genLock[l]) \in Nat
           /\ \A i \in 1 .. Len(genLock[l]) : genLock[l][i] \in Key /\ SlotOf[genLock[l][i]] \in Slot
           /\ \A i, j \in 1 .. Len(genLock[l]) : genLock[l][i] = genLock[l][j] => i = j
           /\ \A k \in Keys[l] : \E i \in 1 .. Len(genLock[l]) : genLock[l][i] = k
<1>1. genLock[l] \in Seq(Keys[l]) /\ Range(genLock[l]) = Keys[l] /\ IsInjective(genLock[l])
  BY GenLockAssumption
<1>2. Keys[l] \subseteq Key
  BY KeysAssumption
<1> DEFINE g == genLock[l]
<1> HIDE DEF g
<1>3. /\ g \in Seq(Keys[l]) /\ Range(g) = Keys[l] /\ IsInjective(g)
  BY <1>1 DEF g
<1>4. /\ Len(g) \in Nat
      /\ \A i \in 1 .. Len(g) : g[i] \in Key /\ SlotOf[g[i]] \in Slot
      /\ \A i, j \in 1 .. Len(g) : g[i] = g[j] => i = j
      /\ \A k \in Keys[l] : \E i \in 1 .. Len(g) : g[i] = k
  BY <1>2, <1>3 DEF Range, IsInjective
<1> QED BY <1>4 DEF g

-----------------------------------------------------------------------------
(* Recycling. *)

(* nodes has the nodes of node, but for some that nobody holds and whose   *)
(* last commit is old.                                                     *)
Trimmed(nodes) ==
    /\ nodes \in [Key -> Node]
    /\ \A k \in Key :
          \/ nodes[k] = node[k]
          \/ /\ nodes[k] = NoNode /\ node[k].val = None
             /\ newest[k] = 0 \/ tso - newest[k] >= Expire

LEMMA RecycleTrims ==
    ASSUME LatchInv, NEW s \in Slot, NEW ts \in Nat, ts <= tso
    PROVE  Trimmed(recycle(node, s, ts))
<1> DEFINE nodes == recycle(node, s, ts)
<1>0. /\ node \in [Key -> Node] /\ NoNode \in Node /\ tso \in Nat /\ newest \in [Key -> Nat]
      /\ \A k \in Key : node[k].max \in Nat
  BY DEF LatchInv, Types, TypeOK, Node, NoNode
<1>1. \A k \in Key :
        nodes[k] = IF SlotOf[k] = s /\ node[k].in /\ node[k].val = None /\ ts - node[k].max >= Expire
                   THEN NoNode ELSE node[k]
  BY DEF recycle
<1>2. nodes \in [Key -> Node]
  BY <1>0 DEF recycle
<1>3. ASSUME NEW k \in Key, nodes[k] # node[k]
      PROVE  /\ nodes[k] = NoNode /\ node[k].val = None
             /\ newest[k] = 0 \/ tso - newest[k] >= Expire
  <2>1. nodes[k] = NoNode /\ node[k].val = None /\ ts - node[k].max >= Expire /\ node[k].val \notin Lock
    BY <1>1, <1>3
  <2>2. newest[k] = 0 \/ tso - newest[k] >= Expire \/ newest[k] <= node[k].max
    BY <2>1 DEF LatchInv, NewestKnown
  <2>3. newest[k] \in Nat /\ node[k].max \in Nat /\ Expire \in Nat
    BY <1>0
  <2> QED BY <1>0, <2>1, <2>2, <2>3
<1> QED BY <1>2, <1>3 DEF Trimmed

-----------------------------------------------------------------------------
(* acquireSlot. *)

(* The three outcomes of acquireSlot: the key is taken, the lock is stale, *)
(* or it waits for the key.                                                *)
Takes(l) ==
    /\ acquired' = [acquired EXCEPT ![l] = @ + 1]
    /\ pc' = [pc EXCEPT ![l] = IF acquired[l] + 1 = Len(genLock[l]) THEN "held" ELSE @]
    /\ UNCHANGED <<waiting, stale>>
TurnsStale(l) ==
    /\ stale' = [stale EXCEPT ![l] = TRUE]
    /\ pc' = [pc EXCEPT ![l] = "held"]
    /\ UNCHANGED <<waiting, acquired>>
Queues(l) ==
    /\ waiting' = [waiting EXCEPT ![SlotOf[genLock[l][acquired[l] + 1]]] = Append(@, l)]
    /\ pc' = [pc EXCEPT ![l] = "wait"]
    /\ UNCHANGED <<acquired, stale>>

(* Whatever happens, nodes of others stay, and the taken key's node is new *)
(* or had no holder and no late commit.                                    *)
LEMMA AcquireNodes ==
    ASSUME LatchInv, NEW l \in Lock, pc[l] \in {"acquire", "wait"}, ~stale[l],
           acquired[l] < Len(genLock[l]), acquireSlot(l),
           UNCHANGED <<tso, startTS, commitTS, newest>>
    PROVE  /\ Takes(l) \/ TurnsStale(l) \/ Queues(l)
           /\ node' \in [Key -> Node]
           /\ HoldsKeys' /\ NewestKnown'
<1> DEFINE k == genLock[l][acquired[l] + 1]
           nodes == recycled(l, SlotOf[k])
<1>0. /\ node \in [Key -> Node] /\ tso \in Nat /\ newest \in [Key -> Nat] /\ acquired \in [Lock -> Nat]
      /\ pc \in [Lock -> {"init", "begun", "acquire", "wait", "held", "done"}]
      /\ stale \in [Lock -> BOOLEAN] /\ startTS[l] \in Nat /\ startTS[l] <= tso
      /\ \A m \in Lock : acquired[m] \in 0 .. Len(genLock[m])
  BY DEF LatchInv, Types, TypeOK, LockPhases
<1>1. k \in Key /\ SlotOf[k] \in Slot /\ acquired[l] + 1 \in 1 .. Len(genLock[l])
  BY <1>0, KeyOrder
<1>2. Trimmed(nodes)
  <2>1. Trimmed(node)
    BY <1>0 DEF Trimmed
  <2>2. Trimmed(recycle(node, SlotOf[k], startTS[l]))
    BY <1>0, <1>1, RecycleTrims
  <2> QED BY <2>1, <2>2 DEF recycled
<1>3. \/ /\ ~nodes[k].in \/ (nodes[k].max <= startTS[l] /\ nodes[k].val = None)
         /\ node' = [nodes EXCEPT ![k].in = TRUE, ![k].val = l]
         /\ Takes(l)
      \/ /\ node' = nodes /\ TurnsStale(l)
      \/ /\ node' = nodes /\ Queues(l)
  BY <1>0 DEF acquireSlot, Takes, TurnsStale, Queues
<1> HIDE DEF k, nodes
<1>4. nodes \in [Key -> Node] /\ nodes[k] \in Node /\ NoNode \in Node
  BY <1>1, <1>2 DEF Trimmed, NoNode, Node
<1>5. \A m \in Lock : \A i \in 1 .. acquired[m] :
         /\ genLock[m][i] \in Key /\ nodes[genLock[m][i]] = node[genLock[m][i]]
         /\ nodes[genLock[m][i]].in /\ nodes[genLock[m][i]].val = m
         /\ stale[m] \/ pc[m] = "done" \/ nodes[genLock[m][i]].max <= startTS[m]
  <2> SUFFICES ASSUME NEW m \in Lock, NEW i \in 1 .. acquired[m]
               PROVE  /\ genLock[m][i] \in Key /\ nodes[genLock[m][i]] = node[genLock[m][i]]
                      /\ nodes[genLock[m][i]].in /\ nodes[genLock[m][i]].val = m
                      /\ stale[m] \/ pc[m] = "done" \/ nodes[genLock[m][i]].max <= startTS[m]
    OBVIOUS
  <2>1. genLock[m][i] \in Key
    BY <1>0, KeyOrder
  <2>2. /\ node[genLock[m][i]].in /\ node[genLock[m][i]].val = m
        /\ stale[m] \/ pc[m] = "done" \/ node[genLock[m][i]].max <= startTS[m]
    BY DEF LatchInv, HoldsKeys
  <2> QED BY <1>2, <2>1, <2>2 DEF Trimmed
<1>6. \A j \in Key :
        /\ ~nodes[j].in => nodes[j] = NoNode
        /\ \/ newest[j] = 0
           \/ tso - newest[j] >= Expire
           \/ nodes[j].in /\ newest[j] <= nodes[j].max
           \/ /\ nodes[j].in /\ nodes[j].val \in Lock
              /\ pc[nodes[j].val] = "done" /\ newest[j] <= commitTS[nodes[j].val]
  BY <1>2 DEF Trimmed, LatchInv, NewestKnown, NoNode
<1>7. CASE /\ ~nodes[k].in \/ (nodes[k].max <= startTS[l] /\ nodes[k].val = None)
           /\ node' = [nodes EXCEPT ![k].in = TRUE, ![k].val = l]
           /\ Takes(l)
  <2>1. /\ node' = [nodes EXCEPT ![k] = [nodes[k] EXCEPT !.in = TRUE, !.val = l]]
        /\ [nodes[k] EXCEPT !.in = TRUE, !.val = l] \in Node
    BY <1>1, <1>4, <1>7 DEF Node
  <2>2. /\ node'[k].in /\ node'[k].val = l /\ node'[k].max = nodes[k].max
        /\ \A j \in Key : j # k => node'[j] = nodes[j]
        /\ node' \in [Key -> Node]
    BY <1>1, <1>4, <2>1 DEF Node
  <2>3. nodes[k].max <= startTS[l] /\ (nodes[k].in => nodes[k].val = None)
    BY <1>0, <1>1, <1>6, <1>7 DEF NoNode
  <2>4. /\ acquired'[l] = acquired[l] + 1 /\ \A m \in Lock : m # l => acquired'[m] = acquired[m] /\ pc'[m] = pc[m]
        /\ UNCHANGED stale /\ pc'[l] \in {"held", pc[l]}
    BY <1>0, <1>7 DEF Takes
  <2>5. HoldsKeys'
    <3> SUFFICES ASSUME NEW m \in Lock, NEW i \in 1 .. acquired'[m]
                 PROVE  /\ node'[genLock[m][i]].in /\ node'[genLock[m][i]].val = m
                        /\ stale[m] \/ pc'[m] = "done" \/ node'[genLock[m][i]].max <= startTS[m]
      BY <2>4 DEF HoldsKeys
    <3>1. CASE i \in 1 .. acquired[m]
      <4>1. genLock[m][i] # k
        BY <1>5, <2>3, <3>1
      <4> QED BY <1>5, <2>2, <2>4, <3>1, <4>1
    <3>2. CASE i \notin 1 .. acquired[m]
      <4>1. m = l /\ i = acquired[l] + 1 /\ genLock[m][i] = k
        BY <1>0, <2>4, <3>2 DEF k
      <4> QED BY <2>2, <2>3, <4>1
    <3> QED BY <3>1, <3>2
  <2>6. NewestKnown'
    <3> SUFFICES ASSUME NEW j \in Key
                 PROVE  /\ ~node'[j].in => node'[j] = NoNode
                        /\ \/ newest[j] = 0
                           \/ tso - newest[j] >= Expire
                           \/ node'[j].in /\ newest[j] <= node'[j].max
                           \/ /\ node'[j].in /\ node'[j].val \in Lock
                              /\ pc'[node'[j].val] = "done" /\ newest[j] <= commitTS[node'[j].val]
      BY DEF NewestKnown
    <3>1. CASE j # k
      BY <1>0, <1>6, <2>2, <2>4, <3>1
    <3>2. CASE j = k
      BY <1>6, <2>2, <2>3, <3>2
    <3> QED BY <3>1, <3>2
  <2> QED BY <1>7, <2>2, <2>5, <2>6
<1>8. CASE node' = nodes /\ (TurnsStale(l) \/ Queues(l))
  <2>1. /\ UNCHANGED acquired /\ \A m \in Lock : m # l => pc'[m] = pc[m]
        /\ \A m \in Lock : stale[m] => stale'[m]
    BY <1>0, <1>8 DEF TurnsStale, Queues
  <2>2. HoldsKeys'
    BY <1>5, <1>8, <2>1 DEF HoldsKeys
  <2>3. NewestKnown'
    BY <1>0, <1>6, <1>8, <2>1 DEF NewestKnown
  <2> QED BY <1>4, <1>8, <2>2, <2>3
<1> QED BY <1>3, <1>7, <1>8

(* acquireSlot for a lock that is in no queue, but perhaps at the head of  *)
(* the wake-up list, which it leaves unless it goes on to its next key.    *)
LEMMA AcquireStep ==
    ASSUME LatchInv, NEW l \in Lock, pc[l] \in {"acquire", "wait"}, ~stale[l],
           acquired[l] < Len(genLock[l]), acquireSlot(l),
           UNCHANGED <<tso, startTS, commitTS, newest, unlockCh, closed, recycling, lastRecycle>>,
           \A s \in Slot : l \notin Range(waiting[s]),
           sched' \in [pc : {"idle", "release", "wakeup"}, lock : Lock \cup {None}, wake : Seq(Lock)],
           sched'.pc = sched.pc, sched'.lock = sched.lock,
           IsInjective(sched'.wake), \A m : m \in Range(sched'.wake) => m \in Range(sched.wake),
           l \in Range(sched'.wake) => pc'[l] = "wait" /\ UNCHANGED waiting
    PROVE  LatchInv'
<1>0. /\ acquired \in [Lock -> Nat] /\ waiting \in [Slot -> Seq(Lock)]
      /\ pc \in [Lock -> {"init", "begun", "acquire", "wait", "held", "done"}]
      /\ stale \in [Lock -> BOOLEAN] /\ sched.wake \in Seq(Lock) /\ unlockCh \in Seq(Lock)
      /\ \A m \in Lock : acquired[m] \in 0 .. Len(genLock[m]) /\ Len(genLock[m]) \in Nat
      /\ Types /\ LockPhases /\ OneQueue /\ ReleasesDone
  BY KeyOrder DEF LatchInv, Types, TypeOK
<1>1. /\ Takes(l) \/ TurnsStale(l) \/ Queues(l)
      /\ node' \in [Key -> Node] /\ HoldsKeys' /\ NewestKnown'
  BY AcquireNodes
<1>2. PICK s0 \in Slot : s0 = SlotOf[genLock[l][acquired[l] + 1]]
  <2>1. acquired[l] + 1 \in 1 .. Len(genLock[l])
    BY <1>0
  <2> QED BY <2>1, KeyOrder
<1>3. \A m \in Lock : m # l => pc'[m] = pc[m] /\ stale'[m] = stale[m] /\ acquired'[m] = acquired[m]
  BY <1>0, <1>1 DEF Takes, TurnsStale, Queues
<1>4. /\ acquired' \in [Lock -> Nat] /\ stale' \in [Lock -> BOOLEAN]
      /\ pc' \in [Lock -> {"init", "begun", "acquire", "wait", "held", "done"}]
      /\ pc'[l] \in {"acquire", "wait", "held"}
      /\ acquired'[l] \in 0 .. Len(genLock[l])
      /\ pc'[l] = "held" => acquired'[l] = Len(genLock[l]) \/ stale'[l]
      /\ pc'[l] \in {"acquire", "wait"} => acquired'[l] < Len(genLock[l]) /\ ~stale'[l]
  <2>0. acquired[l] \in Nat /\ Len(genLock[l]) \in Nat /\ acquired[l] + 1 <= Len(genLock[l])
    BY <1>0
  <2>1. CASE Takes(l)
    <3>1. /\ acquired' \in [Lock -> Nat] /\ acquired'[l] = acquired[l] + 1 /\ UNCHANGED stale
      BY <1>0, <2>0, <2>1 DEF Takes
    <3>2. pc'[l] = (IF acquired[l] + 1 = Len(genLock[l]) THEN "held" ELSE pc[l])
      BY <1>0, <2>1 DEF Takes
    <3>3. pc' \in [Lock -> {"init", "begun", "acquire", "wait", "held", "done"}]
      BY <1>0, <2>1 DEF Takes
    <3> QED BY <1>0, <2>0, <3>1, <3>2, <3>3
  <2>2. CASE TurnsStale(l)
    BY <1>0, <2>0, <2>2 DEF TurnsStale
  <2>3. CASE Queues(l)
    BY <1>0, <2>0, <2>3 DEF Queues
  <2> QED BY <1>1, <2>1, <2>2, <2>3
<1>5. waiting' \in [Slot -> Seq(Lock)]
  <2>1. CASE UNCHANGED waiting
    BY <1>0, <2>1
  <2>2. CASE Queues(l)
    <3>1. waiting' = [waiting EXCEPT ![s0] = Append(waiting[s0], l)] /\ Append(waiting[s0], l) \in Seq(Lock)
      BY <1>0, <1>2, <2>2 DEF Queues
    <3> QED BY <1>0, <3>1
  <2> QED BY <1>1, <2>1, <2>2 DEF Takes, TurnsStale
<1>6. Types'
  <2>1. TypeOK'
    BY <1>0, <1>1, <1>3, <1>4, <1>5 DEF Types, TypeOK
  <2> QED BY <1>4, <1>5, <2>1 DEF Types
<1>7. LockPhases'
  <2>1. ASSUME NEW m \in Lock
        PROVE  /\ startTS[m] <= tso /\ commitTS[m] <= tso
               /\ pc'[m] \in {"init", "begun"} => acquired'[m] = 0 /\ ~stale'[m]
               /\ pc'[m] = "acquire" => acquired'[m] < Len(genLock[m]) /\ ~stale'[m]
               /\ pc'[m] = "wait" => acquired'[m] < Len(genLock[m]) \/ stale'[m]
               /\ pc'[m] = "held" => acquired'[m] = Len(genLock[m]) \/ stale'[m]
    <3>1. CASE m = l
      BY <1>0, <1>4, <3>1 DEF LockPhases
    <3>2. CASE m # l
      <4>1. pc'[m] = pc[m] /\ stale'[m] = stale[m] /\ acquired'[m] = acquired[m]
        BY <1>3, <3>2
      <4> QED BY <1>0, <4>1 DEF LockPhases
    <3> QED BY <3>1, <3>2
  <2>2. /\ \A k \in Key : newest[k] <= tso
        /\ \A p \in recycling : p[2] <= tso
    BY <1>0 DEF LockPhases
  <2> QED BY <2>1, <2>2 DEF LockPhases
<1>8. ReleasesDone'
  <2>1. \A m \in Range(unlockCh) : m # l
    BY <1>0 DEF ReleasesDone
  <2>2. \A m \in Range(unlockCh) : m \in Lock
    BY <1>0 DEF Range
  <2> QED BY <1>0, <1>3, <2>1, <2>2 DEF ReleasesDone
<1>9. OneQueue'
  <2>1. \A m \in Range(sched'.wake) : m \in Lock /\ pc'[m] = "wait"
    <3>1. \A m \in Range(sched.wake) : m \in Lock
      BY <1>0 DEF Range
    <3> QED BY <1>0, <1>3, <3>1 DEF OneQueue
  <2>2. ASSUME NEW s \in Slot, waiting'[s] = waiting[s]
        PROVE  /\ IsInjective(waiting'[s])
               /\ \A m \in Range(waiting'[s]) :
                     /\ pc'[m] = "wait" /\ ~stale'[m] /\ m \notin Range(sched'.wake)
                     /\ SlotOf[genLock[m][acquired'[m] + 1]] = s
    <3>1. \A m \in Range(waiting[s]) : m \in Lock /\ m # l
      BY <1>0 DEF Range
    <3> QED BY <1>0, <1>3, <2>2, <3>1 DEF OneQueue
  <2>3. CASE UNCHANGED waiting
    BY <2>1, <2>2, <2>3 DEF OneQueue
  <2>4. CASE Queues(l)
    <3>1. waiting'[s0] = Append(waiting[s0], l) /\ \A s \in Slot : s # s0 => waiting'[s] = waiting[s]
      BY <1>0, <1>2, <2>4 DEF Queues
    <3>2. /\ IsInjective(waiting'[s0]) /\ waiting' # waiting
          /\ \A m : m \in Range(waiting'[s0]) <=> m \in Range(waiting[s0]) \/ m = l
      <4>1. waiting[s0] \in Seq(Lock) /\ IsInjective(waiting[s0]) /\ l \notin Range(waiting[s0])
        BY <1>0, <1>2 DEF OneQueue
      <4> DEFINE w == waiting[s0]
      <4>2. w \in Seq(Lock) /\ IsInjective(w) /\ l \notin Range(w) /\ waiting'[s0] = Append(w, l)
        BY <3>1, <4>1
      <4> HIDE DEF w
      <4>3. /\ IsInjective(Append(w, l)) /\ Append(w, l) # w
            /\ \A m : m \in Range(Append(w, l)) <=> m \in Range(w) \/ m = l
        BY <4>2, AppendRange
      <4> QED BY <4>2, <4>3 DEF w
    <3>3. pc'[l] = "wait" /\ ~stale'[l] /\ acquired'[l] = acquired[l] /\ l \notin Range(sched'.wake)
      <4>1. pc'[l] = "wait" /\ acquired'[l] = acquired[l] /\ stale' = stale
        BY <1>0, <2>4 DEF Queues
      <4>2. l \notin Range(sched'.wake)
        BY <3>2
      <4> QED BY <4>1, <4>2
    <3>4. \A m \in Range(waiting'[s0]) :
             /\ pc'[m] = "wait" /\ ~stale'[m] /\ m \notin Range(sched'.wake)
             /\ SlotOf[genLock[m][acquired'[m] + 1]] = s0
      <4>0. waiting[s0] \in Seq(Lock) /\ l \notin Range(waiting[s0])
        BY <1>0, <1>2
      <4>1. \A m \in Range(waiting[s0]) : m \in Lock /\ m # l
        BY <4>0 DEF Range
      <4>2. \A m \in Range(waiting[s0]) :
             /\ pc'[m] = "wait" /\ ~stale'[m] /\ m \notin Range(sched'.wake)
             /\ SlotOf[genLock[m][acquired'[m] + 1]] = s0
        <5>1. \A m \in Range(waiting[s0]) :
                 /\ pc[m] = "wait" /\ ~stale[m] /\ m \notin Range(sched.wake)
                 /\ SlotOf[genLock[m][acquired[m] + 1]] = s0
          BY <1>0, <1>2 DEF OneQueue
        <5> QED BY <1>3, <4>1, <5>1
      <4>3. SlotOf[genLock[l][acquired'[l] + 1]] = s0
        BY <1>2, <3>3
      <4>4. \A m \in Range(waiting'[s0]) : m \in Range(waiting[s0]) \/ m = l
        BY <3>2
      <4> QED BY <3>3, <4>2, <4>3, <4>4
    <3>5. \A s \in Slot :
             /\ IsInjective(waiting'[s])
             /\ \A m \in Range(waiting'[s]) :
                   /\ pc'[m] = "wait" /\ ~stale'[m] /\ m \notin Range(sched'.wake)
                   /\ SlotOf[genLock[m][acquired'[m] + 1]] = s
      BY <2>2, <3>1, <3>2, <3>4
    <3> QED BY <2>1, <3>5 DEF OneQueue
  <2> QED BY <1>1, <2>3, <2>4 DEF Takes, TurnsStale
<1> QED BY <1>1, <1>6, <1>7, <1>8, <1>9 DEF LatchInv

-----------------------------------------------------------------------------
(* releaseSlot. *)

LEMMA LeastNatural ==
    ASSUME NEW S, S \subseteq Nat, S # {}
    PROVE  Min(S) \in S
<1> DEFINE R == OpToRel(<, Nat)
<1>1. PICK x \in S : \A y \in S : <<y, x>> \notin R
  <2>1. IsWellFoundedOn(R, Nat)
    BY NatLessThanWellFounded, Zenon
  <2> HIDE DEF R
  <2> QED BY <2>1, WFMin, Zenon
<1>2. \A y \in S : x <= y
  <2>1. \A y \in Nat : y < x => <<y, x>> \in Nat \X Nat /\ <<y, x>>[1] < <<y, x>>[2]
    OBVIOUS
  <2>2. \A y \in Nat : y < x => <<y, x>> \in R
    BY <2>1, Zenon DEF OpToRel
  <2>3. \A y \in S : y \in Nat /\ ~(y < x)
    BY <1>1, <2>2, Zenon
  <2>4. x \in Nat
    OBVIOUS
  <2> QED BY <2>3, <2>4
<1> QED BY <1>2, Zenon DEF Min

LEMMA LargerOf ==
    ASSUME NEW a \in Nat, NEW b \in Nat
    PROVE  Max({a, b}) \in {a, b} /\ a <= Max({a, b}) /\ b <= Max({a, b})
<1>1. \E x \in {a, b} : \A y \in {a, b} : x >= y
  <2>1. CASE a <= b
    BY <2>1
  <2>2. CASE b <= a
    BY <2>2
  <2> QED BY <2>1, <2>2
<1>2. Max({a, b}) \in {a, b} /\ \A y \in {a, b} : Max({a, b}) >= y
  BY <1>1, Zenon DEF Max
<1> QED BY <1>2

(* What releaseSlot does to lock l, whose last key is k: its node gets the *)
(* larger commit version max; next, unless None, leaves the queue of k's   *)
(* slot for the wake-up list, and is given k when it is late.              *)
HandsOver(l, k, max, next, late) ==
    /\ node' = [node EXCEPT ![k].max = max, ![k].val = IF late THEN next ELSE None]
    /\ \A m \in Lock : /\ acquired'[m] = IF m = l THEN acquired[m] - 1
                                         ELSE IF m = next /\ late THEN acquired[m] + 1 ELSE acquired[m]
                       /\ stale'[m] <=> stale[m] \/ (m = next /\ late)
    /\ acquired' \in [Lock -> Int] /\ stale' \in [Lock -> BOOLEAN]
    /\ \/ next = None /\ ~late /\ UNCHANGED <<waiting, sched>>
       \/ /\ next \in Lock /\ genLock[next][acquired[next] + 1] = k
          /\ \E i \in 1 .. Len(waiting[SlotOf[k]]) :
                /\ next = waiting[SlotOf[k]][i]
                /\ waiting' = [waiting EXCEPT ![SlotOf[k]] = RemoveAt(@, i)]
          /\ sched' = [sched EXCEPT !.wake = Append(@, next)]

LEMMA ReleaseEffect ==
    ASSUME LatchInv, Release
    PROVE  \E l \in Lock, k \in Key, max \in 0 .. MaxTS, next \in Lock \cup {None}, late \in BOOLEAN :
              /\ l = sched.lock /\ pc[l] = "done" /\ acquired[l] \in 1 .. Len(genLock[l])
              /\ k = genLock[l][acquired[l]] /\ SlotOf[k] \in Slot
              /\ node[k].max <= max /\ commitTS[l] <= max
              /\ next # l /\ HandsOver(l, k, max, next, late)
<1>0. /\ sched.pc = "release" /\ sched.lock \in Lock /\ acquired[sched.lock] > 0 /\ releaseSlot(sched.lock)
      /\ pc[sched.lock] = "done" /\ node \in [Key -> Node]
      /\ acquired \in [Lock -> Nat] /\ stale \in [Lock -> BOOLEAN] /\ waiting \in [Slot -> Seq(Lock)]
      /\ \A m \in Lock : acquired[m] \in 0 .. Len(genLock[m]) /\ commitTS[m] \in 0 .. MaxTS
  BY DEF Release, LatchInv, ReleasesDone, Types, TypeOK
<1>1. PICK l \in Lock : l = sched.lock
  BY <1>0
<1>2. acquired[l] \in 1 .. Len(genLock[l]) /\ pc[l] = "done" /\ releaseSlot(l)
  BY <1>0, <1>1, KeyOrder
<1>3. PICK k \in Key : k = genLock[l][acquired[l]] /\ SlotOf[k] \in Slot
  BY <1>2, KeyOrder
<1>4. node[k].max \in 0 .. MaxTS /\ commitTS[l] \in 0 .. MaxTS
  BY <1>0 DEF Node
<1>5. PICK max \in 0 .. MaxTS : max = Max({node[k].max, commitTS[l]}) /\ node[k].max <= max /\ commitTS[l] <= max
  <2>1. node[k].max \in Nat /\ commitTS[l] \in Nat
    BY <1>4
  <2>2. PICK a \in Nat, b \in Nat : a = node[k].max /\ b = commitTS[l]
    BY <2>1
  <2>3. Max({a, b}) \in {a, b} /\ a <= Max({a, b}) /\ b <= Max({a, b})
    BY LargerOf
  <2> QED BY <1>4, <2>2, <2>3
<1>6. PICK s \in Slot : s = SlotOf[k]
  BY <1>3
<1>7. CASE Waits(s, k) = {}
  <2>1. /\ node' = [node EXCEPT ![k].max = max, ![k].val = None]
        /\ acquired' = [acquired EXCEPT ![l] = @ - 1]
        /\ UNCHANGED <<waiting, stale, sched>>
    BY <1>2, <1>3, <1>5, <1>6, <1>7 DEF releaseSlot
  <2>2. HandsOver(l, k, max, None, FALSE)
    BY <1>0, <2>1 DEF HandsOver
  <2>3. None # l
    OBVIOUS
  <2> WITNESS l \in Lock, k \in Key, max \in 0 .. MaxTS, None \in Lock \cup {None}, FALSE \in BOOLEAN
  <2> QED BY <1>1, <1>2, <1>3, <1>5, <2>2, <2>3, Zenon
<1>8. CASE Waits(s, k) # {}
  <2>1. Waits(s, k) \subseteq Nat /\ Waits(s, k) \subseteq 1 .. Len(waiting[s])
    BY DEF Waits
  <2>2. PICK i \in 1 .. Len(waiting[s]) : i = Min(Waits(s, k)) /\ i \in Waits(s, k)
    <3> DEFINE W == Waits(s, k)
    <3>1. W \subseteq Nat /\ W # {} /\ W \subseteq 1 .. Len(waiting[s])
      BY <1>8, <2>1
    <3> HIDE DEF W
    <3>2. Min(W) \in W
      BY <3>1, LeastNatural
    <3> QED BY <3>1, <3>2 DEF W
  <2>3. PICK next \in Lock : next = waiting[s][i]
    BY <1>0
  <2>4. genLock[next][acquired[next] + 1] = k
    <3>1. genLock[waiting[s][i]][acquired[waiting[s][i]] + 1] = k
      BY <2>2, Zenon DEF Waits
    <3> QED BY <2>3, <3>1, Zenon
  <2>5. next # l
    <3>1. next \in Range(waiting[s])
      <4>1. waiting[s] \in Seq(Lock)
        BY <1>0
      <4> QED BY <2>3, <4>1 DEF Range
    <3>2. pc[next] = "wait"
      BY <3>1 DEF LatchInv, OneQueue
    <3> QED BY <1>2, <3>2
  <2>6. PICK late \in BOOLEAN : late <=> max > startTS[next]
    <3>1. (max > startTS[next]) \in BOOLEAN
      OBVIOUS
    <3> QED BY <3>1, Zenon
  <2>7. /\ waiting' = [waiting EXCEPT ![s] = RemoveAt(@, i)]
        /\ node' = [node EXCEPT ![k].max = max, ![k].val = IF late THEN next ELSE None]
        /\ acquired' = IF late THEN [[acquired EXCEPT ![l] = @ - 1] EXCEPT ![next] = @ + 1]
                               ELSE [acquired EXCEPT ![l] = @ - 1]
        /\ stale' = [stale EXCEPT ![next] = @ \/ max > startTS[next]]
        /\ sched' = [sched EXCEPT !.wake = Append(@, next)]
    <3> DEFINE p == max > startTS[next]
               less == [acquired EXCEPT ![l] = @ - 1]
    <3>1. /\ waiting' = [waiting EXCEPT ![s] = RemoveAt(@, i)]
          /\ node' = [node EXCEPT ![k].max = max, ![k].val = IF p THEN next ELSE None]
          /\ acquired' = IF p THEN [less EXCEPT ![next] = @ + 1] ELSE less
          /\ stale' = [stale EXCEPT ![next] = @ \/ p]
          /\ sched' = [sched EXCEPT !.wake = Append(@, next)]
      BY <1>2, <1>3, <1>5, <1>6, <1>8, <2>2, <2>3, Zenon DEF releaseSlot
    <3> QED BY <2>6, <3>1
  <2>8. /\ \A m \in Lock : acquired'[m] = IF m = l THEN acquired[m] - 1
                                          ELSE IF m = next /\ late THEN acquired[m] + 1 ELSE acquired[m]
        /\ acquired' \in [Lock -> Int]
    BY <1>0, <2>5, <2>7
  <2>9. /\ \A m \in Lock : stale'[m] <=> stale[m] \/ (m = next /\ late)
        /\ stale' \in [Lock -> BOOLEAN]
    BY <1>0, <2>6, <2>7
  <2>10. HandsOver(l, k, max, next, late)
    BY <1>6, <2>3, <2>4, <2>7, <2>8, <2>9 DEF HandsOver
  <2> WITNESS l \in Lock, k \in Key, max \in 0 .. MaxTS, next \in Lock \cup {None}, late \in BOOLEAN
  <2> QED BY <1>1, <1>2, <1>3, <1>5, <2>5, <2>10, Zenon
<1> QED BY <1>7, <1>8

LEMMA ReleaseStep ==
    ASSUME LatchInv, Release
    PROVE  LatchInv'
<1>0. /\ acquired \in [Lock -> Nat] /\ waiting \in [Slot -> Seq(Lock)] /\ node \in [Key -> Node]
      /\ stale \in [Lock -> BOOLEAN] /\ sched.wake \in Seq(Lock) /\ unlockCh \in Seq(Lock)
      /\ newest \in [Key -> Nat]
      /\ sched \in [pc : {"idle", "release", "wakeup"}, lock : Lock \cup {None}, wake : Seq(Lock)]
      /\ \A m \in Lock : /\ acquired[m] \in 0 .. Len(genLock[m]) /\ Len(genLock[m]) \in Nat
                         /\ commitTS[m] \in Nat
      /\ Types /\ LockPhases /\ OneQueue /\ ReleasesDone /\ HoldsKeys /\ NewestKnown
  <2>1. /\ newest \in [Key -> 0 .. MaxTS] /\ commitTS \in [Lock -> 0 .. MaxTS]
        /\ Types /\ LockPhases /\ OneQueue /\ ReleasesDone /\ HoldsKeys /\ NewestKnown
    BY DEF LatchInv, Types, TypeOK
  <2>2. newest \in [Key -> Nat] /\ \A m \in Lock : commitTS[m] \in Nat /\ Len(genLock[m]) \in Nat
    BY <2>1, KeyOrder
  <2>3. /\ acquired \in [Lock -> Nat] /\ waiting \in [Slot -> Seq(Lock)] /\ node \in [Key -> Node]
        /\ stale \in [Lock -> BOOLEAN] /\ unlockCh \in Seq(Lock)
        /\ \A m \in Lock : acquired[m] \in 0 .. Len(genLock[m])
        /\ sched \in [pc : {"idle", "release", "wakeup"}, lock : Lock \cup {None}, wake : Seq(Lock)]
    BY DEF LatchInv, Types, TypeOK
  <2>4. sched.wake \in Seq(Lock)
    BY <2>3
  <2> QED BY <2>1, <2>2, <2>3, <2>4
<1>1. UNCHANGED <<tso, startTS, commitTS, pc, unlockCh, closed, recycling, lastRecycle, newest>>
  BY DEF Release
<1>2. PICK l \in Lock, k \in Key, max \in 0 .. MaxTS, next \in Lock \cup {None}, late \in BOOLEAN :
              /\ l = sched.lock /\ pc[l] = "done" /\ acquired[l] \in 1 .. Len(genLock[l])
              /\ k = genLock[l][acquired[l]] /\ SlotOf[k] \in Slot
              /\ node[k].max <= max /\ commitTS[l] <= max
              /\ next # l /\ HandsOver(l, k, max, next, late)
  BY ReleaseEffect
<1>3. node[k].in /\ node[k].val = l
  BY <1>0, <1>2 DEF HoldsKeys
<1>4. /\ node'[k].in /\ node'[k].max = max /\ node'[k].val = (IF late THEN next ELSE None)
      /\ \A j \in Key : j # k => node'[j] = node[j]
      /\ node' \in [Key -> Node]
  <2>0. PICK v \in Lock \cup {None} : v = IF late THEN next ELSE None
    OBVIOUS
  <2> DEFINE n == [node[k] EXCEPT !.max = max, !.val = v]
  <2>1. n \in Node /\ n.in /\ n.max = max /\ n.val = v
    <3>1. node[k] \in Node
      BY <1>0
    <3> QED BY <1>3, <3>1 DEF Node
  <2>2. node' = [node EXCEPT ![k] = n]
    <3>1. node' = [node EXCEPT ![k].max = max, ![k].val = IF late THEN next ELSE None]
      BY <1>2, Zenon DEF HandsOver
    <3>2. node' = [node EXCEPT ![k].max = max, ![k].val = v]
      BY <2>0, <3>1
    <3> QED BY <1>0, <3>2 DEF Node
  <2> HIDE DEF n
  <2>3. /\ node'[k] = n /\ node' \in [Key -> Node]
        /\ \A j \in Key : j # k => node'[j] = node[j]
    BY <1>0, <2>1, <2>2
  <2> QED BY <2>0, <2>1, <2>3
<1>5. /\ \A m \in Lock : /\ acquired'[m] = IF m = l THEN acquired[m] - 1
                                           ELSE IF m = next /\ late THEN acquired[m] + 1 ELSE acquired[m]
                         /\ stale'[m] <=> stale[m] \/ (m = next /\ late)
      /\ stale' \in [Lock -> BOOLEAN] /\ acquired' \in [Lock -> Int]
  BY <1>2, Zenon DEF HandsOver
<1>6. \/ next = None /\ ~late /\ UNCHANGED <<waiting, sched>>
      \/ /\ next \in Lock /\ genLock[next][acquired[next] + 1] = k
         /\ \E i \in 1 .. Len(waiting[SlotOf[k]]) :
                /\ next = waiting[SlotOf[k]][i]
                /\ waiting' = [waiting EXCEPT ![SlotOf[k]] = RemoveAt(@, i)]
         /\ sched' = [sched EXCEPT !.wake = Append(@, next)]
  BY <1>2, Zenon DEF HandsOver
<1>7. ASSUME next \in Lock
      PROVE  /\ pc[next] = "wait" /\ ~stale[next] /\ next \notin Range(sched.wake)
             /\ acquired[next] < Len(genLock[next])
             /\ waiting' \in [Slot -> Seq(Lock)]
             /\ \A s \in Slot : /\ IsInjective(waiting'[s]) /\ next \notin Range(waiting'[s])
                                /\ \A x : x \in Range(waiting'[s]) => x \in Range(waiting[s])
             /\ sched' \in [pc : {"idle", "release", "wakeup"}, lock : Lock \cup {None}, wake : Seq(Lock)]
             /\ sched'.pc = sched.pc /\ sched'.lock = sched.lock
             /\ IsInjective(sched'.wake)
             /\ \A x : x \in Range(sched'.wake) <=> x \in Range(sched.wake) \/ x = next
  <2>0. PICK s0 \in Slot : s0 = SlotOf[k]
    BY <1>2
  <2>1. PICK i \in 1 .. Len(waiting[s0]) :
          /\ next = waiting[s0][i]
          /\ waiting' = [waiting EXCEPT ![s0] = RemoveAt(@, i)]
          /\ sched' = [sched EXCEPT !.wake = Append(@, next)]
          /\ genLock[next][acquired[next] + 1] = k
    BY <1>6, <1>7, <2>0
  <2>2. waiting[s0] \in Seq(Lock) /\ IsInjective(waiting[s0])
    BY <1>0 DEF OneQueue
  <2>3. next \in Range(waiting[s0])
    BY <2>1, <2>2 DEF Range
  <2>4. pc[next] = "wait" /\ ~stale[next] /\ next \notin Range(sched.wake)
    BY <1>0, <2>3 DEF OneQueue
  <2>5. acquired[next] < Len(genLock[next])
    BY <1>0, <1>7, <2>4 DEF LockPhases
  <2>6. PICK w \in Seq(Lock) : w = waiting[s0]
    BY <2>2
  <2>7. /\ RemoveAt(w, i) \in Seq(Lock) /\ IsInjective(RemoveAt(w, i))
        /\ next \notin Range(RemoveAt(w, i))
        /\ \A x : x \in Range(RemoveAt(w, i)) => x \in Range(w)
    BY <2>1, <2>2, <2>6, RemoveRange
  <2>8. waiting' = [waiting EXCEPT ![s0] = RemoveAt(w, i)]
    BY <2>1, <2>6
  <2>9. /\ waiting' \in [Slot -> Seq(Lock)]
        /\ waiting'[s0] = RemoveAt(w, i) /\ \A s \in Slot : s # s0 => waiting'[s] = waiting[s]
    BY <1>0, <2>7, <2>8
  <2>10. ASSUME NEW s \in Slot
         PROVE  /\ IsInjective(waiting'[s]) /\ next \notin Range(waiting'[s])
                /\ \A x : x \in Range(waiting'[s]) => x \in Range(waiting[s])
    <3>1. CASE s = s0
      BY <2>6, <2>7, <2>9, <3>1
    <3>2. CASE s # s0
      <4>1. waiting'[s] = waiting[s]
        BY <2>9, <3>2
      <4>2. IsInjective(waiting[s])
        BY <1>0 DEF OneQueue
      <4>3. next \in Range(waiting[s]) => SlotOf[genLock[next][acquired[next] + 1]] = s
        BY <1>0 DEF OneQueue
      <4>4. next \notin Range(waiting[s])
        BY <2>0, <2>1, <3>2, <4>3
      <4> QED BY <4>1, <4>2, <4>4
    <3> QED BY <3>1, <3>2
  <2>11. PICK u \in Seq(Lock) : u = sched.wake /\ IsInjective(u) /\ next \notin Range(u)
    BY <1>0, <2>4 DEF OneQueue
  <2>12. /\ Append(u, next) \in Seq(Lock) /\ IsInjective(Append(u, next))
         /\ \A x : x \in Range(Append(u, next)) <=> x \in Range(u) \/ x = next
    BY <1>7, <2>11, AppendRange
  <2>13. sched' = [sched EXCEPT !.wake = Append(u, next)]
    BY <2>1, <2>11
  <2>14. /\ sched' \in [pc : {"idle", "release", "wakeup"}, lock : Lock \cup {None}, wake : Seq(Lock)]
         /\ sched'.pc = sched.pc /\ sched'.lock = sched.lock /\ sched'.wake = Append(u, next)
    BY <1>0, <2>12, <2>13
  <2> QED BY <2>4, <2>5, <2>9, <2>10, <2>11, <2>12, <2>14
<1>8. \A m \in Lock : acquired'[m] \in 0 .. Len(genLock[m])
  <2> SUFFICES ASSUME NEW m \in Lock PROVE acquired'[m] \in 0 .. Len(genLock[m])
    OBVIOUS
  <2>0. acquired[m] \in 0 .. Len(genLock[m]) /\ Len(genLock[m]) \in Nat
    BY <1>0
  <2>1. CASE m = l
    <3>1. acquired'[m] = acquired[m] - 1 /\ acquired[m] # 0
      BY <1>2, <1>5, <2>1
    <3> QED BY <2>0, <3>1
  <2>2. CASE m = next
    <3>1. acquired'[m] \in {acquired[m], acquired[m] + 1} /\ acquired[m] < Len(genLock[m])
      BY <1>2, <1>5, <1>7, <2>2
    <3> QED BY <2>0, <3>1
  <2>3. CASE m # l /\ m # next
    BY <1>5, <2>0, <2>3
  <2> QED BY <2>1, <2>2, <2>3
<1>9. /\ waiting' \in [Slot -> Seq(Lock)]
      /\ sched' \in [pc : {"idle", "release", "wakeup"}, lock : Lock \cup {None}, wake : Seq(Lock)]
      /\ sched'.pc = sched.pc /\ sched'.lock = sched.lock
  BY <1>0, <1>6, <1>7
<1>10. Types'
  <2>1. acquired' \in [Lock -> Nat]
    <3>1. \A m \in Lock : acquired'[m] \in Nat
      BY <1>0, <1>8
    <3> QED BY <1>5, <3>1
  <2>2. TypeOK'
    BY <1>0, <1>1, <1>4, <1>5, <1>8, <1>9 DEF Types, TypeOK
  <2> QED BY <1>9, <2>1, <2>2 DEF Types
<1>11. LockPhases'
  <2>1. ASSUME NEW m \in Lock
        PROVE  /\ startTS[m] <= tso /\ commitTS[m] <= tso
               /\ pc[m] \in {"init", "begun"} => acquired'[m] = 0 /\ ~stale'[m]
               /\ pc[m] = "acquire" => acquired'[m] < Len(genLock[m]) /\ ~stale'[m]
               /\ pc[m] = "wait" => acquired'[m] < Len(genLock[m]) \/ stale'[m]
               /\ pc[m] = "held" => acquired'[m] = Len(genLock[m]) \/ stale'[m]
    <3>1. CASE m = l
      BY <1>0, <1>2, <3>1 DEF LockPhases
    <3>2. CASE m = next
      <4>1. pc[m] = "wait" /\ acquired[m] < Len(genLock[m]) /\ m # l
        BY <1>2, <1>7, <3>2
      <4>2. acquired'[m] = acquired[m] \/ stale'[m]
        BY <1>5, <3>2, <4>1
      <4> QED BY <1>0, <4>1, <4>2 DEF LockPhases
    <3>3. CASE m # l /\ m # next
      <4>1. acquired'[m] = acquired[m] /\ (stale'[m] <=> stale[m])
        BY <1>5, <3>3
      <4> QED BY <1>0, <4>1 DEF LockPhases
    <3> QED BY <3>1, <3>2, <3>3
  <2>2. /\ \A j \in Key : newest[j] <= tso
        /\ \A p \in recycling : p[2] <= tso
    BY <1>0 DEF LockPhases
  <2> QED BY <1>1, <2>1, <2>2 DEF LockPhases
<1>12. ReleasesDone'
  BY <1>0, <1>1, <1>9 DEF ReleasesDone
<1>13. OneQueue'
  <2>1. ASSUME NEW s \in Slot, NEW m \in Range(waiting[s]), m # next
        PROVE  /\ pc[m] = "wait" /\ ~stale'[m] /\ m \notin Range(sched.wake)
               /\ SlotOf[genLock[m][acquired'[m] + 1]] = s
    <3>1. /\ pc[m] = "wait" /\ ~stale[m] /\ m \notin Range(sched.wake)
          /\ SlotOf[genLock[m][acquired[m] + 1]] = s
      BY <1>0 DEF OneQueue
    <3>2. m \in Lock
      <4>1. waiting[s] \in Seq(Lock)
        BY <1>0
      <4> QED BY <4>1 DEF Range
    <3>3. acquired'[m] = acquired[m] /\ ~stale'[m]
      BY <1>2, <1>5, <2>1, <3>1, <3>2
    <3> QED BY <3>1, <3>3
  <2>2. CASE next = None
    <3>1. UNCHANGED <<waiting, sched>>
      BY <1>6, <2>2
    <3>2. ASSUME NEW s \in Slot, NEW m \in Range(waiting[s]) PROVE m # next
      <4>1. waiting[s] \in Seq(Lock)
        BY <1>0
      <4> QED BY <2>2, <4>1 DEF Range
    <3>3. /\ \A s \in Slot : IsInjective(waiting[s])
          /\ IsInjective(sched.wake) /\ \A m \in Range(sched.wake) : pc[m] = "wait"
      BY <1>0 DEF OneQueue
    <3> QED BY <1>1, <2>1, <3>1, <3>2, <3>3 DEF OneQueue
  <2>3. CASE next \in Lock
    <3>1. ASSUME NEW s \in Slot, NEW m \in Range(waiting'[s])
          PROVE  /\ pc[m] = "wait" /\ ~stale'[m] /\ m \notin Range(sched'.wake)
                 /\ SlotOf[genLock[m][acquired'[m] + 1]] = s
      <4>1. m \in Range(waiting[s]) /\ m # next
        BY <1>7, <2>3
      <4>2. m \notin Range(sched'.wake)
        BY <1>7, <2>1, <2>3, <4>1
      <4> QED BY <2>1, <4>1, <4>2
    <3>2. \A m \in Range(sched'.wake) : pc[m] = "wait"
      <4>1. \A m \in Range(sched.wake) : pc[m] = "wait"
        BY <1>0 DEF OneQueue
      <4> QED BY <1>7, <2>3, <4>1
    <3>3. IsInjective(sched'.wake) /\ \A s \in Slot : IsInjective(waiting'[s])
      BY <1>7, <2>3
    <3> QED BY <1>1, <3>1, <3>2, <3>3 DEF OneQueue
  <2> QED BY <2>2, <2>3
<1>14. HoldsKeys'
  <2> SUFFICES ASSUME NEW m \in Lock, NEW i \in 1 .. acquired'[m]
               PROVE  /\ node'[genLock[m][i]].in /\ node'[genLock[m][i]].val = m
                      /\ stale'[m] \/ pc[m] = "done" \/ node'[genLock[m][i]].max <= startTS[m]
    BY <1>1 DEF HoldsKeys
  <2>1. CASE i \in 1 .. acquired[m]
    <3>1. genLock[m][i] \in Key
      BY <1>0, <2>1, KeyOrder
    <3>2. genLock[m][i] # k
      <4>1. CASE m = l
        <5>1. i # acquired[l] /\ i \in 1 .. Len(genLock[l])
          BY <1>0, <1>2, <1>5, <4>1
        <5> QED BY <1>2, <4>1, <5>1, KeyOrder
      <4>2. CASE m # l
        BY <1>0, <1>3, <2>1, <4>2 DEF HoldsKeys
      <4> QED BY <4>1, <4>2
    <3>3. /\ node[genLock[m][i]].in /\ node[genLock[m][i]].val = m
          /\ stale[m] \/ pc[m] = "done" \/ node[genLock[m][i]].max <= startTS[m]
      BY <1>0, <2>1 DEF HoldsKeys
    <3> QED BY <1>4, <1>5, <3>1, <3>2, <3>3
  <2>2. CASE i \notin 1 .. acquired[m]
    <3>1. m = next /\ late /\ i = acquired[m] + 1
      <4>0. acquired[m] \in Nat /\ acquired'[m] \in Int
        BY <1>0, <1>5
      <4>1. m # l
        <5>1. CASE m = l
          <6>1. acquired'[m] = acquired[m] - 1
            BY <1>5, <5>1
          <6> QED BY <2>2, <4>0, <6>1
        <5> QED BY <5>1
      <4>2. m = next /\ late
        <5>1. CASE ~(m = next /\ late)
          <6>1. acquired'[m] = acquired[m]
            BY <1>5, <4>1, <5>1
          <6> QED BY <2>2, <6>1
        <5> QED BY <5>1
      <4>3. acquired'[m] = acquired[m] + 1
        BY <1>5, <4>1, <4>2
      <4> QED BY <2>2, <4>0, <4>2, <4>3
    <3>2. genLock[m][i] = k
      BY <1>6, <3>1
    <3> QED BY <1>4, <1>5, <3>1, <3>2
  <2> QED BY <2>1, <2>2
<1>15. NewestKnown'
  <2> SUFFICES ASSUME NEW j \in Key
               PROVE  /\ ~node'[j].in => node'[j] = NoNode
                      /\ \/ newest[j] = 0
                         \/ tso - newest[j] >= Expire
                         \/ node'[j].in /\ newest[j] <= node'[j].max
                         \/ /\ node'[j].in /\ node'[j].val \in Lock
                            /\ pc[node'[j].val] = "done" /\ newest[j] <= commitTS[node'[j].val]
    BY <1>1 DEF NewestKnown
  <2>1. CASE j # k
    BY <1>0, <1>4, <2>1 DEF NewestKnown
  <2>2. CASE j = k
    <3>1. \/ newest[k] = 0 \/ tso - newest[k] >= Expire
          \/ newest[k] <= node[k].max \/ newest[k] <= commitTS[l]
      BY <1>0, <1>3 DEF NewestKnown
    <3>2. newest[k] \in Nat /\ node[k].max \in Nat /\ commitTS[l] \in Nat /\ max \in Nat
      BY <1>0 DEF Node
    <3>3. newest[k] = 0 \/ tso - newest[k] >= Expire \/ newest[k] <= max
      <4>1. node[k].max <= max /\ commitTS[l] <= max
        BY <1>2
      <4> QED BY <3>1, <3>2, <4>1
    <3> QED BY <1>4, <2>2, <3>3
  <2> QED BY <2>1, <2>2
<1> QED BY <1>10, <1>11, <1>12, <1>13, <1>14, <1>15 DEF LatchInv

-----------------------------------------------------------------------------
(* The other steps. *)

LEMMA Facts ==
    ASSUME LatchInv
    PROVE  /\ tso \in Nat /\ tso <= MaxTS /\ newest \in [Key -> Nat] /\ node \in [Key -> Node]
           /\ startTS \in [Lock -> Nat] /\ commitTS \in [Lock -> Nat] /\ acquired \in [Lock -> Nat]
           /\ pc \in [Lock -> {"init", "begun", "acquire", "wait", "held", "done"}]
           /\ stale \in [Lock -> BOOLEAN] /\ waiting \in [Slot -> Seq(Lock)]
           /\ unlockCh \in Seq(Lock) /\ sched.wake \in Seq(Lock)
           /\ sched \in [pc : {"idle", "release", "wakeup"}, lock : Lock \cup {None}, wake : Seq(Lock)]
           /\ \A m \in Lock : acquired[m] \in 0 .. Len(genLock[m]) /\ Len(genLock[m]) \in Nat
           /\ \A m \in Range(unlockCh) : m \in Lock
           /\ \A m \in Range(sched.wake) : m \in Lock
           /\ \A s \in Slot : \A m \in Range(waiting[s]) : m \in Lock
<1>1. /\ tso \in 0 .. MaxTS /\ newest \in [Key -> 0 .. MaxTS] /\ startTS \in [Lock -> 0 .. MaxTS]
      /\ commitTS \in [Lock -> 0 .. MaxTS] /\ node \in [Key -> Node] /\ acquired \in [Lock -> Nat]
      /\ pc \in [Lock -> {"init", "begun", "acquire", "wait", "held", "done"}]
      /\ stale \in [Lock -> BOOLEAN] /\ waiting \in [Slot -> Seq(Lock)] /\ unlockCh \in Seq(Lock)
      /\ sched \in [pc : {"idle", "release", "wakeup"}, lock : Lock \cup {None}, wake : Seq(Lock)]
      /\ \A m \in Lock : acquired[m] \in 0 .. Len(genLock[m])
  BY DEF LatchInv, Types, TypeOK
<1>2. /\ tso \in Nat /\ tso <= MaxTS /\ newest \in [Key -> Nat] /\ startTS \in [Lock -> Nat]
      /\ commitTS \in [Lock -> Nat]
  BY <1>1
<1>3. sched.wake \in Seq(Lock) /\ \A m \in Lock : Len(genLock[m]) \in Nat
  BY <1>1, KeyOrder
<1>4. \A m \in Range(unlockCh) : m \in Lock
  BY <1>1 DEF Range
<1>5. \A m \in Range(sched.wake) : m \in Lock
  BY <1>3 DEF Range
<1>6. ASSUME NEW s \in Slot, NEW m \in Range(waiting[s]) PROVE m \in Lock
  <2>1. waiting[s] \in Seq(Lock)
    BY <1>1
  <2> QED BY <2>1 DEF Range
<1> QED BY <1>1, <1>2, <1>3, <1>4, <1>5, <1>6

(* A lock that does not wait is in no queue, so its steps leave the queues *)
(* as they should be.                                                      *)
LEMMA QueuesStay ==
    ASSUME LatchInv, NEW l \in Lock, pc[l] # "wait", UNCHANGED <<waiting, acquired, stale, sched>>,
           \A m \in Lock : m # l => pc'[m] = pc[m]
    PROVE  OneQueue'
<1>1. ASSUME NEW s \in Slot, NEW m \in Range(waiting[s])
      PROVE  /\ pc'[m] = "wait" /\ ~stale[m] /\ m \notin Range(sched.wake)
             /\ SlotOf[genLock[m][acquired[m] + 1]] = s
  <2>1. m \in Lock
    BY Facts
  <2>2. /\ pc[m] = "wait" /\ ~stale[m] /\ m \notin Range(sched.wake)
        /\ SlotOf[genLock[m][acquired[m] + 1]] = s
    BY DEF LatchInv, OneQueue
  <2> QED BY <2>1, <2>2
<1>2. ASSUME NEW m \in Range(sched.wake) PROVE pc'[m] = "wait"
  BY Facts DEF LatchInv, OneQueue
<1>3. IsInjective(sched.wake) /\ \A s \in Slot : IsInjective(waiting[s])
  BY DEF LatchInv, OneQueue
<1> QED BY <1>1, <1>2, <1>3 DEF OneQueue

(* Nor do they touch the keys of others.                                   *)
LEMMA HoldsStay ==
    ASSUME LatchInv, NEW l \in Lock, UNCHANGED <<node, acquired, stale>>,
           \A m \in Lock : m # l => startTS'[m] = startTS[m] /\ pc'[m] = pc[m],
           acquired[l] = 0 \/ (startTS'[l] = startTS[l] /\ (pc[l] = "done" => pc'[l] = "done"))
    PROVE  HoldsKeys'
<1> SUFFICES ASSUME NEW m \in Lock, NEW i \in 1 .. acquired[m]
             PROVE  /\ node[genLock[m][i]].in /\ node[genLock[m][i]].val = m
                    /\ stale[m] \/ pc'[m] = "done" \/ node[genLock[m][i]].max <= startTS'[m]
  BY DEF HoldsKeys
<1>1. /\ node[genLock[m][i]].in /\ node[genLock[m][i]].val = m
      /\ stale[m] \/ pc[m] = "done" \/ node[genLock[m][i]].max <= startTS[m]
  BY DEF LatchInv, HoldsKeys
<1>2. acquired[m] # 0
  BY Facts
<1>3. startTS'[m] = startTS[m] /\ (pc[m] = "done" => pc'[m] = "done")
  BY <1>2
<1> QED BY <1>1, <1>3

LEMMA BeginStep ==
    ASSUME LatchInv, NEW l \in Lock, Begin(l)
    PROVE  LatchInv'
<1>0. /\ pc[l] = "init" /\ pc' = [pc EXCEPT ![l] = "begun"]
      /\ UNCHANGED <<commitTS, acquired, stale, node, waiting, unlockCh, closed, sched, recycling,
                     lastRecycle, newest>>
  BY DEF Begin, latchVars, schedVars
<1>1. PICK t \in 1 .. MaxTS : t = tso + 1 /\ tso' = t /\ startTS' = [startTS EXCEPT ![l] = t]
  <2>1. tso < MaxTS /\ tso' = tso + 1 /\ startTS' = [startTS EXCEPT ![l] = tso']
    BY DEF Begin
  <2>2. PICK t \in 1 .. MaxTS : t = tso + 1
    BY <2>1, Facts
  <2> QED BY <2>1, <2>2
<1>2. /\ startTS' \in [Lock -> 0 .. MaxTS] /\ startTS'[l] = t
      /\ pc' \in [Lock -> {"init", "begun", "acquire", "wait", "held", "done"}] /\ pc'[l] = "begun"
      /\ \A m \in Lock : m # l => startTS'[m] = startTS[m] /\ pc'[m] = pc[m]
      /\ acquired[l] = 0 /\ ~stale[l]
  BY <1>0, <1>1, Facts DEF LatchInv, LockPhases, Types, TypeOK
<1>3. Types'
  BY <1>0, <1>1, <1>2 DEF LatchInv, Types, TypeOK
<1>4. LockPhases'
  <2>0. tso \in Nat /\ t \in Nat /\ tso <= t
    BY <1>1, Facts
  <2>1. ASSUME NEW m \in Lock
        PROVE  /\ startTS'[m] <= t /\ commitTS[m] <= t
               /\ pc'[m] \in {"init", "begun"} => acquired[m] = 0 /\ ~stale[m]
               /\ pc'[m] = "acquire" => acquired[m] < Len(genLock[m]) /\ ~stale[m]
               /\ pc'[m] = "wait" => acquired[m] < Len(genLock[m]) \/ stale[m]
               /\ pc'[m] = "held" => acquired[m] = Len(genLock[m]) \/ stale[m]
    <3>1. startTS[m] <= tso /\ commitTS[m] <= tso /\ startTS[m] \in Nat /\ commitTS[m] \in Nat
      BY Facts DEF LatchInv, LockPhases
    <3>2. startTS'[m] <= t /\ commitTS[m] <= t
      BY <1>2, <2>0, <3>1
    <3> QED BY <1>2, <3>2 DEF LatchInv, LockPhases
  <2>2. ASSUME NEW k \in Key PROVE newest[k] <= t
    <3>1. newest[k] <= tso /\ newest[k] \in Nat
      BY Facts DEF LatchInv, LockPhases
    <3> QED BY <2>0, <3>1
  <2>3. ASSUME NEW p \in recycling PROVE p[2] <= t
    <3>1. p[2] <= tso /\ p[2] \in Nat
      BY DEF LatchInv, LockPhases, Types, TypeOK
    <3> QED BY <2>0, <3>1
  <2> QED BY <1>0, <1>1, <2>1, <2>2, <2>3 DEF LockPhases
<1>5. OneQueue'
  BY <1>0, <1>2, QueuesStay
<1>6. ReleasesDone'
  BY <1>0, <1>2, Facts DEF LatchInv, ReleasesDone
<1>7. HoldsKeys'
  BY <1>0, <1>2, HoldsStay
<1>8. NewestKnown'
  <2> SUFFICES ASSUME NEW k \in Key
               PROVE  /\ ~node[k].in => node[k] = NoNode
                      /\ \/ newest[k] = 0
                         \/ t - newest[k] >= Expire
                         \/ node[k].in /\ newest[k] <= node[k].max
                         \/ /\ node[k].in /\ node[k].val \in Lock
                            /\ pc'[node[k].val] = "done" /\ newest[k] <= commitTS[node[k].val]
    BY <1>0, <1>1 DEF NewestKnown
  <2>1. /\ ~node[k].in => node[k] = NoNode
        /\ \/ newest[k] = 0
           \/ tso - newest[k] >= Expire
           \/ node[k].in /\ newest[k] <= node[k].max
           \/ /\ node[k].in /\ node[k].val \in Lock
              /\ pc[node[k].val] = "done" /\ newest[k] <= commitTS[node[k].val]
    BY DEF LatchInv, NewestKnown
  <2>2. newest[k] \in Nat /\ tso \in Nat /\ t = tso + 1
    BY <1>1, Facts
  <2>3. tso - newest[k] >= Expire => t - newest[k] >= Expire
    BY <2>2
  <2>4. node[k].val \in Lock /\ pc[node[k].val] = "done" => pc'[node[k].val] = "done"
    BY <1>0, <1>2
  <2> QED BY <2>1, <2>3, <2>4
<1> QED BY <1>3, <1>4, <1>5, <1>6, <1>7, <1>8 DEF LatchInv

LEMMA CallLockStep ==
    ASSUME LatchInv, NEW l \in Lock, CallLock(l)
    PROVE  LatchInv'
<1>0. /\ pc[l] = "begun" /\ pc' = [pc EXCEPT ![l] = "acquire"]
      /\ UNCHANGED <<tso, startTS, commitTS, acquired, stale, node, waiting, unlockCh, closed, sched,
                     recycling, lastRecycle, newest>>
  BY DEF CallLock, latchVars, schedVars
<1>1. Len(genLock[l]) \in Nat /\ Len(genLock[l]) # 0
  <2>1. PICK k \in Keys[l] : TRUE
    BY KeysAssumption
  <2> QED BY <2>1, KeyOrder
<1>2. /\ pc' \in [Lock -> {"init", "begun", "acquire", "wait", "held", "done"}] /\ pc'[l] = "acquire"
      /\ \A m \in Lock : m # l => pc'[m] = pc[m]
      /\ acquired[l] = 0 /\ ~stale[l]
  BY <1>0, Facts DEF LatchInv, LockPhases
<1>3. Types'
  BY <1>0, <1>2 DEF LatchInv, Types, TypeOK
<1>4. LockPhases'
  BY <1>0, <1>1, <1>2 DEF LatchInv, LockPhases
<1>5. OneQueue'
  BY <1>0, <1>2, QueuesStay
<1>6. ReleasesDone'
  BY <1>0, <1>2, Facts DEF LatchInv, ReleasesDone
<1>7. HoldsKeys'
  BY <1>0, <1>2, HoldsStay
<1>8. NewestKnown'
  BY <1>0, <1>2, Facts DEF LatchInv, NewestKnown
<1> QED BY <1>3, <1>4, <1>5, <1>6, <1>7, <1>8 DEF LatchInv

LEMMA UnLockStep ==
    ASSUME LatchInv, NEW l \in Lock, NEW commits \in BOOLEAN, UnLock(l, commits)
    PROVE  LatchInv'
<1>0. /\ pc[l] = "held" /\ pc' = [pc EXCEPT ![l] = "done"]
      /\ commits => ~stale[l]
      /\ unlockCh' = unlockCh \/ (Len(unlockCh) < ChanSize /\ unlockCh' = Append(unlockCh, l))
      /\ UNCHANGED <<startTS, acquired, stale, node, waiting, closed, sched, recycling, lastRecycle>>
  BY DEF UnLock, latchVars
<1>1. PICK t \in 0 .. MaxTS :
        /\ tso' = t /\ tso <= t
        /\ commitTS' = [commitTS EXCEPT ![l] = IF commits THEN t ELSE @]
        /\ newest' = [k \in Key |-> IF commits /\ k \in Keys[l] THEN t ELSE newest[k]]
  <2>1. CASE commits
    <3>1. tso < MaxTS /\ tso' = tso + 1
      BY <2>1 DEF UnLock
    <3>2. PICK t \in 0 .. MaxTS : t = tso + 1
      BY <3>1, Facts
    <3>3. /\ commitTS' = [commitTS EXCEPT ![l] = IF commits THEN t ELSE @]
          /\ newest' = [k \in Key |-> IF commits /\ k \in Keys[l] THEN t ELSE newest[k]]
      BY <3>1, <3>2 DEF UnLock
    <3>4. tso' = t /\ tso <= t
      BY <3>1, <3>2, Facts
    <3> QED BY <3>3, <3>4
  <2>2. CASE ~commits
    BY <2>2, Facts DEF UnLock
  <2> QED BY <2>1, <2>2
<1>2. /\ commitTS' \in [Lock -> 0 .. MaxTS] /\ newest' \in [Key -> 0 .. MaxTS]
      /\ pc' \in [Lock -> {"init", "begun", "acquire", "wait", "held", "done"}] /\ pc'[l] = "done"
      /\ commitTS'[l] = (IF commits THEN t ELSE commitTS[l])
      /\ \A m \in Lock : m # l => commitTS'[m] = commitTS[m] /\ pc'[m] = pc[m]
      /\ \A k \in Key : newest'[k] = IF commits /\ k \in Keys[l] THEN t ELSE newest[k]
  BY <1>0, <1>1, Facts DEF LatchInv, Types, TypeOK
<1>3. /\ unlockCh' \in Seq(Lock) /\ Len(unlockCh') <= ChanSize
      /\ \A m \in Range(unlockCh') : m \in Range(unlockCh) \/ m = l
  <2>1. unlockCh \in Seq(Lock) /\ Len(unlockCh) <= ChanSize
    BY DEF LatchInv, Types, TypeOK
  <2>2. CASE unlockCh' = unlockCh
    BY <2>1, <2>2
  <2>3. CASE Len(unlockCh) < ChanSize /\ unlockCh' = Append(unlockCh, l)
    <3>1. PICK u \in Seq(Lock) : u = unlockCh
      BY <2>1
    <3>2. Append(u, l) \in Seq(Lock) /\ \A x : x \in Range(Append(u, l)) <=> x \in Range(u) \/ x = l
      BY AppendRange
    <3>3. Len(Append(u, l)) = Len(u) + 1 /\ Len(u) \in Nat
      OBVIOUS
    <3> QED BY <2>3, <3>1, <3>2, <3>3
  <2> QED BY <1>0, <2>2, <2>3
<1>4. Types'
  BY <1>0, <1>1, <1>2, <1>3 DEF LatchInv, Types, TypeOK
<1>5. LockPhases'
  <2>1. ASSUME NEW m \in Lock
        PROVE  /\ startTS[m] <= t /\ commitTS'[m] <= t
               /\ pc'[m] \in {"init", "begun"} => acquired[m] = 0 /\ ~stale[m]
               /\ pc'[m] = "acquire" => acquired[m] < Len(genLock[m]) /\ ~stale[m]
               /\ pc'[m] = "wait" => acquired[m] < Len(genLock[m]) \/ stale[m]
               /\ pc'[m] = "held" => acquired[m] = Len(genLock[m]) \/ stale[m]
    <3>1. startTS[m] <= tso /\ commitTS[m] <= tso /\ startTS[m] \in Nat /\ commitTS[m] \in Nat
      BY Facts DEF LatchInv, LockPhases
    <3>2. startTS[m] <= t /\ commitTS'[m] <= t
      BY <1>1, <1>2, <3>1, Facts
    <3> QED BY <1>2, <3>2 DEF LatchInv, LockPhases
  <2>2. ASSUME NEW k \in Key PROVE newest'[k] <= t
    <3>1. newest[k] <= tso /\ newest[k] \in Nat
      BY Facts DEF LatchInv, LockPhases
    <3> QED BY <1>1, <1>2, <3>1, Facts
  <2>3. ASSUME NEW p \in recycling PROVE p[2] <= t
    <3>1. p[2] <= tso /\ p[2] \in Nat
      BY DEF LatchInv, LockPhases, Types, TypeOK
    <3> QED BY <1>1, <3>1, Facts
  <2> QED BY <1>0, <1>1, <2>1, <2>2, <2>3 DEF LockPhases
<1>6. OneQueue'
  BY <1>0, <1>2, QueuesStay
<1>7. ReleasesDone'
  <2>1. \A m \in Range(unlockCh) : pc[m] = "done" /\ m \in Lock
    BY Facts DEF LatchInv, ReleasesDone
  <2>2. \A m \in Range(unlockCh') : pc'[m] = "done"
    BY <1>2, <1>3, <2>1
  <2>3. sched.pc # "idle" => sched.lock \in Lock /\ pc'[sched.lock] = "done"
    BY <1>2 DEF LatchInv, ReleasesDone
  <2> QED BY <1>0, <2>2, <2>3 DEF ReleasesDone
<1>8. HoldsKeys'
  BY <1>0, <1>2, HoldsStay
<1>9. NewestKnown'
  <2> SUFFICES ASSUME NEW k \in Key
               PROVE  /\ ~node[k].in => node[k] = NoNode
                      /\ \/ newest'[k] = 0
                         \/ t - newest'[k] >= Expire
                         \/ node[k].in /\ newest'[k] <= node[k].max
                         \/ /\ node[k].in /\ node[k].val \in Lock
                            /\ pc'[node[k].val] = "done" /\ newest'[k] <= commitTS'[node[k].val]
    BY <1>0, <1>1 DEF NewestKnown
  <2>0. ~node[k].in => node[k] = NoNode
    BY DEF LatchInv, NewestKnown
  <2>1. CASE commits /\ k \in Keys[l]
    <3>1. PICK i \in 1 .. Len(genLock[l]) : genLock[l][i] = k
      BY <2>1, KeyOrder
    <3>2. acquired[l] = Len(genLock[l])
      BY <1>0, <2>1 DEF LatchInv, LockPhases
    <3>3. node[k].in /\ node[k].val = l
      BY <3>1, <3>2 DEF LatchInv, HoldsKeys
    <3>4. newest'[k] = t /\ commitTS'[l] = t
      BY <1>2, <2>1
    <3> QED BY <1>2, <2>0, <3>3, <3>4
  <2>2. CASE ~(commits /\ k \in Keys[l])
    <3>1. newest'[k] = newest[k] /\ newest[k] \in Nat
      BY <1>2, <2>2, Facts
    <3>2. \/ newest[k] = 0
          \/ tso - newest[k] >= Expire
          \/ node[k].in /\ newest[k] <= node[k].max
          \/ /\ node[k].in /\ node[k].val \in Lock
             /\ pc[node[k].val] = "done" /\ newest[k] <= commitTS[node[k].val]
      BY DEF LatchInv, NewestKnown
    <3>3. tso - newest[k] >= Expire => t - newest[k] >= Expire
      BY <1>1, <3>1, Facts
    <3>4. node[k].val \in Lock /\ pc[node[k].val] = "done" =>
             pc'[node[k].val] = "done" /\ commitTS'[node[k].val] = commitTS[node[k].val]
      BY <1>0, <1>2
    <3> QED BY <2>0, <3>1, <3>2, <3>3, <3>4
  <2> QED BY <2>1, <2>2
<1> QED BY <1>4, <1>5, <1>6, <1>7, <1>8, <1>9 DEF LatchInv

LEMMA AcquireCallStep ==
    ASSUME LatchInv, NEW l \in Lock, Acquire(l)
    PROVE  LatchInv'
<1>1. /\ pc[l] = "acquire" /\ acquireSlot(l)
      /\ UNCHANGED <<tso, startTS, commitTS, unlockCh, closed, sched, recycling, lastRecycle, newest>>
  BY DEF Acquire, schedVars
<1>2. acquired[l] < Len(genLock[l]) /\ ~stale[l]
  BY <1>1 DEF LatchInv, LockPhases
<1>3. /\ \A s \in Slot : l \notin Range(waiting[s])
      /\ l \notin Range(sched.wake) /\ IsInjective(sched.wake)
  BY <1>1 DEF LatchInv, OneQueue
<1>4. sched' \in [pc : {"idle", "release", "wakeup"}, lock : Lock \cup {None}, wake : Seq(Lock)]
  BY <1>1, Facts
<1> QED BY <1>1, <1>2, <1>3, <1>4, AcquireStep

(* The scheduler's steps that leave the locks and latches alone.           *)
LEMMA SchedStep ==
    ASSUME LatchInv, UNCHANGED <<tso, startTS, commitTS, pc, acquired, stale, node, waiting, newest>>,
           closed' \in BOOLEAN, unlockCh' \in Seq(Lock), Len(unlockCh') <= ChanSize,
           \A m \in Range(unlockCh') : m \in Range(unlockCh),
           sched' \in [pc : {"idle", "release", "wakeup"}, lock : Lock \cup {None}, wake : Seq(Lock)],
           sched'.wake \in {sched.wake, <<>>},
           sched'.pc # "idle" => sched'.lock \in Lock /\ pc[sched'.lock] = "done",
           recycling' \subseteq (Slot \X (0 .. MaxTS)), \A p \in recycling' : p[2] <= tso
    PROVE  LatchInv'
<1>1. Types'
  BY DEF LatchInv, Types, TypeOK
<1>2. LockPhases'
  BY DEF LatchInv, LockPhases
<1>3. OneQueue'
  <2>1. IsInjective(sched'.wake) /\ \A m : m \in Range(sched'.wake) => m \in Range(sched.wake)
    BY EmptyRange DEF LatchInv, OneQueue
  <2>2. /\ \A s \in Slot :
              /\ IsInjective(waiting[s])
              /\ \A l \in Range(waiting[s]) :
                    /\ pc[l] = "wait" /\ ~stale[l] /\ l \notin Range(sched.wake)
                    /\ SlotOf[genLock[l][acquired[l] + 1]] = s
        /\ \A l \in Range(sched.wake) : pc[l] = "wait"
    BY DEF LatchInv, OneQueue
  <2> QED BY <2>1, <2>2 DEF OneQueue
<1>4. ReleasesDone'
  BY DEF LatchInv, ReleasesDone
<1>5. HoldsKeys'
  BY DEF LatchInv, HoldsKeys
<1>6. NewestKnown'
  BY DEF LatchInv, NewestKnown
<1> QED BY <1>1, <1>2, <1>3, <1>4, <1>5, <1>6 DEF LatchInv

LEMMA QuietSteps ==
    ASSUME LatchInv, Close \/ TakeUnlock \/ Released \/ EndUnlock \/ UNCHANGED vars
    PROVE  LatchInv'
<1>0. /\ closed \in BOOLEAN /\ unlockCh \in Seq(Lock) /\ Len(unlockCh) <= ChanSize
      /\ sched \in [pc : {"idle", "release", "wakeup"}, lock : Lock \cup {None}, wake : Seq(Lock)]
      /\ sched.pc # "idle" => sched.lock \in Lock /\ pc[sched.lock] = "done"
      /\ recycling \subseteq (Slot \X (0 .. MaxTS)) /\ \A p \in recycling : p[2] <= tso
      /\ \A m \in Range(unlockCh) : m \in Lock /\ pc[m] = "done"
  BY Facts DEF LatchInv, Types, TypeOK, LockPhases, ReleasesDone
<1>1. CASE Close
  BY <1>0, <1>1, SchedStep DEF Close, lockVars, latchVars
<1>2. CASE TakeUnlock
  <2>1. PICK u \in Seq(Lock) : u = unlockCh /\ u # <<>> /\ Len(u) <= ChanSize
    BY <1>0, <1>2 DEF TakeUnlock
  <2>2. /\ Tail(u) \in Seq(Lock) /\ Head(u) \in Lock /\ Head(u) \in Range(u)
        /\ \A x : x \in Range(Tail(u)) => x \in Range(u)
    BY <2>1, TailRange
  <2>3. Len(Tail(u)) <= ChanSize
    BY <2>1
  <2>4. /\ unlockCh' = Tail(u) /\ sched' = [pc |-> "release", lock |-> Head(u), wake |-> <<>>]
        /\ UNCHANGED <<tso, startTS, commitTS, pc, acquired, stale, node, waiting, closed, recycling, newest>>
    BY <1>2, <2>1 DEF TakeUnlock, lockVars, latchVars
  <2>5. /\ sched' \in [pc : {"idle", "release", "wakeup"}, lock : Lock \cup {None}, wake : Seq(Lock)]
        /\ sched'.wake = <<>> /\ sched'.lock \in Lock /\ pc[sched'.lock] = "done"
    BY <1>0, <2>1, <2>2, <2>4
  <2> QED BY <1>0, <2>1, <2>2, <2>3, <2>4, <2>5, SchedStep
<1>3. CASE Released
  <2>1. /\ sched' = [sched EXCEPT !.pc = "wakeup"] /\ sched.pc = "release"
        /\ UNCHANGED <<tso, startTS, commitTS, pc, acquired, stale, node, waiting, unlockCh, closed,
                       recycling, newest>>
    BY <1>3 DEF Released, lockVars, latchVars
  <2>2. /\ sched' \in [pc : {"idle", "release", "wakeup"}, lock : Lock \cup {None}, wake : Seq(Lock)]
        /\ sched'.wake = sched.wake /\ sched'.lock = sched.lock
    BY <1>0, <2>1
  <2> QED BY <1>0, <2>1, <2>2, SchedStep
<1>4. CASE EndUnlock
  <2>1. /\ sched' = SchedIdle /\ sched.pc = "wakeup"
        /\ recycling' \in {recycling, recycling \cup (Slot \X {commitTS[sched.lock]})}
        /\ UNCHANGED <<tso, startTS, commitTS, pc, acquired, stale, node, waiting, unlockCh, closed, newest>>
    BY <1>4 DEF EndUnlock, lockVars, latchVars
  <2>2. /\ sched' \in [pc : {"idle", "release", "wakeup"}, lock : Lock \cup {None}, wake : Seq(Lock)]
        /\ sched'.wake = <<>> /\ sched'.pc = "idle"
    BY <2>1 DEF SchedIdle
  <2>3. commitTS[sched.lock] \in 0 .. MaxTS /\ commitTS[sched.lock] <= tso
    BY <1>0, <2>1 DEF LatchInv, Types, TypeOK, LockPhases
  <2>4. recycling' \subseteq (Slot \X (0 .. MaxTS)) /\ \A p \in recycling' : p[2] <= tso
    BY <1>0, <2>1, <2>3
  <2> QED BY <1>0, <2>1, <2>2, <2>4, SchedStep
<1>5. CASE UNCHANGED vars
  BY <1>0, <1>5, SchedStep DEF vars, lockVars, latchVars, schedVars
<1> QED BY <1>1, <1>2, <1>3, <1>4, <1>5

LEMMA WakeStaleStep ==
    ASSUME LatchInv, WakeStale
    PROVE  LatchInv'
<1>1. /\ sched.wake # <<>> /\ stale[Head(sched.wake)]
      /\ pc' = [pc EXCEPT ![Head(sched.wake)] = "held"]
      /\ sched' = [sched EXCEPT !.wake = Tail(sched.wake)]
      /\ UNCHANGED <<tso, startTS, commitTS, acquired, stale, node, waiting, unlockCh, closed,
                     recycling, lastRecycle, newest>>
  BY DEF WakeStale, latchVars
<1>2. PICK w \in Seq(Lock) : w = sched.wake
  BY Facts
<1>3. /\ Tail(w) \in Seq(Lock) /\ Head(w) \in Lock /\ Head(w) \in Range(w)
      /\ \A x : x \in Range(Tail(w)) => x \in Range(w)
      /\ IsInjective(Tail(w)) /\ Head(w) \notin Range(Tail(w))
  <2>1. IsInjective(w) /\ w # <<>>
    BY <1>1, <1>2 DEF LatchInv, OneQueue
  <2> QED BY <2>1, TailRange
<1>4. PICK l \in Lock : l = Head(w)
  BY <1>3
<1>5. /\ pc[l] = "wait" /\ stale[l] /\ pc' = [pc EXCEPT ![l] = "held"]
      /\ l \notin Range(Tail(w)) /\ l \in Range(sched.wake)
  BY <1>1, <1>2, <1>3, <1>4 DEF LatchInv, OneQueue
<1>6. /\ pc' \in [Lock -> {"init", "begun", "acquire", "wait", "held", "done"}] /\ pc'[l] = "held"
      /\ \A m \in Lock : m # l => pc'[m] = pc[m]
  BY <1>5, Facts
<1>7. /\ sched' \in [pc : {"idle", "release", "wakeup"}, lock : Lock \cup {None}, wake : Seq(Lock)]
      /\ sched'.wake = Tail(w) /\ sched'.pc = sched.pc /\ sched'.lock = sched.lock
  BY <1>1, <1>2, <1>3, Facts
<1>8. Types'
  BY <1>1, <1>6, <1>7 DEF LatchInv, Types, TypeOK
<1>9. LockPhases'
  BY <1>1, <1>5, <1>6 DEF LatchInv, LockPhases
<1>10. OneQueue'
  <2>1. ASSUME NEW s \in Slot, NEW m \in Range(waiting[s])
        PROVE  /\ pc'[m] = "wait" /\ ~stale[m] /\ m \notin Range(Tail(w))
               /\ SlotOf[genLock[m][acquired[m] + 1]] = s
    <3>1. m \in Lock
      BY Facts
    <3>2. /\ pc[m] = "wait" /\ ~stale[m] /\ m \notin Range(sched.wake)
          /\ SlotOf[genLock[m][acquired[m] + 1]] = s
      BY DEF LatchInv, OneQueue
    <3> QED BY <1>2, <1>3, <1>5, <1>6, <3>1, <3>2
  <2>2. ASSUME NEW m \in Range(Tail(w)) PROVE pc'[m] = "wait"
    <3>1. m \in Range(sched.wake) /\ m # l
      BY <1>2, <1>3, <1>5
    <3>2. m \in Lock /\ pc[m] = "wait"
      BY <3>1, Facts DEF LatchInv, OneQueue
    <3> QED BY <1>6, <3>1, <3>2
  <2>3. \A s \in Slot : IsInjective(waiting[s])
    BY DEF LatchInv, OneQueue
  <2>4. /\ waiting' = waiting /\ stale' = stale /\ acquired' = acquired
        /\ sched'.wake = Tail(w) /\ IsInjective(Tail(w))
    BY <1>1, <1>3, <1>7
  <2> QED BY <2>1, <2>2, <2>3, <2>4, Zenon DEF OneQueue
<1>11. ReleasesDone'
  <2>1. \A m \in Range(unlockCh) : m \in Lock /\ pc[m] = "done"
    BY Facts DEF LatchInv, ReleasesDone
  <2>2. sched.pc # "idle" => sched.lock \in Lock /\ pc[sched.lock] = "done"
    BY DEF LatchInv, ReleasesDone
  <2>3. \A m \in Lock : pc[m] = "done" => pc'[m] = "done"
    BY <1>5, <1>6
  <2> QED BY <1>1, <1>7, <2>1, <2>2, <2>3 DEF ReleasesDone
<1>12. HoldsKeys'
  BY <1>1, <1>5, <1>6, HoldsStay
<1>13. NewestKnown'
  <2>1. \A m \in Lock : pc[m] = "done" => pc'[m] = "done"
    BY <1>5, <1>6
  <2> QED BY <1>1, <2>1 DEF LatchInv, NewestKnown
<1> QED BY <1>8, <1>9, <1>10, <1>11, <1>12, <1>13 DEF LatchInv

LEMMA WakeAcquireStep ==
    ASSUME LatchInv, WakeAcquire
    PROVE  LatchInv'
<1>1. PICK w \in Seq(Lock) : w = sched.wake
  BY Facts
<1>2. w # <<>> /\ IsInjective(w)
  BY <1>1 DEF WakeAcquire, LatchInv, OneQueue
<1>3. /\ Tail(w) \in Seq(Lock) /\ Head(w) \in Lock /\ Head(w) \in Range(w)
      /\ \A x : x \in Range(Tail(w)) => x \in Range(w)
      /\ IsInjective(Tail(w)) /\ Head(w) \notin Range(Tail(w))
  BY <1>2, TailRange
<1>4. PICK l \in Lock : l = Head(w)
  BY <1>3
<1>5. /\ ~stale[l] /\ acquireSlot(l)
      /\ sched' = IF pc'[l] = "held" \/ waiting' # waiting
                    THEN [sched EXCEPT !.wake = Tail(w)] ELSE sched
      /\ UNCHANGED <<tso, startTS, commitTS, unlockCh, closed, recycling, lastRecycle, newest>>
  BY <1>1, <1>4 DEF WakeAcquire
<1>6. l \in Range(sched.wake) /\ pc[l] = "wait"
  BY <1>1, <1>3, <1>4 DEF LatchInv, OneQueue
<1>7. acquired[l] < Len(genLock[l]) /\ \A s \in Slot : l \notin Range(waiting[s])
  BY <1>5, <1>6 DEF LatchInv, LockPhases, OneQueue
<1>8. Takes(l) \/ TurnsStale(l) \/ Queues(l)
  BY <1>5, <1>6, <1>7, AcquireNodes
<1>9. pc'[l] \in {"held", "wait"}
  BY <1>6, <1>8, Facts DEF Takes, TurnsStale, Queues
<1>10. /\ sched' \in [pc : {"idle", "release", "wakeup"}, lock : Lock \cup {None}, wake : Seq(Lock)]
       /\ sched'.pc = sched.pc /\ sched'.lock = sched.lock
       /\ \/ sched'.wake = Tail(w)
          \/ sched'.wake = w /\ pc'[l] # "held" /\ waiting' = waiting
  BY <1>1, <1>3, <1>5, Facts
<1>11. /\ IsInjective(sched'.wake) /\ \A m : m \in Range(sched'.wake) => m \in Range(sched.wake)
       /\ l \in Range(sched'.wake) => pc'[l] = "wait" /\ UNCHANGED waiting
  BY <1>1, <1>2, <1>3, <1>4, <1>9, <1>10
<1> QED BY <1>5, <1>6, <1>7, <1>10, <1>11, AcquireStep

LEMMA RecycleStep ==
    ASSUME LatchInv, NEW s \in Slot, NEW ts \in 1 .. MaxTS, RecycleSlot(s, ts)
    PROVE  LatchInv'
<1>1. /\ <<s, ts>> \in recycling /\ node' = recycle(node, s, ts) /\ recycling' \subseteq recycling
      /\ UNCHANGED <<tso, startTS, commitTS, pc, acquired, stale, waiting, unlockCh, closed, sched,
                     lastRecycle, newest>>
  BY DEF RecycleSlot, lockVars
<1>2. ts <= tso
  BY <1>1 DEF LatchInv, LockPhases
<1>3. Trimmed(node')
  BY <1>1, <1>2, RecycleTrims
<1>4. /\ node' \in [Key -> Node]
      /\ \A k \in Key : \/ node'[k] = node[k]
                        \/ /\ node'[k] = NoNode /\ node[k].val = None
                           /\ newest[k] = 0 \/ tso - newest[k] >= Expire
  BY <1>3 DEF Trimmed
<1>5. Types'
  BY <1>1, <1>4 DEF LatchInv, Types, TypeOK
<1>6. LockPhases'
  BY <1>1 DEF LatchInv, LockPhases
<1>7. OneQueue'
  BY <1>1 DEF LatchInv, OneQueue
<1>8. ReleasesDone'
  BY <1>1 DEF LatchInv, ReleasesDone
<1>9. HoldsKeys'
  <2> SUFFICES ASSUME NEW m \in Lock, NEW i \in 1 .. acquired[m]
               PROVE  /\ node'[genLock[m][i]].in /\ node'[genLock[m][i]].val = m
                      /\ stale[m] \/ pc[m] = "done" \/ node'[genLock[m][i]].max <= startTS[m]
    BY <1>1 DEF HoldsKeys
  <2>1. /\ node[genLock[m][i]].in /\ node[genLock[m][i]].val = m
        /\ stale[m] \/ pc[m] = "done" \/ node[genLock[m][i]].max <= startTS[m]
    BY DEF LatchInv, HoldsKeys
  <2>2. genLock[m][i] \in Key
    BY Facts, KeyOrder
  <2> QED BY <1>4, <2>1, <2>2
<1>10. NewestKnown'
  <2> SUFFICES ASSUME NEW k \in Key
               PROVE  /\ ~node'[k].in => node'[k] = NoNode
                      /\ \/ newest[k] = 0
                         \/ tso - newest[k] >= Expire
                         \/ node'[k].in /\ newest[k] <= node'[k].max
                         \/ /\ node'[k].in /\ node'[k].val \in Lock
                            /\ pc[node'[k].val] = "done" /\ newest[k] <= commitTS[node'[k].val]
    BY <1>1 DEF NewestKnown
  <2> QED BY <1>4 DEF LatchInv, NewestKnown
<1> QED BY <1>5, <1>6, <1>7, <1>8, <1>9, <1>10 DEF LatchInv

-----------------------------------------------------------------------------
(* The theorems. *)

LEMMA InitInv == Init => LatchInv
<1> SUFFICES ASSUME Init PROVE LatchInv
  OBVIOUS
<1>1. <<>> \in Seq(Lock) /\ Len(<<>>) = 0 /\ NoNode \in Node
  BY DEF NoNode, Node
<1>2. \A l \in Lock : Len(genLock[l]) \in Nat
  BY KeyOrder
<1>3. Types
  <2>1. sched \in [pc : {"idle", "release", "wakeup"}, lock : Lock \cup {None}, wake : Seq(Lock)]
    BY <1>1 DEF Init, SchedIdle
  <2>2. waiting \in [Slot -> Seq(Lock)] /\ node \in [Key -> Node] /\ acquired \in [Lock -> Nat]
    BY <1>1 DEF Init
  <2>3. TypeOK
    <3>1. /\ tso \in 0 .. MaxTS /\ startTS \in [Lock -> 0 .. MaxTS] /\ commitTS \in [Lock -> 0 .. MaxTS]
          /\ pc \in [Lock -> {"init", "begun", "acquire", "wait", "held", "done"}]
          /\ stale \in [Lock -> BOOLEAN] /\ newest \in [Key -> 0 .. MaxTS]
      BY DEF Init
    <3>2. \A l \in Lock : acquired[l] \in 0 .. Len(genLock[l])
      BY <1>2 DEF Init
    <3>3. unlockCh \in Seq(Lock) /\ Len(unlockCh) <= ChanSize /\ closed \in BOOLEAN
      <4>1. unlockCh = <<>> /\ closed = FALSE
        BY DEF Init
      <4>2. 0 <= ChanSize
        OBVIOUS
      <4> QED BY <1>1, <4>1, <4>2
    <3>4. recycling \subseteq (Slot \X (0 .. MaxTS))
      BY DEF Init
    <3>5. sched.pc \in {"idle", "release", "wakeup"}
      BY <2>1
    <3> QED BY <2>2, <3>1, <3>2, <3>3, <3>4, <3>5 DEF TypeOK
  <2> QED BY <2>1, <2>2, <2>3 DEF Types
<1>4. LockPhases
  BY DEF Init, LockPhases
<1>5. OneQueue
  BY EmptyRange DEF Init, OneQueue, SchedIdle
<1>6. ReleasesDone
  BY EmptyRange DEF Init, ReleasesDone, SchedIdle
<1>7. HoldsKeys
  BY DEF Init, HoldsKeys
<1>8. NewestKnown
  BY DEF Init, NewestKnown
<1> QED BY <1>3, <1>4, <1>5, <1>6, <1>7, <1>8 DEF LatchInv

LEMMA NextInv == LatchInv /\ [Next]_vars => LatchInv'
<1> SUFFICES ASSUME LatchInv, [Next]_vars PROVE LatchInv'
  OBVIOUS
<1>1. CASE \E l \in Lock : Begin(l) \/ CallLock(l) \/ Acquire(l)
  BY <1>1, BeginStep, CallLockStep, AcquireCallStep
<1>2. CASE \E l \in Lock, commits \in BOOLEAN : UnLock(l, commits)
  BY <1>2, UnLockStep
<1>3. CASE Close \/ TakeUnlock \/ Released \/ EndUnlock \/ UNCHANGED vars
  BY <1>3, QuietSteps
<1>4. CASE Release
  BY <1>4, ReleaseStep
<1>5. CASE WakeStale
  BY <1>5, WakeStaleStep
<1>6. CASE WakeAcquire
  BY <1>6, WakeAcquireStep
<1>7. CASE \E s \in Slot, ts \in 1 .. MaxTS : RecycleSlot(s, ts)
  BY <1>7, RecycleStep
<1> QED BY <1>1, <1>2, <1>3, <1>4, <1>5, <1>6, <1>7 DEF Next

(* What acquireSlot, releaseSlot, recycle and the scheduler keep at every  *)
(* step: every part of LatchInv.                                           *)
THEOREM Invariance == Spec => []LatchInv
  BY InitInv, NextInv, PTL DEF Spec

LEMMA InvSafe == LatchInv => LatchSafe
<1> SUFFICES ASSUME LatchInv PROVE LatchSafe
  OBVIOUS
<1>1. TypeOK
  BY DEF LatchInv, Types
<1>2. ASSUME NEW l \in Lock, pc[l] = "held", ~stale[l], NEW k \in Keys[l]
      PROVE  node[k].in /\ node[k].val = l /\ node[k].max <= startTS[l]
  <2>1. acquired[l] = Len(genLock[l])
    BY <1>2 DEF LatchInv, LockPhases
  <2>2. PICK i \in 1 .. Len(genLock[l]) : genLock[l][i] = k
    BY KeyOrder
  <2> QED BY <1>2, <2>1, <2>2 DEF LatchInv, HoldsKeys
<1>3. MutualExclusion
  <2> SUFFICES ASSUME NEW l \in Lock, NEW m \in Lock, l # m, pc[l] = "held", pc[m] = "held",
                      ~stale[l], ~stale[m], NEW k \in Keys[l], k \in Keys[m]
               PROVE  FALSE
    BY DEF MutualExclusion
  <2>1. node[k].val = l
    BY <1>2
  <2>2. node[k].val = m
    BY <1>2
  <2> QED BY <2>1, <2>2
<1>4. NoStaleLock
  <2> SUFFICES ASSUME NEW l \in Lock, NEW k \in Key, pc[l] = "held", ~stale[l], k \in Keys[l],
                      tso - newest[k] < Expire
               PROVE  newest[k] <= startTS[l]
    BY DEF NoStaleLock
  <2>1. node[k].val = l /\ node[k].max <= startTS[l]
    BY <1>2
  <2>2. newest[k] = 0 \/ tso - newest[k] >= Expire \/ newest[k] <= node[k].max
    BY <2>1 DEF LatchInv, NewestKnown
  <2>3. newest[k] \in Nat /\ tso \in Nat /\ startTS[l] \in Nat /\ node[k].max \in Nat
    BY Facts DEF Node
  <2> QED BY <2>1, <2>2, <2>3
<1>5. NoPanic
  BY DEF NoPanic, LatchInv, HoldsKeys, LockPhases
<1> QED BY <1>1, <1>3, <1>4, <1>5 DEF LatchSafe

(* For any transactions, keys, slots and recycling period: transactions    *)
(* with a key in common exclude each other between Lock() and UnLock(), no *)
(* lock is let through that started before a commit of one of its keys     *)
(* unless that commit is older than expireDuration, and releaseSlot finds  *)
(* every key under the lock it releases, so that it does not panic.        *)
THEOREM LatchesSafe == Spec => []LatchSafe
  BY Invariance, InvSafe, PTL
=============================================================================
