------------------------- MODULE BatchClientProofs -------------------------
(***************************************************************************)
(* Proof that the batch RPC client closes no result channel twice, for any *)
(* calls, forwarded hosts, limits and number of failures.                  *)
(*                                                                         *)
(* An entry is in one place: the channel, the queue, a group of the sender *)
(* or, once sent, among the tracked ones that its stream may fail.  The    *)
(* sender's lock and the stream that re-creates exclude each other, so an  *)
(* entry that one of them fails is out of reach of the other.              *)
(***************************************************************************)
EXTENDS BatchClient, FiniteSetTheorems, TLAPS

USE HostAssumption, EntryAssumption, KindAssumption, BoundAssumption

(* Sets of entries can be counted.                                         *)
LEMMA Countable ==
    ASSUME NEW S \in SUBSET Entry
    PROVE  Cardinality(S) \in Nat
  BY FS_Subset, FS_CardinalityType

LEMMA RangeAppend ==
    ASSUME NEW s \in Seq(Entry), NEW e \in Entry
    PROVE  Range(Append(s, e)) = Range(s) \cup {e}
<1> DEFINE t == Append(s, e)
<1>1. /\ Len(t) = Len(s) + 1 /\ Len(s) \in Nat /\ DOMAIN t = 1 .. Len(t) /\ DOMAIN s = 1 .. Len(s)
      /\ \A i \in 1 .. Len(s) : t[i] = s[i]
      /\ t[Len(s) + 1] = e
  OBVIOUS
<1> HIDE DEF t
<1>2. \A x : x \in Range(t) <=> x \in Range(s) \/ x = e
  BY <1>1 DEF Range
<1> QED BY <1>2 DEF t

LEMMA RangeType ==
    ASSUME NEW s \in Seq(Entry)
    PROVE  Range(s) \subseteq Entry
  BY DEF Range

LEMMA RangeEmpty == Range(<<>>) = {}
  BY DEF Range

-----------------------------------------------------------------------------
(* Types. *)

(* Failing entries keeps the types of calls and channels.                  *)
LEMMA FailTypes ==
    ASSUME TypeOK, NEW es \in SUBSET Entry, Fail(es)
    PROVE  /\ call' \in [Entry -> CallState]
           /\ res' \in [Entry -> ResState]
           /\ twice' \in BOOLEAN
  BY DEF TypeOK, Fail, CallState, ResState

LEMMA FailRequestTypes ==
    ASSUME TypeOK, NEW es \in SUBSET Entry, failRequest(es)
    PROVE  /\ call' \in [Entry -> CallState]
           /\ res' \in [Entry -> ResState]
           /\ twice' \in BOOLEAN /\ batched' \subseteq Entry /\ sent' \in Int /\ drift' \in Nat
<1>1. Cardinality(es) \in Nat /\ Cardinality(es \ batched) \in Nat
  BY Countable
<1> QED BY <1>1, FailTypes DEF TypeOK, failRequest

LEMMA TypeInit == Init => TypeOK
<1> SUFFICES ASSUME Init PROVE TypeOK
  OBVIOUS
<1>1. Idle \in SndState /\ Off \in RecvState /\ NoGroups \in [Host -> SUBSET Entry]
  BY DEF Idle, Off, NoGroups, SndState, RecvState
<1>2. /\ call \in [Entry -> CallState] /\ res \in [Entry -> ResState]
      /\ stream \in [Host -> {"none", "up", "down"}] /\ recv \in [Host -> RecvState]
  BY <1>1 DEF Init, CallState, ResState
<1>3. ch \in Seq(Entry) /\ Len(ch) <= ChanSize
  BY DEF Init
<1>4. limit \in Limits /\ HostOf \in [Entry -> Host]
  BY DEF Init
<1>5. /\ canceled = {} /\ queue = {} /\ batched = {} /\ lost = {} /\ snd = Idle /\ wire = NoGroups
      /\ sent = 0 /\ epoch = 0 /\ drift = 0 /\ owner = None /\ close = "open" /\ idle = FALSE
      /\ twice = FALSE /\ fails = 0
  BY DEF Init
<1>6. sent \in Int /\ epoch \in Nat /\ drift \in Nat /\ fails \in 0 .. MaxFails
  BY <1>5
<1> QED BY <1>1, <1>2, <1>3, <1>4, <1>5, <1>6 DEF TypeOK

LEMMA CallerTypes ==
    ASSUME TypeOK, NEW e \in Entry, Caller(e)
    PROVE  TypeOK'
<1>1. CASE getConnPool(e)
  BY <1>1 DEF getConnPool, TypeOK, CallState, param, conn
<1>2. CASE Send(e)
  <2>1. ch' \in Seq(Entry) /\ Len(ch') <= ChanSize
    <3>1. ch \in Seq(Entry) /\ Len(ch) \in Nat /\ Len(ch) <= ChanSize /\ ChanSize \in Nat
      BY DEF TypeOK
    <3>2. ch' = ch \/ (ch' = Append(ch, e) /\ Len(ch) < ChanSize)
      BY <1>2 DEF Send
    <3> QED BY <3>1, <3>2
  <2>2. call' \in [Entry -> CallState]
    BY <1>2 DEF Send, TypeOK, CallState
  <2> QED BY <1>2, <2>1, <2>2 DEF Send, TypeOK, param, conn
<1>3. CASE Receive(e)
  BY <1>3 DEF Receive, TypeOK, CallState, ResState, param, conn
<1>4. CASE Timeout(e)
  BY <1>4 DEF Timeout, TypeOK, CallState, param, conn
<1>5. CASE WaitClosed(e)
  BY <1>5 DEF WaitClosed, TypeOK, CallState, param, conn
<1> QED BY <1>1, <1>2, <1>3, <1>4, <1>5 DEF Caller

LEMMA SendTypes ==
    ASSUME TypeOK, SendLoop
    PROVE  TypeOK'
<1>0. /\ Range(ch) \subseteq Entry /\ Idle \in SndState /\ None \notin Host
      /\ \A p \in {"got", "off"} : [Idle EXCEPT !.pc = p] \in SndState
  BY RangeType DEF TypeOK, Idle, NoGroups, SndState, None
<1>1. CASE fetchAllPendingRequests
  BY <1>0, <1>1 DEF fetchAllPendingRequests, TypeOK, param, caller, conn
<1>2. CASE FetchNothing
  BY <1>0, <1>2 DEF FetchNothing, TypeOK, param, caller, conn
<1>3. CASE fetchMorePendingRequests
  BY <1>0, <1>3 DEF fetchMorePendingRequests, TypeOK, param, caller, conn
<1>4. CASE getClientAndSend
  <2>1. queue' \subseteq Entry
    BY <1>4 DEF getClientAndSend, TypeOK
  <2>2. snd' \in SndState
    <3>1. ASSUME NEW taken \in SUBSET Entry
          PROVE  [pc |-> "locked", ids |-> {},
                  grp |-> [h \in Host |-> {e \in taken \ canceled : HostOf[e] = h}]] \in SndState
      BY <3>1 DEF SndState
    <3>2. queue \subseteq Entry
      BY DEF TypeOK
    <3> QED BY <1>0, <1>4, <3>1, <3>2 DEF getClientAndSend
  <2>3. call' \in [Entry -> CallState] /\ res' \in [Entry -> ResState] /\ twice' \in BOOLEAN
    <3>1. UNCHANGED <<call, res, twice>> \/ Fail(queue)
      BY <1>4 DEF getClientAndSend
    <3> QED BY <3>1, FailTypes DEF TypeOK
  <2> QED BY <1>4, <2>1, <2>2, <2>3 DEF getClientAndSend, TypeOK, param, conn
<1>5. CASE unlockForSend
  BY <1>0, <1>5 DEF unlockForSend, TypeOK, param, caller, conn
<1>6. ASSUME NEW h \in Host, SendNoStream(h) PROVE TypeOK'
  <2>1. snd.grp[h] \in SUBSET Entry /\ snd' \in SndState
    BY <1>6 DEF SendNoStream, TypeOK, SndState
  <2>2. call' \in [Entry -> CallState] /\ res' \in [Entry -> ResState] /\ twice' \in BOOLEAN
    BY <1>6, <2>1, FailTypes DEF SendNoStream
  <2> QED BY <1>6, <2>1, <2>2 DEF SendNoStream, TypeOK, param
<1>7. ASSUME NEW h \in Host, send(h) PROVE TypeOK'
  <2>1. snd.grp[h] \in SUBSET Entry /\ Cardinality(snd.grp[h]) \in Nat /\ snd \in SndState
    BY Countable DEF TypeOK, SndState
  <2>2. snd' \in SndState
    <3>1. PICK ok \in BOOLEAN :
            snd' = [snd EXCEPT !.grp[h] = {}, !.pc = IF ok THEN "locked" ELSE "fail",
                               !.ids = IF ok THEN {} ELSE snd.grp[h]]
      BY <1>7 DEF send
    <3>2. CASE ok
      BY <2>1, <3>1, <3>2 DEF SndState
    <3>3. CASE ~ok
      BY <2>1, <3>1, <3>3 DEF SndState
    <3> QED BY <3>2, <3>3
  <2>3. recv' \in [Host -> RecvState]
    <3>1. recv \in [Host -> RecvState] /\ recv[h] \in RecvState
      BY DEF TypeOK
    <3>2. [recv[h] EXCEPT !.pc = "start"] \in RecvState
      BY <3>1 DEF RecvState
    <3> QED BY <1>7, <3>1, <3>2 DEF send
  <2>4. /\ stream' \in [Host -> {"none", "up", "down"}] /\ wire' \in [Host -> SUBSET Entry]
        /\ batched' \subseteq Entry /\ sent' \in Int
    BY <1>7, <2>1 DEF send, TypeOK
  <2>5. fails' \in 0 .. MaxFails
    BY <1>7 DEF send, TypeOK
  <2> QED BY <1>7, <2>2, <2>3, <2>4, <2>5 DEF send, TypeOK, param, caller
<1>8. ASSUME NEW e \in Entry, failRequestsByIDs(e) PROVE TypeOK'
  <2>1. snd' \in SndState
    BY <1>8 DEF failRequestsByIDs, TypeOK, SndState
  <2>2. /\ call' \in [Entry -> CallState] /\ res' \in [Entry -> ResState]
        /\ twice' \in BOOLEAN /\ batched' \subseteq Entry /\ sent' \in Int /\ drift' \in Nat
    <3>1. UNCHANGED <<batched, sent, drift, call, res, twice>> \/ failRequest({e})
      BY <1>8 DEF failRequestsByIDs
    <3>2. {e} \in SUBSET Entry
      OBVIOUS
    <3> QED BY <3>1, <3>2, FailRequestTypes DEF TypeOK
  <2> QED BY <1>8, <2>1, <2>2 DEF failRequestsByIDs, TypeOK, param, conn
<1> QED BY <1>1, <1>2, <1>3, <1>4, <1>5, <1>6, <1>7, <1>8 DEF SendLoop

(* What a step of a receive loop leaves in its own state.                  *)
LEMMA RecvSteps ==
    ASSUME TypeOK, NEW h \in Host, RecvLoop(h)
    PROVE  /\ recv' \in [Host -> RecvState]
           /\ \A g \in Host : g # h => recv'[g] = recv[g]
<1>0. recv \in [Host -> RecvState] /\ recv[h] \in RecvState /\ epoch \in Nat /\ wire[h] \subseteq Entry
  BY DEF TypeOK
<1>1. \E x \in RecvState : recv' = [recv EXCEPT ![h] = x]
  <2>1. CASE RecvStart(h)
    <3>1. [pc |-> "recv", epoch |-> epoch, todo |-> {}, cur |-> {}] \in RecvState
      BY <1>0 DEF RecvState
    <3> QED BY <2>1, <3>1 DEF RecvStart
  <2>2. CASE Recv(h)
    <3>1. PICK got \in SUBSET Entry : recv' = [recv EXCEPT ![h].pc = "proc", ![h].todo = got]
      BY <1>0, <2>2 DEF Recv
    <3>2. [recv[h] EXCEPT !.pc = "proc", !.todo = got] \in RecvState
      BY <1>0 DEF RecvState
    <3>3. recv' = [recv EXCEPT ![h] = [recv[h] EXCEPT !.pc = "proc", !.todo = got]]
      BY <1>0, <3>1
    <3> QED BY <3>2, <3>3
  <2>3. CASE RecvLoad(h)
    <3>1. PICK e \in recv[h].todo :
            recv' = [recv EXCEPT ![h].todo = @ \ {e},
                              ![h].pc = IF e \in batched THEN "deliver" ELSE More(recv[h].todo \ {e}),
                              ![h].cur = IF e \in batched THEN {e} ELSE {}]
      BY <2>3 DEF RecvLoad
    <3> DEFINE x == [recv[h] EXCEPT !.todo = @ \ {e},
                              !.pc = IF e \in batched THEN "deliver" ELSE More(recv[h].todo \ {e}),
                              !.cur = IF e \in batched THEN {e} ELSE {}]
    <3>2. x \in RecvState
      BY <1>0 DEF RecvState, More
    <3>3. recv' = [recv EXCEPT ![h] = x]
      BY <1>0, <3>1
    <3> QED BY <3>2, <3>3
  <2>4. CASE RecvDeliver(h)
    <3>1. [recv[h] EXCEPT !.pc = "delete"] \in RecvState /\ [Off EXCEPT !.pc = "start"] \in RecvState
      BY <1>0 DEF RecvState, Off
    <3>2. \/ recv' = [recv EXCEPT ![h] = [recv[h] EXCEPT !.pc = "delete"]]
          \/ recv' = [recv EXCEPT ![h] = [Off EXCEPT !.pc = "start"]]
      BY <1>0, <2>4 DEF RecvDeliver, Goto
    <3> QED BY <3>1, <3>2
  <2>5. CASE RecvDelete(h)
    <3>1. [recv[h] EXCEPT !.pc = More(recv[h].todo), !.cur = {}] \in RecvState
      BY <1>0 DEF RecvState, More
    <3>2. recv' = [recv EXCEPT ![h] = [recv[h] EXCEPT !.pc = More(recv[h].todo), !.cur = {}]]
      BY <1>0, <2>5 DEF RecvDelete
    <3> QED BY <3>1, <3>2
  <2>6. ASSUME NEW p \in {"end", "err", "connect", "recv", "done"}, Goto(h, p)
        PROVE  \E x \in RecvState : recv' = [recv EXCEPT ![h] = x]
    <3>1. [recv[h] EXCEPT !.pc = p] \in RecvState
      BY <1>0 DEF RecvState
    <3>2. recv' = [recv EXCEPT ![h] = [recv[h] EXCEPT !.pc = p]]
      BY <1>0, <2>6 DEF Goto
    <3> QED BY <3>1, <3>2
  <2>7. CASE recreateStreamingClient(h)
    <3> DEFINE es == {e \in batched : HostOf[e] = h}
               x == [recv[h] EXCEPT !.epoch = @ + 1, !.pc = "fail", !.todo = es]
               y(p) == [recv[h] EXCEPT !.epoch = epoch, !.pc = p]
    <3>1. es \subseteq Entry
      BY DEF TypeOK
    <3>2. x \in RecvState /\ y("end") \in RecvState /\ y("recv") \in RecvState
      <4> HIDE DEF es
      <4>1. x \in RecvState
        <5> DEFINE n == recv[h].epoch + 1
        <5>1. n \in Nat
          BY <1>0 DEF RecvState
        <5>2. x = [recv[h] EXCEPT !.epoch = n, !.pc = "fail", !.todo = es]
          BY <1>0 DEF RecvState
        <5> HIDE DEF n, x
        <5> QED BY <1>0, <3>1, <5>1, <5>2 DEF RecvState
      <4>2. y("end") \in RecvState /\ y("recv") \in RecvState
        BY <1>0 DEF RecvState
      <4> QED BY <4>1, <4>2
    <3>3. \/ recv' = [recv EXCEPT ![h] = x] 
          \/ recv' = [recv EXCEPT ![h] = y("end")]
          \/ recv' = [recv EXCEPT ![h] = y("recv")]
      <4>1. CASE recv[h].epoch = epoch
        BY <1>0, <2>7, <4>1 DEF recreateStreamingClient
      <4>2. CASE recv[h].epoch # epoch /\ isStopped
        BY <1>0, <2>7, <4>2 DEF recreateStreamingClient
      <4>3. CASE recv[h].epoch # epoch /\ ~isStopped
        BY <1>0, <2>7, <4>3 DEF recreateStreamingClient
      <4> QED BY <4>1, <4>2, <4>3
    <3> QED BY <3>2, <3>3
  <2>8. CASE failPendingRequests(h)
    <3>1. CASE Goto(h, "connect")
      BY <2>6, <3>1
    <3>2. CASE \E e \in recv[h].todo : recv' = [recv EXCEPT ![h].todo = @ \ {e}]
      <4>1. PICK e \in recv[h].todo : recv' = [recv EXCEPT ![h].todo = @ \ {e}]
        BY <3>2
      <4>2. [recv[h] EXCEPT !.todo = @ \ {e}] \in RecvState
        BY <1>0 DEF RecvState
      <4>3. recv' = [recv EXCEPT ![h] = [recv[h] EXCEPT !.todo = @ \ {e}]]
        BY <1>0, <4>1
      <4> QED BY <4>2, <4>3
    <3> QED BY <2>8, <3>1, <3>2 DEF failPendingRequests
  <2>9. CASE RecvError(h) \/ Reconnect(h) \/ failAsyncRequestsOnClose(h)
    BY <2>6, <2>9 DEF RecvError, Reconnect, failAsyncRequestsOnClose
  <2> QED BY <2>1, <2>2, <2>3, <2>4, <2>5, <2>7, <2>8, <2>9 DEF RecvLoop, RecvHandles
<1> QED BY <1>0, <1>1

LEMMA RecvTypes ==
    ASSUME TypeOK, NEW h \in Host, RecvLoop(h)
    PROVE  TypeOK'
<1>0. recv[h] \in RecvState /\ recv[h].todo \subseteq Entry /\ recv[h].cur \subseteq Entry
  BY DEF TypeOK, RecvState
<1>1. recv' \in [Host -> RecvState]
  BY RecvSteps
<1>2. CASE RecvStart(h)
  BY <1>1, <1>2 DEF RecvStart, TypeOK, param, caller, conn
<1>3. CASE Recv(h)
  BY <1>1, <1>3 DEF Recv, TypeOK, param, caller
<1>4. CASE RecvLoad(h) \/ RecvError(h)
  BY <1>1, <1>4 DEF RecvLoad, RecvError, TypeOK, param, caller, conn
<1>5. CASE RecvDeliver(h)
  <2>1. /\ call' \in [Entry -> CallState] /\ res' \in [Entry -> ResState] /\ lost' \subseteq Entry
    <3>1. call \in [Entry -> CallState] /\ res \in [Entry -> ResState] /\ lost \subseteq Entry
      BY DEF TypeOK
    <3>2. PICK e \in recv[h].cur :
             \/ UNCHANGED <<call, res, lost>>
             \/ /\ call' = [call EXCEPT ![e] = IF @ = "waiting" THEN "ok" ELSE @]
                /\ UNCHANGED <<res, lost>>
             \/ res' = [res EXCEPT ![e] = "resp"] /\ UNCHANGED <<call, lost>>
             \/ lost' = lost \cup recv[h].todo /\ UNCHANGED <<call, res>>
      BY <1>5 DEF RecvDeliver
    <3> QED BY <1>0, <3>1, <3>2 DEF CallState, ResState
  <2> QED BY <1>1, <1>5, <2>1 DEF RecvDeliver, TypeOK, param, conn
<1>6. CASE RecvDelete(h)
  <2>1. recv[h].cur \ batched \in SUBSET Entry /\ Cardinality(recv[h].cur \ batched) \in Nat
    BY <1>0, Countable
  <2> QED BY <1>1, <1>6, <2>1 DEF RecvDelete, TypeOK, param, caller, conn
<1>7. CASE recreateStreamingClient(h)
  <2>1. stream' \in [Host -> {"none", "up", "down"}]
    BY <1>7 DEF recreateStreamingClient, TypeOK
  <2> QED BY <1>1, <1>7, <2>1 DEF recreateStreamingClient, TypeOK, param, caller
<1>8. CASE failPendingRequests(h) \/ failAsyncRequestsOnClose(h)
  <2>1. /\ call' \in [Entry -> CallState] /\ res' \in [Entry -> ResState]
        /\ twice' \in BOOLEAN /\ batched' \subseteq Entry /\ sent' \in Int /\ drift' \in Nat
    <3>1. \/ UNCHANGED <<batched, sent, drift, call, res, twice>>
          \/ \E es \in SUBSET Entry : failRequest(es)
      BY <1>0, <1>8 DEF failPendingRequests, failAsyncRequestsOnClose, TypeOK
    <3> QED BY <3>1, FailRequestTypes DEF TypeOK
  <2> QED
    BY <1>1, <1>8, <2>1 DEF failPendingRequests, failAsyncRequestsOnClose, TypeOK, param, conn
<1>9. CASE Reconnect(h)
  BY <1>1, <1>9 DEF Reconnect, TypeOK, param, caller
<1> QED BY <1>2, <1>3, <1>4, <1>5, <1>6, <1>7, <1>8, <1>9 DEF RecvLoop, RecvHandles

LEMMA EnvTypes ==
    ASSUME TypeOK, Break \/ CloseAddrVer \/ Close
    PROVE  TypeOK'
<1>1. CASE Break
  BY <1>1 DEF Break, TypeOK, param, caller
<1>2. CASE CloseAddrVer
  BY <1>2 DEF CloseAddrVer, TypeOK, param, caller, conn
<1>3. CASE Close
  BY <1>3 DEF Close, TypeOK, param, caller, NoGroups
<1> QED BY <1>1, <1>2, <1>3

LEMMA TypeStep == TypeOK /\ Next => TypeOK'
  BY CallerTypes, SendTypes, RecvTypes, EnvTypes DEF Next

-----------------------------------------------------------------------------
(* Steps that put no entry anywhere new and close no channel.              *)

(* No entry is anywhere it was not before, except that a sent one is       *)
(* failed by its stream; callers that started stay started.                *)
NothingNew ==
    /\ \A e \in Entry : /\ e \in Range(ch)' => e \in Range(ch)
                        /\ e \in queue' => e \in queue
                        /\ \A h \in Host : e \in snd.grp[h]' => e \in snd.grp[h]
                        /\ Pending(e)' => Pending(e)
                        /\ call[e] # "start" => call'[e] # "start"
    /\ UNCHANGED HostOf

NothingClosed == \A e \in Entry : Closed(e)' => Closed(e)

LEMMA QuietStep ==
    ASSUME OnePlace, ClosedIsGone, NothingNew, NothingClosed
    PROVE  OnePlace' /\ ClosedIsGone'
<1>1. \A e \in Entry : Unsent(e)' => Unsent(e)
  BY DEF NothingNew, Unsent, InGroup
<1>2. ClosedIsGone'
  BY <1>1 DEF ClosedIsGone, NothingNew, NothingClosed
<1>3. \A e \in Entry : InGroup(e)' => InGroup(e)
  BY DEF NothingNew, InGroup
<1>4. OnePlace'
  BY <1>1, <1>3 DEF OnePlace, NothingNew
<1> QED BY <1>2, <1>4

(* Failing entries that are not closed yet closes no channel twice.        *)
LEMMA FailCloses ==
    ASSUME TypeOK, ~twice, NEW es \in SUBSET Entry, Fail(es), \A e \in es : ~Closed(e)
    PROVE  /\ ~twice'
           /\ \A e \in Entry : Closed(e)' => Closed(e) \/ e \in es
           /\ \A e \in Entry : call[e] # "start" => call'[e] # "start"
<1>1. ~twice'
  BY DEF Fail, Closed
<1>2. \A e \in Entry : Closed(e)' => Closed(e) \/ e \in es
  BY DEF Fail, Closed, TypeOK
<1>3. \A e \in Entry : call[e] # "start" => call'[e] # "start"
  BY DEF Fail, TypeOK
<1> QED BY <1>1, <1>2, <1>3

(* A step that fails entries and leaves them nowhere keeps the invariant.  *)
LEMMA FailStep ==
    ASSUME TypeOK, OnePlace, ClosedIsGone, ~twice, NEW es \in SUBSET Entry, Fail(es),
           \A e \in es : call[e] # "start" /\ ~Closed(e) /\ ~Unsent(e)' /\ ~Pending(e)',
           NothingNew
    PROVE  OnePlace' /\ ClosedIsGone' /\ ~twice'
<1>1. ~twice' /\ \A e \in Entry : Closed(e)' => Closed(e) \/ e \in es
  BY FailCloses
<1>2. \A e \in Entry : Unsent(e)' => Unsent(e)
  BY DEF NothingNew, Unsent, InGroup
<1>3. ClosedIsGone'
  BY <1>1, <1>2 DEF ClosedIsGone, NothingNew
<1>4. \A e \in Entry : InGroup(e)' => InGroup(e)
  BY DEF NothingNew, InGroup
<1>5. OnePlace'
  BY <1>2, <1>4 DEF OnePlace, NothingNew
<1> QED BY <1>1, <1>3, <1>5

-----------------------------------------------------------------------------
(* The callers. *)

LEMMA CallerClose ==
    ASSUME CloseInv, NEW c \in Entry, Caller(c)
    PROVE  OnePlace' /\ ClosedIsGone' /\ LockHeld' /\ NoDoubleClose'
<1>0. TypeOK /\ OnePlace /\ ClosedIsGone /\ LockHeld /\ ~twice
  BY DEF CloseInv, NoDoubleClose
<1>1. LockHeld' /\ NoDoubleClose'
  <2>1. UNCHANGED <<snd, owner, recv, twice>>
    BY DEF Caller, getConnPool, Send, Receive, Timeout, WaitClosed, conn
  <2> QED BY <1>0, <2>1 DEF LockHeld, Locked, NoDoubleClose
<1>2. CASE Send(c) /\ ch' = Append(ch, c)
  <2>1. /\ Range(ch)' = Range(ch) \cup {c} /\ call[c] = "start" /\ call' = [call EXCEPT ![c] = "waiting"]
        /\ UNCHANGED <<HostOf, res, queue, snd, batched, recv>>
    <3>1. Range(ch') = Range(ch) \cup {c}
      BY <1>0, <1>2, RangeAppend DEF TypeOK
    <3>2. call' = [call EXCEPT ![c] = "waiting"]
      <4>1. ch # Append(ch, c)
        <5>1. Len(Append(ch, c)) # Len(ch)
          BY <1>0 DEF TypeOK
        <5> QED BY <5>1
      <4> QED BY <1>2, <4>1 DEF Send
    <3> QED BY <1>2, <3>1, <3>2 DEF Send, param
  <2>2. ~Unsent(c) /\ ~Pending(c) /\ ~Closed(c)
    BY <1>0, <2>1 DEF OnePlace, ClosedIsGone
  <2>3. \A e \in Entry : /\ InGroup(e)' <=> InGroup(e)
                         /\ Pending(e)' <=> Pending(e)
                         /\ Closed(e)' <=> Closed(e)
                         /\ Unsent(e)' <=> Unsent(e) \/ e = c
    BY <2>1 DEF InGroup, Pending, Closed, Unsent
  <2> QED BY <1>0, <1>1, <2>1, <2>2, <2>3 DEF OnePlace, ClosedIsGone, TypeOK, Unsent
<1>3. CASE ~(Send(c) /\ ch' = Append(ch, c))
  <2>1. /\ UNCHANGED <<HostOf, ch, queue, snd, batched, recv>>
        /\ \A e \in Entry : call[e] # "start" => call'[e] # "start"
    BY <1>0, <1>3 DEF Caller, getConnPool, Send, Receive, Timeout, WaitClosed, TypeOK, param
  <2>2. NothingNew
    BY <2>1 DEF NothingNew, Pending
  <2>3. NothingClosed
    BY <1>0, <1>3 DEF Caller, getConnPool, Send, Receive, Timeout, WaitClosed, TypeOK, NothingClosed,
                     Closed, ResState
  <2> QED BY <1>0, <1>1, <2>2, <2>3, QuietStep
<1> QED BY <1>2, <1>3

-----------------------------------------------------------------------------
(* The sender. *)

LEMMA SenderClose ==
    ASSUME CloseInv, SendLoop, TypeOK'
    PROVE  OnePlace' /\ ClosedIsGone' /\ LockHeld' /\ NoDoubleClose'
<1>0. /\ TypeOK /\ OnePlace /\ ClosedIsGone /\ LockHeld /\ ~twice
      /\ \A h \in Host : snd.grp[h] \subseteq Entry
      /\ Range(ch) \subseteq Entry /\ queue \subseteq Entry /\ snd \in SndState
  BY RangeType DEF CloseInv, NoDoubleClose, TypeOK, SndState
<1>1. CASE fetchAllPendingRequests \/ FetchNothing \/ fetchMorePendingRequests
  <2>1. /\ UNCHANGED <<HostOf, call, res, batched, recv, owner, twice>>
        /\ ~Locked /\ ~Locked' /\ snd.grp = NoGroups /\ snd.grp' = NoGroups
    BY <1>0, <1>1
    DEF fetchAllPendingRequests, FetchNothing, fetchMorePendingRequests, Locked, LockHeld, caller, conn,
        param, Idle
  <2>2. \A h \in Host : snd.grp[h] = {} /\ snd.grp'[h] = {}
    BY <2>1 DEF NoGroups
  <2>3. \A e \in Entry : /\ ~InGroup(e) /\ ~InGroup(e)'
                         /\ Pending(e)' <=> Pending(e)
                         /\ Closed(e)' <=> Closed(e)
    BY <2>1, <2>2 DEF InGroup, Pending, Closed
  <2>4. Range(<<>>) = {}
    BY RangeEmpty
  <2>5. /\ \A e \in Entry : (e \in Range(ch)' \/ e \in queue') => (e \in Range(ch) \/ e \in queue)
        /\ \A e \in Entry : e \in Range(ch)' => e \notin queue'
    <3>1. CASE ch' = <<>>
      BY <1>0, <1>1, <2>4, <3>1 DEF fetchAllPendingRequests, FetchNothing, fetchMorePendingRequests
    <3>2. CASE ch' # <<>>
      BY <1>0, <1>1, <3>2
      DEF fetchAllPendingRequests, FetchNothing, fetchMorePendingRequests, OnePlace
    <3> QED BY <3>1, <3>2
  <2>6. OnePlace' /\ ClosedIsGone'
    BY <1>0, <2>1, <2>2, <2>3, <2>5 DEF OnePlace, ClosedIsGone, Unsent
  <2> QED BY <1>0, <2>1, <2>6 DEF LockHeld, NoDoubleClose
<1>2. CASE getClientAndSend
  <2>1. /\ UNCHANGED <<HostOf, ch, batched, recv, owner>> /\ ~Locked /\ snd.grp = NoGroups
    BY <1>0, <1>2 DEF getClientAndSend, Locked, LockHeld, param, conn
  <2>2. \A h \in Host : snd.grp[h] = {}
    BY <2>1 DEF NoGroups
  <2>3. CASE \E taken \in SUBSET queue :
               /\ owner = None
               /\ queue' = queue \ taken
               /\ snd' = [pc |-> "locked", ids |-> {},
                          grp |-> [h \in Host |-> {e \in taken \ canceled : HostOf[e] = h}]]
               /\ UNCHANGED <<call, res, twice>>
    <3>1. PICK taken \in SUBSET queue :
               /\ queue' = queue \ taken
               /\ snd' = [pc |-> "locked", ids |-> {},
                          grp |-> [h \in Host |-> {e \in taken \ canceled : HostOf[e] = h}]]
      BY <2>3
    <3>2. \A h \in Host : \A e \in Entry :
             e \in snd'.grp[h] => e \in taken /\ HostOf[e] = h
      BY <3>1
    <3>3. \A e \in Entry : /\ InGroup(e)' => e \in taken
                           /\ Pending(e)' <=> Pending(e)
                           /\ Closed(e)' <=> Closed(e)
      BY <2>1, <2>3, <3>2 DEF InGroup, Pending, Closed
    <3>4. OnePlace' /\ ClosedIsGone'
      BY <1>0, <2>1, <2>3, <3>1, <3>2, <3>3 DEF OnePlace, ClosedIsGone, Unsent
    <3>5. LockHeld'
      <4>1. Locked' /\ owner' = None
        BY <2>1, <2>3, <3>1 DEF Locked
      <4> QED BY <1>0, <2>1, <4>1 DEF LockHeld
    <3> QED BY <1>0, <2>3, <3>4, <3>5 DEF NoDoubleClose
  <2>4. CASE snd' = Idle /\ UNCHANGED <<call, res, twice, queue>>
    <3>1. snd'.grp = NoGroups /\ ~Locked'
      BY <2>4 DEF Idle, Locked
    <3>2. \A h \in Host : snd'.grp[h] = {}
      BY <3>1 DEF NoGroups
    <3>3. NothingNew /\ NothingClosed
      BY <2>1, <2>4, <3>2 DEF NothingNew, NothingClosed, Pending, Closed
    <3> QED BY <1>0, <2>1, <2>4, <3>1, <3>3, QuietStep DEF LockHeld, NoDoubleClose
  <2>5. CASE snd' = Idle /\ Fail(queue) /\ queue' = {}
    <3>1. snd'.grp = NoGroups /\ ~Locked'
      BY <2>5 DEF Idle, Locked
    <3>2. \A h \in Host : snd'.grp[h] = {}
      BY <3>1 DEF NoGroups
    <3>3. \A e \in queue : call[e] # "start" /\ ~Closed(e) /\ ~Pending(e) /\ e \notin Range(ch)
      BY <1>0 DEF OnePlace, ClosedIsGone, Unsent
    <3>4. \A e \in Entry : Pending(e)' <=> Pending(e)
      BY <2>1 DEF Pending
    <3>5. \A e \in Entry : call[e] # "start" => call'[e] # "start"
      BY <1>0, <2>5, <3>3, FailCloses
    <3>6. NothingNew
      BY <2>1, <2>5, <3>2, <3>4, <3>5 DEF NothingNew
    <3>7. \A e \in queue : ~Unsent(e)' /\ ~Pending(e)'
      BY <1>0, <2>1, <2>5, <3>2, <3>3, <3>4 DEF Unsent, InGroup
    <3>8. OnePlace' /\ ClosedIsGone' /\ ~twice'
      BY <1>0, <2>5, <3>3, <3>6, <3>7, FailStep
    <3> QED BY <1>0, <2>1, <3>1, <3>8 DEF LockHeld, NoDoubleClose
  <2> QED BY <1>2, <2>3, <2>4, <2>5 DEF getClientAndSend
<1>3. ASSUME NEW g \in Host, SendNoStream(g)
      PROVE  OnePlace' /\ ClosedIsGone' /\ LockHeld' /\ NoDoubleClose'
  <2>1. /\ UNCHANGED <<HostOf, ch, queue, batched, recv, owner>> /\ Fail(snd.grp[g])
        /\ snd.pc = "locked" /\ snd'.pc = "locked"
        /\ snd'.grp[g] = {} /\ \A h \in Host : h # g => snd'.grp[h] = snd.grp[h]
    BY <1>0, <1>3 DEF SendNoStream, param, SndState
  <2>2. \A e \in snd.grp[g] :
           /\ call[e] # "start" /\ ~Closed(e) /\ ~Pending(e) /\ e \notin Range(ch) /\ e \notin queue
           /\ \A h \in Host : h # g => e \notin snd.grp[h]
    BY <1>0 DEF OnePlace, ClosedIsGone, Unsent, InGroup
  <2>3. \A e \in Entry : Pending(e)' <=> Pending(e)
    BY <2>1 DEF Pending
  <2>4. \A e \in Entry : call[e] # "start" => call'[e] # "start"
    BY <1>0, <2>1, <2>2, FailCloses
  <2>5. NothingNew
    BY <2>1, <2>3, <2>4 DEF NothingNew
  <2>6. \A e \in snd.grp[g] : ~Unsent(e)' /\ ~Pending(e)'
    BY <1>0, <2>1, <2>2, <2>3 DEF Unsent, InGroup
  <2>7. OnePlace' /\ ClosedIsGone' /\ ~twice'
    BY <1>0, <2>1, <2>2, <2>5, <2>6, FailStep
  <2>8. LockHeld'
    BY <1>0, <2>1 DEF LockHeld, Locked
  <2> QED BY <2>7, <2>8 DEF NoDoubleClose
<1>4. ASSUME NEW g \in Host, send(g)
      PROVE  OnePlace' /\ ClosedIsGone' /\ LockHeld' /\ NoDoubleClose'
  <2>1. /\ UNCHANGED <<HostOf, call, res, ch, queue, owner, twice>>
        /\ batched' = batched \cup snd.grp[g]
        /\ snd.pc = "locked" /\ snd'.pc \in {"locked", "fail"}
        /\ snd'.grp[g] = {} /\ \A h \in Host : h # g => snd'.grp[h] = snd.grp[h]
    BY <1>0, <1>4 DEF send, param, caller, SndState
  <2>2. \A h \in Host : recv'[h].pc \in {"fail", "connect"} <=> recv[h].pc \in {"fail", "connect"}
    BY <1>0, <1>4 DEF send, TypeOK, RecvState
  <2>3. \A h \in Host : recv[h].pc \notin {"fail", "connect"}
    BY <1>0, <2>1 DEF LockHeld, Locked, None
  <2>4. LockHeld'
    BY <1>0, <2>1, <2>2 DEF LockHeld, Locked
  <2>5. \A e \in Entry : /\ Pending(e) <=> e \in batched
                         /\ Pending(e)' <=> Pending(e) \/ e \in snd.grp[g]
                         /\ Closed(e)' <=> Closed(e)
    BY <2>1, <2>2, <2>3 DEF Pending, Closed
  <2>6. \A e \in Entry : /\ InGroup(e)' => InGroup(e) /\ e \notin snd.grp[g]
                         /\ e \in snd.grp[g] => InGroup(e)
    BY <1>0, <2>1 DEF InGroup, OnePlace
  <2>7. OnePlace' /\ ClosedIsGone'
    BY <1>0, <2>1, <2>5, <2>6 DEF OnePlace, ClosedIsGone, Unsent
  <2> QED BY <1>0, <2>1, <2>4, <2>7 DEF NoDoubleClose
<1>5. ASSUME NEW c \in Entry, failRequestsByIDs(c)
      PROVE  OnePlace' /\ ClosedIsGone' /\ LockHeld' /\ NoDoubleClose'
  <2>1. /\ UNCHANGED <<HostOf, ch, queue, recv, owner>> /\ snd'.grp = snd.grp
        /\ Locked /\ Locked'
    BY <1>0, <1>5 DEF failRequestsByIDs, param, conn, Locked, SndState
  <2>2. LockHeld'
    BY <1>0, <2>1 DEF LockHeld
  <2>3. \A h \in Host : recv[h].pc # "fail"
    BY <1>0, <2>1 DEF LockHeld, None
  <2>4. CASE c \in batched /\ failRequest({c})
    <3>1. batched' = batched \ {c} /\ Fail({c})
      BY <2>4 DEF failRequest
    <3>2. \A e \in Entry : /\ Pending(e) <=> e \in batched
                           /\ Pending(e)' <=> e \in batched /\ e # c
      BY <2>1, <2>3, <3>1 DEF Pending
    <3>3. call[c] # "start" /\ ~Closed(c) /\ ~Unsent(c)
      BY <1>0, <2>4, <3>2 DEF OnePlace, ClosedIsGone
    <3>4. \A e \in Entry : call[e] # "start" => call'[e] # "start"
      BY <1>0, <3>1, <3>3, FailCloses
    <3>5. NothingNew
      BY <2>1, <3>2, <3>4 DEF NothingNew
    <3>6. ~Unsent(c)' /\ ~Pending(c)'
      BY <2>1, <3>2, <3>3 DEF Unsent, InGroup
    <3>7. OnePlace' /\ ClosedIsGone' /\ ~twice'
      BY <1>0, <3>1, <3>3, <3>5, <3>6, FailStep
    <3> QED BY <2>2, <3>7 DEF NoDoubleClose
  <2>5. CASE UNCHANGED <<batched, call, res, twice>>
    <3>1. NothingNew /\ NothingClosed
      BY <2>1, <2>5 DEF NothingNew, NothingClosed, Pending, Closed
    <3> QED BY <1>0, <2>2, <2>5, <3>1, QuietStep DEF NoDoubleClose
  <2> QED BY <1>5, <2>4, <2>5 DEF failRequestsByIDs
<1>6. CASE unlockForSend
  <2>1. /\ UNCHANGED <<HostOf, call, res, ch, queue, batched, recv, owner, twice>>
        /\ snd.grp = NoGroups /\ snd'.grp = NoGroups /\ ~Locked'
    BY <1>6 DEF unlockForSend, param, caller, conn, Idle, Locked
  <2>2. NothingNew /\ NothingClosed
    BY <2>1 DEF NothingNew, NothingClosed, Pending, Closed
  <2> QED BY <1>0, <2>1, <2>2, QuietStep DEF LockHeld, NoDoubleClose
<1> QED BY <1>1, <1>2, <1>3, <1>4, <1>5, <1>6 DEF SendLoop

-----------------------------------------------------------------------------
(* The receive loops. *)

(* The steps of a receive loop that neither take the lock nor fail         *)
(* anything.                                                               *)
LEMMA ReceiverQuiet ==
    ASSUME CloseInv, NEW g \in Host,
           RecvStart(g) \/ Recv(g) \/ RecvLoad(g) \/ RecvDeliver(g) \/ RecvDelete(g) \/ RecvError(g)
    PROVE  OnePlace' /\ ClosedIsGone' /\ LockHeld' /\ NoDoubleClose'
<1>0. /\ TypeOK /\ OnePlace /\ ClosedIsGone /\ LockHeld /\ ~twice
      /\ recv \in [Host -> RecvState] /\ recv[g] \in RecvState /\ recv[g].cur \subseteq Entry
  BY DEF CloseInv, NoDoubleClose, TypeOK, RecvState
<1>1. RecvLoop(g)
  BY DEF RecvLoop, RecvHandles
<1>2. UNCHANGED <<HostOf, ch, queue, snd, owner, twice>> /\ batched' \subseteq batched
  BY DEF RecvStart, Recv, RecvLoad, RecvDeliver, RecvDelete, RecvError, param, conn
<1>3. /\ recv[g].pc \notin {"fail", "connect"} /\ recv'[g].pc \notin {"fail", "connect"}
      /\ \A h \in Host : h # g => recv'[h] = recv[h]
  <2>1. \A h \in Host : h # g => recv'[h] = recv[h]
    BY <1>0, <1>1, RecvSteps
  <2>2. CASE RecvStart(g) \/ Recv(g)
    BY <1>0, <2>1, <2>2 DEF RecvStart, Recv, RecvState
  <2>3. CASE RecvLoad(g) \/ RecvDelete(g)
    <3>1. \A todo : More(todo) \in {"recv", "proc"}
      BY DEF More
    <3>2. CASE RecvLoad(g)
      <4>1. PICK e \in recv[g].todo :
              recv' = [recv EXCEPT ![g].todo = @ \ {e},
                              ![g].pc = IF e \in batched THEN "deliver" ELSE More(recv[g].todo \ {e}),
                              ![g].cur = IF e \in batched THEN {e} ELSE {}]
        BY <3>2 DEF RecvLoad
      <4>2. recv[g].pc = "proc"
        BY <3>2 DEF RecvLoad
      <4> DEFINE x == [recv[g] EXCEPT !.todo = @ \ {e},
                              !.pc = IF e \in batched THEN "deliver" ELSE More(recv[g].todo \ {e}),
                              !.cur = IF e \in batched THEN {e} ELSE {}]
      <4>3. x.pc \in {"deliver", "recv", "proc"}
        BY <1>0, <3>1 DEF RecvState
      <4>4. recv' = [recv EXCEPT ![g] = x]
        BY <1>0, <4>1
      <4> QED BY <1>0, <2>1, <4>2, <4>3, <4>4
    <3>3. CASE RecvDelete(g)
      BY <1>0, <2>1, <3>1, <3>3 DEF RecvDelete, RecvState
    <3> QED BY <2>3, <3>2, <3>3
  <2>4. CASE RecvDeliver(g) \/ RecvError(g)
    BY <1>0, <2>1, <2>4 DEF RecvDeliver, RecvError, RecvState, Goto, Off
  <2> QED BY <2>2, <2>3, <2>4
<1>4. LockHeld'
  BY <1>0, <1>2, <1>3 DEF LockHeld, Locked
<1>5. \A e \in Entry : call[e] # "start" => call'[e] # "start"
  BY <1>0 DEF RecvStart, Recv, RecvLoad, RecvDeliver, RecvDelete, RecvError, caller, TypeOK
<1>6. NothingNew
  BY <1>2, <1>3, <1>5 DEF NothingNew, Pending
<1>7. NothingClosed
  BY <1>0 DEF RecvStart, Recv, RecvLoad, RecvDeliver, RecvDelete, RecvError, TypeOK, NothingClosed, Closed
<1> QED BY <1>0, <1>2, <1>4, <1>6, <1>7, QuietStep DEF NoDoubleClose

(* A stream that starts to re-create takes the lock and what is tracked;   *)
(* one that has failed it gives the lock back.                             *)
LEMMA ReceiverLocks ==
    ASSUME CloseInv, NEW g \in Host, recreateStreamingClient(g) \/ Reconnect(g)
    PROVE  OnePlace' /\ ClosedIsGone' /\ LockHeld' /\ NoDoubleClose'
<1>0. /\ TypeOK /\ OnePlace /\ ClosedIsGone /\ LockHeld /\ ~twice
      /\ recv \in [Host -> RecvState] /\ recv[g] \in RecvState
  BY DEF CloseInv, NoDoubleClose, TypeOK
<1>1. RecvLoop(g)
  BY DEF RecvLoop, RecvHandles
<1>2. \A h \in Host : h # g => recv'[h] = recv[h]
  BY <1>0, <1>1, RecvSteps
<1>3. UNCHANGED <<HostOf, call, res, ch, queue, snd, batched, twice>>
  BY DEF recreateStreamingClient, Reconnect, param, caller
<1>4. NothingClosed
  BY <1>3 DEF NothingClosed, Closed
<1>5. CASE recreateStreamingClient(g) /\ recv[g].epoch = epoch
  <2>1. /\ owner = None /\ ~Locked /\ owner' = g /\ recv[g].pc = "err"
        /\ recv'[g].pc = "fail" /\ recv'[g].todo \subseteq batched
    BY <1>0, <1>5 DEF recreateStreamingClient, RecvState
  <2>2. \A h \in Host : recv[h].pc \notin {"fail", "connect"}
    BY <1>0, <2>1 DEF LockHeld, None
  <2>3. LockHeld'
    BY <1>0, <1>2, <1>3, <2>1, <2>2 DEF LockHeld, Locked
  <2>4. \A e \in Entry : Pending(e)' => Pending(e)
    BY <1>2, <1>3, <2>1, <2>2 DEF Pending
  <2>5. NothingNew
    BY <1>3, <2>4 DEF NothingNew
  <2> QED BY <1>0, <1>3, <1>4, <2>3, <2>5, QuietStep DEF NoDoubleClose
<1>6. CASE recreateStreamingClient(g) /\ recv[g].epoch # epoch
  <2>1. /\ UNCHANGED owner /\ recv[g].pc = "err" /\ recv'[g].pc \in {"end", "recv"}
    BY <1>0, <1>6 DEF recreateStreamingClient, RecvState
  <2>2. LockHeld'
    BY <1>0, <1>2, <1>3, <2>1 DEF LockHeld, Locked
  <2>3. NothingNew
    BY <1>2, <1>3, <2>1 DEF NothingNew, Pending
  <2> QED BY <1>0, <1>3, <1>4, <2>2, <2>3, QuietStep DEF NoDoubleClose
<1>7. CASE Reconnect(g)
  <2>1. /\ owner' = None /\ recv[g].pc = "connect" /\ recv'[g].pc \in {"end", "recv"}
    BY <1>0, <1>7 DEF Reconnect, Goto, RecvState
  <2>2. owner = g
    BY <1>0, <2>1 DEF LockHeld
  <2>3. LockHeld'
    BY <1>0, <1>2, <1>3, <2>1, <2>2 DEF LockHeld, Locked, None
  <2>4. NothingNew
    BY <1>2, <1>3, <2>1 DEF NothingNew, Pending
  <2> QED BY <1>0, <1>3, <1>4, <2>3, <2>4, QuietStep DEF NoDoubleClose
<1> QED BY <1>5, <1>6, <1>7

(* The stream that holds the lock fails its pending requests; a loop that  *)
(* ends fails the asynchronous ones, which have no channel.                *)
LEMMA ReceiverFails ==
    ASSUME CloseInv, NEW g \in Host, failPendingRequests(g) \/ failAsyncRequestsOnClose(g)
    PROVE  OnePlace' /\ ClosedIsGone' /\ LockHeld' /\ NoDoubleClose'
<1>0. /\ TypeOK /\ OnePlace /\ ClosedIsGone /\ LockHeld /\ ~twice
      /\ recv \in [Host -> RecvState] /\ recv[g] \in RecvState /\ recv[g].todo \subseteq Entry
      /\ batched \subseteq Entry
  BY DEF CloseInv, NoDoubleClose, TypeOK, RecvState
<1>1. \A h \in Host : h # g => recv'[h] = recv[h]
  BY <1>0, RecvSteps DEF RecvLoop, RecvHandles
<1>2. UNCHANGED <<HostOf, ch, queue, snd, owner>>
  BY DEF failPendingRequests, failAsyncRequestsOnClose, param, conn
<1>3. CASE failPendingRequests(g) /\ recv[g].todo = {}
  <2>1. /\ recv[g].pc = "fail" /\ recv'[g].pc = "connect" /\ UNCHANGED <<batched, call, res, twice>>
    BY <1>0, <1>3 DEF failPendingRequests, Goto, RecvState
  <2>2. LockHeld'
    BY <1>0, <1>1, <1>2, <2>1 DEF LockHeld, Locked
  <2>3. NothingNew /\ NothingClosed
    BY <1>1, <1>2, <2>1 DEF NothingNew, NothingClosed, Pending, Closed
  <2> QED BY <1>0, <2>1, <2>2, <2>3, QuietStep DEF NoDoubleClose
<1>4. CASE failPendingRequests(g) /\ recv[g].todo # {}
  <2>1. PICK c \in recv[g].todo :
          /\ recv' = [recv EXCEPT ![g].todo = @ \ {c}]
          /\ failRequest({c}) \/ (c \notin batched /\ UNCHANGED <<batched, sent, drift, call, res, twice>>)
    BY <1>4 DEF failPendingRequests
  <2>2. /\ recv[g].pc = "fail" /\ recv'[g].pc = "fail" /\ recv'[g].todo = recv[g].todo \ {c}
    BY <1>0, <1>4, <2>1 DEF failPendingRequests, RecvState
  <2>3. LockHeld'
    BY <1>0, <1>1, <1>2, <2>2 DEF LockHeld, Locked
  <2>4. \A h \in Host : h # g => recv[h].pc # "fail"
    BY <1>0, <2>2 DEF LockHeld
  <2>5. c \in Entry /\ Pending(c)
    BY <1>0, <2>2 DEF Pending
  <2>6. call[c] # "start" /\ ~Closed(c) /\ ~Unsent(c)
    BY <1>0, <2>5 DEF OnePlace, ClosedIsGone
  <2>7. CASE failRequest({c})
    <3>1. batched' = batched \ {c} /\ Fail({c})
      BY <2>7 DEF failRequest
    <3>2. \A e \in Entry : Pending(e)' => Pending(e) /\ e # c
      BY <1>1, <2>2, <2>4, <3>1 DEF Pending
    <3>3. \A e \in Entry : call[e] # "start" => call'[e] # "start"
      BY <1>0, <2>5, <2>6, <3>1, FailCloses
    <3>4. NothingNew
      BY <1>2, <3>2, <3>3 DEF NothingNew
    <3>5. ~Unsent(c)' /\ ~Pending(c)'
      BY <1>2, <2>5, <2>6, <3>2 DEF Unsent, InGroup
    <3>6. OnePlace' /\ ClosedIsGone' /\ ~twice'
      BY <1>0, <2>5, <2>6, <3>1, <3>4, <3>5, FailStep
    <3> QED BY <2>3, <3>6 DEF NoDoubleClose
  <2>8. CASE UNCHANGED <<batched, call, res, twice>>
    <3>1. NothingNew /\ NothingClosed
      BY <1>1, <1>2, <2>2, <2>8 DEF NothingNew, NothingClosed, Pending, Closed
    <3> QED BY <1>0, <2>3, <2>8, <3>1, QuietStep DEF NoDoubleClose
  <2> QED BY <2>1, <2>7, <2>8
<1>5. CASE failAsyncRequestsOnClose(g)
  <2>1. /\ recv[g].pc = "end" /\ recv'[g].pc = "done"
        /\ batched' \subseteq batched /\ Fail(batched \cap Async)
    BY <1>0, <1>5 DEF failAsyncRequestsOnClose, Goto, failRequest, RecvState
  <2>2. LockHeld'
    BY <1>0, <1>1, <1>2, <2>1 DEF LockHeld, Locked
  <2>3. /\ \A e \in Entry : Closed(e)' => Closed(e)
        /\ \A e \in Entry : call[e] # "start" => call'[e] # "start"
        /\ ~twice'
    <3>1. ~twice'
      BY <1>0, <2>1 DEF Fail
    <3>2. \A e \in Entry : Closed(e)' => Closed(e)
      BY <2>1 DEF Fail, Closed
    <3>3. \A e \in Entry : call[e] # "start" => call'[e] # "start"
      BY <2>1 DEF Fail
    <3> QED BY <3>1, <3>2, <3>3
  <2>4. NothingNew /\ NothingClosed
    BY <1>1, <1>2, <2>1, <2>3 DEF NothingNew, NothingClosed, Pending
  <2> QED BY <1>0, <2>2, <2>3, <2>4, QuietStep DEF NoDoubleClose
<1> QED BY <1>3, <1>4, <1>5

-----------------------------------------------------------------------------
(* Broken and closed connections touch neither entries nor the lock.       *)
LEMMA OtherClose ==
    ASSUME CloseInv, Break \/ CloseAddrVer \/ Close \/ UNCHANGED vars
    PROVE  OnePlace' /\ ClosedIsGone' /\ LockHeld' /\ NoDoubleClose'
<1>0. OnePlace /\ ClosedIsGone /\ LockHeld /\ ~twice
  BY DEF CloseInv, NoDoubleClose
<1>1. UNCHANGED <<HostOf, call, res, ch, queue, snd, batched, owner, recv, twice>>
  BY DEF Break, CloseAddrVer, Close, vars, param, caller, conn
<1>2. NothingNew /\ NothingClosed
  BY <1>1 DEF NothingNew, NothingClosed, Pending, Closed
<1> QED BY <1>0, <1>1, <1>2, QuietStep DEF LockHeld, Locked, NoDoubleClose

LEMMA CloseInit == Init => CloseInv
<1> SUFFICES ASSUME Init PROVE CloseInv
  OBVIOUS
<1>1. Range(ch) = {} /\ queue = {} /\ batched = {} /\ owner = None /\ ~twice
  BY RangeEmpty DEF Init
<1>2. snd.grp = NoGroups /\ ~Locked /\ \A h \in Host : snd.grp[h] = {} /\ recv[h].pc = "off"
  BY DEF Init, Idle, NoGroups, Off, Locked
<1>3. \A e \in Entry : ~Unsent(e) /\ ~Pending(e) /\ ~Closed(e)
  BY <1>1, <1>2 DEF Init, Unsent, InGroup, Pending, Closed
<1>4. OnePlace /\ ClosedIsGone
  BY <1>1, <1>2, <1>3 DEF OnePlace, ClosedIsGone, InGroup
<1>5. LockHeld
  BY <1>1, <1>2 DEF LockHeld, None
<1> QED BY <1>1, <1>4, <1>5, TypeInit DEF CloseInv, NoDoubleClose

LEMMA CloseStep == CloseInv /\ [Next]_vars => CloseInv'
<1> SUFFICES ASSUME CloseInv, [Next]_vars PROVE CloseInv'
  OBVIOUS
<1>1. TypeOK'
  <2>1. CASE Next
    BY <2>1, TypeStep DEF CloseInv
  <2>2. CASE UNCHANGED vars
    BY <2>2 DEF CloseInv, TypeOK, vars
  <2> QED BY <2>1, <2>2
<1>2. OnePlace' /\ ClosedIsGone' /\ LockHeld' /\ NoDoubleClose'
  BY <1>1, CallerClose, SenderClose, ReceiverQuiet, ReceiverLocks, ReceiverFails, OtherClose
  DEF Next, RecvLoop, RecvHandles
<1> QED BY <1>1, <1>2 DEF CloseInv

(* The batch client never closes the result channel of a call twice,       *)
(* whatever the timing of failed sends, broken streams, a full queue and   *)
(* Close() (issue 1222), for any number of calls and forwarded hosts.      *)
THEOREM ChannelsClosedOnce == Spec => []NoDoubleClose
<1>1. CloseInv => NoDoubleClose
  BY DEF CloseInv
<1> QED BY <1>1, CloseInit, CloseStep, PTL DEF Spec

(* Every variable of the batch client keeps its type.                      *)
THEOREM TypeCorrectness == Spec => []TypeOK
<1>1. CloseInv => TypeOK
  BY DEF CloseInv
<1> QED BY <1>1, CloseInit, CloseStep, PTL DEF Spec
=============================================================================
