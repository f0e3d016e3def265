---------------------------- MODULE BatchClient ----------------------------
(***************************************************************************)
(* The batch RPC client of internal/client for one connection pool, from   *)
(* its creation to the end of what it started: callers put entries into a  *)
(* channel (client_batch.go, client_async.go), batchSendLoop takes them    *)
(* into a priority queue, builds a batch per forwarded host and sends it   *)
(* on the stream of that host (conn_batch.go), and a batchRecvLoop per     *)
(* stream delivers the responses or, when the stream fails, fails what is  *)
(* pending and re-creates the stream.  All of them share batched, sent,    *)
(* the epoch of the connection and the result channels of the entries.     *)
(*                                                                         *)
(* An entry is its own request ID: buildWithLimit allocates an ID per      *)
(* entry, once.  Priorities are high or normal.                            *)
(***************************************************************************)
EXTENDS Integers, FiniteSets, Sequences, SequencesExt

CONSTANTS
    Entry,       \* the calls of SendRequest and SendRequestAsync
    Host,        \* forwarded hosts; Direct is the empty string
    Direct,
    Targets,     \* the assignments of forwarded hosts to entries to explore
    Async,       \* entries of SendRequestAsync
    High,        \* entries of high priority
    ChanSize,    \* capacity of batchCommandsCh
    DefLimit,    \* config.DefMaxConcurrencyRequestLimit
    Limits,      \* the values of MaxConcurrencyRequestLimit to explore
    MaxFails     \* bound: failures of streams

ASSUME HostAssumption == Direct \in Host /\ "none" \notin Host /\ Targets \subseteq [Entry -> Host]
ASSUME EntryAssumption == IsFiniteSet(Entry)
ASSUME KindAssumption == Async \subseteq Entry /\ High \subseteq Entry
ASSUME BoundAssumption == /\ ChanSize \in Nat \ {0} /\ MaxFails \in Nat
                          /\ DefLimit \in Nat /\ Limits \subseteq Nat

VARIABLES
    limit,     \* maxConcurrencyRequestLimit
    HostOf,    \* HostOf[e]: forwardedHost of e
    call,      \* call[e]: "start", "waiting", or what the caller got
    res,       \* res[e]: contents of the channel entry.res, "closed" once closed
    canceled,  \* entries whose canceled flag is set
    ch,        \* batchCommandsCh
    queue,     \* entries of the builder's priority queue
    snd,       \* batchSendLoop: its place, the groups to send, IDs to fail
    batched,   \* entries in batched
    sent,      \* the counter sent
    epoch,     \* epoch of the batchCommandsClient
    owner,     \* the stream that is re-creating (tryLock.reCreating), or None
    stream,    \* stream[h]: "none", "up" or "down"
    recv,      \* recv[h]: batchRecvLoop of h: place, epoch, responses at hand
    wire,      \* wire[h]: requests whose responses the server still owes
    close,     \* how far connPool.Close() is
    idle,      \* the batchConn is marked idle
    fails,     \* number of failures so far
    twice,     \* a result channel was closed twice (a panic)
    drift,     \* history: how often an entry was retired twice
    lost       \* history: entries nobody is going to retire, and why

vars == <<limit, HostOf, call, res, canceled, ch, queue, snd, batched, sent, epoch, owner,
          stream, recv, wire, close, idle, fails, twice, drift, lost>>

param == <<limit, HostOf>>
caller == <<call, canceled>>
conn == <<epoch, owner, stream, wire, fails>>

None == "none"
NoGroups == [h \in Host |-> {}]
Idle == [pc |-> "fetch", grp |-> NoGroups, ids |-> {}]
Off == [pc |-> "off", epoch |-> 0, todo |-> {}, cur |-> {}]

CallState == {"start", "waiting", "ok", "error", "timeout", "closed"}
ResState == {"empty", "resp", "closed", "respClosed"}
SndState == [pc : {"fetch", "got", "locked", "fail", "off"}, grp : [Host -> SUBSET Entry],
             ids : SUBSET Entry]
RecvState == [pc : {"off", "start", "recv", "proc", "deliver", "delete", "err", "fail",
                    "connect", "end", "done"},
              epoch : Nat, todo : SUBSET Entry, cur : SUBSET Entry]

TypeOK ==
    /\ limit \in Limits /\ HostOf \in [Entry -> Host]
    /\ call \in [Entry -> CallState] /\ res \in [Entry -> ResState]
    /\ canceled \subseteq Entry /\ queue \subseteq Entry /\ batched \subseteq Entry
    /\ ch \in Seq(Entry) /\ Len(ch) <= ChanSize
    /\ snd \in SndState
    /\ sent \in Int /\ epoch \in Nat /\ drift \in Nat
    /\ owner \in Host \cup {None} /\ stream \in [Host -> {"none", "up", "down"}]
    /\ recv \in [Host -> RecvState]
    /\ wire \in [Host -> SUBSET Entry]
    /\ close \in {"open", "closing", "conn"}
    /\ idle \in BOOLEAN /\ twice \in BOOLEAN /\ fails \in 0 .. MaxFails
    /\ lost \subseteq Entry

Init ==
    /\ limit \in Limits /\ HostOf \in Targets
    /\ call = [e \in Entry |-> "start"] /\ res = [e \in Entry |-> "empty"]
    /\ canceled = {} /\ ch = <<>> /\ queue = {} /\ snd = Idle
    /\ batched = {} /\ sent = 0 /\ epoch = 0 /\ owner = None
    /\ stream = [h \in Host |-> "none"] /\ recv = [h \in Host |-> Off]
    /\ wire = NoGroups /\ close = "open" /\ idle = FALSE /\ fails = 0
    /\ twice = FALSE /\ drift = 0 /\ lost = {}

-----------------------------------------------------------------------------
(* Entries. *)

isStopped == close # "open"     \* batchConn.Close() has run

(* batchCommandsEntry.error for the entries es: close the channel of a     *)
(* call, or run the callback of an asynchronous call unless it ran.        *)
Fail(es) ==
    /\ call' = [e \in Entry |-> IF e \in es \cap Async /\ call[e] = "waiting" THEN "error" ELSE call[e]]
    /\ res' = [e \in Entry |-> IF e \notin es \ Async THEN res[e]
                               ELSE IF res[e] = "empty" THEN "closed"
                               ELSE IF res[e] = "resp" THEN "respClosed" ELSE res[e]]
    /\ twice' = (twice \/ \E e \in es \ Async : res[e] \in {"closed", "respClosed"})

(* Mutant: the request is no longer tracked but still counted. *)
failRequest_StillCounted(es) ==
    /\ batched' = batched \ es
    /\ drift' = drift + Cardinality(es \ batched)
    /\ Fail(es) /\ UNCHANGED sent

(* failRequest: retire es and fail them.  Whoever is not tracked any more  *)
(* is counted down a second time.                                          *)
failRequest(es) ==
    /\ batched' = batched \ es
    /\ sent' = sent - Cardinality(es)
    /\ drift' = drift + Cardinality(es \ batched)
    /\ Fail(es)

(* getConnPool refuses a pool that is idle; the pool may become idle or    *)
(* closed after it returned it.                                            *)
getConnPool(e) ==
    /\ call[e] = "start" /\ idle
    /\ call' = [call EXCEPT ![e] = "error"]
    /\ UNCHANGED <<param, res, canceled, ch, queue, snd, batched, sent, conn, recv, close, idle, twice, drift, lost>>

(* sendBatchRequest and SendRequestAsync, until the entry is in the        *)
(* channel.                                                                *)
Send(e) ==
    /\ call[e] = "start"
    /\ \/ /\ Len(ch) < ChanSize
          /\ ch' = Append(ch, e)
          /\ call' = [call EXCEPT ![e] = "waiting"]
       \/ /\ isStopped
          /\ call' = [call EXCEPT ![e] = "closed"]
          /\ UNCHANGED ch
    /\ UNCHANGED <<param, res, canceled, queue, snd, batched, sent, conn, recv, close, idle, twice, drift, lost>>

(* sendBatchRequest: the response, or the channel is closed. *)
Receive(e) ==
    /\ e \notin Async /\ call[e] = "waiting" /\ res[e] # "empty"
    /\ call' = [call EXCEPT ![e] = IF res[e] = "closed" THEN "error" ELSE "ok"]
    /\ res' = [res EXCEPT ![e] = IF @ = "resp" THEN "empty" ELSE "closed"]
    /\ UNCHANGED <<param, canceled, ch, queue, snd, batched, sent, conn, recv, close, idle, twice, drift, lost>>

(* The timer fires or the context is done while the caller waits, for room *)
(* in the channel or for the response.                                     *)
Timeout(e) ==
    /\ call[e] = "waiting" \/ (call[e] = "start" /\ Len(ch) = ChanSize)
    /\ call' = [call EXCEPT ![e] = "timeout"]
    /\ canceled' = IF call[e] = "waiting" THEN canceled \cup {e} ELSE canceled
    /\ UNCHANGED <<param, res, ch, queue, snd, batched, sent, conn, recv, close, idle, twice, drift, lost>>

(* sendBatchRequest: the connection is closed while the caller waits. *)
WaitClosed(e) ==
    /\ e \notin Async /\ call[e] = "waiting" /\ isStopped
    /\ call' = [call EXCEPT ![e] = "closed"]
    /\ canceled' = canceled \cup {e}
    /\ UNCHANGED <<param, res, ch, queue, snd, batched, sent, conn, recv, close, idle, twice, drift, lost>>

-----------------------------------------------------------------------------
(* batchSendLoop. *)

(* reset() forgets canceled entries, then fetchAllPendingRequests takes    *)
(* what is in the channel.                                                 *)
fetchAllPendingRequests ==
    /\ snd.pc = "fetch" /\ ch # <<>>
    /\ queue' = (queue \ canceled) \cup Range(ch)
    /\ ch' = <<>>
    /\ snd' = [Idle EXCEPT !.pc = "got"]
    /\ UNCHANGED <<param, caller, res, batched, sent, conn, recv, close, idle, twice, drift, lost>>

(* fetchAllPendingRequests: nothing arrives until the idle timer fires or  *)
(* the connection is closed; the loop goes on only if entries are left     *)
(* over from an earlier batch.                                             *)
FetchNothing ==
    /\ snd.pc = "fetch"
    /\ \/ idle' = TRUE
       \/ isStopped /\ UNCHANGED idle
    /\ queue' = queue \ canceled
    /\ snd' = [Idle EXCEPT !.pc = IF queue' = {} THEN "off" ELSE "got"]
    /\ UNCHANGED <<param, caller, res, ch, batched, sent, conn, recv, close, twice, drift, lost>>

fetchMorePendingRequests ==
    /\ snd.pc = "got" /\ ch # <<>>
    /\ queue' = queue \cup Range(ch)
    /\ ch' = <<>>
    /\ UNCHANGED <<param, caller, res, snd, batched, sent, conn, recv, close, idle, twice, drift, lost>>

available == IF sent <= 0 THEN limit ELSE IF limit > sent THEN limit - sent ELSE 0

hasHighPriorityTask(q) == q \cap High # {}

(* PriorityQueue.Take(n): the sets of n entries of q, high ones first. *)
Take(q, n) ==
    IF n >= Cardinality(q) THEN {q}
    ELSE {s \in SUBSET q : /\ Cardinality(s) = n
                           /\ s \cap High = q \cap High \/ s \subseteq High}

(* buildWithLimit(n): the sets it may take from the queue.  It takes n     *)
(* at a time until n normal entries that are not canceled are taken and no *)
(* high one is left, so it may take more than n normal entries.            *)
buildWithLimit(n) ==
    LET more[q \in SUBSET queue, count \in 0 .. Cardinality(queue)] ==
          IF (count < n /\ q # {}) \/ hasHighPriorityTask(q)
          THEN UNION {{s \cup t : t \in more[q \ s, count + Cardinality((s \ High) \ canceled)]}
                        : s \in Take(q, IF n = 0 THEN 1 ELSE n)}
          ELSE {{}}
    IN more[queue, 0]

(* getClientAndSend: lock the client and build the groups, or find that    *)
(* the limit is reached or the streams are being re-created.  The pool has *)
(* one batchCommandsClient (GrpcConnectionCount = 1), so there is no other *)
(* one to try in turn.                                                     *)
getClientAndSend ==
    /\ snd.pc = "got"
    /\ LET usable == (hasHighPriorityTask(queue) \/ available > 0) /\ owner = None IN
       IF usable
       THEN \E taken \in buildWithLimit(available) \cap SUBSET queue :
              /\ queue' = queue \ taken
              /\ snd' = [pc |-> "locked", ids |-> {},
                         grp |-> [h \in Host |-> {e \in taken \ canceled : HostOf[e] = h}]]
              /\ UNCHANGED <<call, res, twice>>
       ELSE /\ snd' = Idle
            /\ IF limit = DefLimit THEN Fail(queue) /\ queue' = {}
                                   ELSE UNCHANGED <<call, res, twice, queue>>
    /\ UNCHANGED <<param, canceled, ch, batched, sent, conn, recv, close, idle, drift, lost>>

(* The direct group is sent first. *)
NextGroup(h) == snd.grp[h] # {} /\ (h # Direct => snd.grp[Direct] = {})

(* initBatchClient fails: the connection is not ready in time. *)
SendNoStream(h) ==
    /\ snd.pc = "locked" /\ NextGroup(h) /\ stream[h] = "none"
    /\ fails < MaxFails \/ close = "conn"
    /\ fails' = IF close = "conn" THEN fails ELSE fails + 1
    /\ Fail(snd.grp[h])
    /\ snd' = [snd EXCEPT !.grp[h] = {}]
    /\ UNCHANGED <<param, canceled, ch, queue, batched, sent, epoch, owner, stream, wire, recv, close, idle, drift, lost>>

(* batchCommandsClient.send: create the stream and its receive loop if     *)
(* need be, track the entries, and send.  Send may return an error with or *)
(* without having sent the batch, and on a broken stream it may return     *)
(* nil; then failRequestsByIDs follows.                                    *)
send(h) ==
    /\ snd.pc = "locked" /\ NextGroup(h)
    /\ stream[h] = "none" => close # "conn"
    /\ stream' = [stream EXCEPT ![h] = IF @ = "none" THEN "up" ELSE @]
    /\ recv' = [recv EXCEPT ![h] = IF @.pc = "off" THEN [@ EXCEPT !.pc = "start"] ELSE @]
    /\ batched' = batched \cup snd.grp[h]
    /\ sent' = sent + Cardinality(snd.grp[h])
    /\ \E ok, there \in BOOLEAN :
         /\ there => stream'[h] = "up"
         /\ ok /\ ~there => stream'[h] = "down"
         /\ ~ok => stream'[h] = "down" \/ fails < MaxFails
         /\ fails' = IF ~ok /\ stream'[h] = "up" THEN fails + 1 ELSE fails
         /\ wire' = [wire EXCEPT ![h] = IF there THEN @ \cup snd.grp[h] ELSE @]
         /\ snd' = [snd EXCEPT !.grp[h] = {}, !.pc = IF ok THEN "locked" ELSE "fail",
                               !.ids = IF ok THEN {} ELSE snd.grp[h]]
    /\ UNCHANGED <<param, caller, res, ch, queue, epoch, owner, close, idle, twice, drift, lost>>

(* failRequestsByIDs: fail those that are still tracked, one by one. *)
failRequestsByIDs(e) ==
    /\ snd.pc = "fail" /\ e \in snd.ids
    /\ snd' = [snd EXCEPT !.ids = @ \ {e}, !.pc = IF @ = "fail" /\ snd.ids = {e} THEN "locked" ELSE @]
    /\ IF e \in batched THEN failRequest({e}) ELSE UNCHANGED <<batched, sent, drift, call, res, twice>>
    /\ UNCHANGED <<param, canceled, ch, queue, conn, recv, close, idle, lost>>

(* unlockForSend, and the next round. *)
unlockForSend ==
    /\ snd.pc = "locked" /\ snd.grp = NoGroups
    /\ snd' = Idle
    /\ UNCHANGED <<param, caller, res, ch, queue, batched, sent, conn, recv, close, idle, twice, drift, lost>>

Locked == snd.pc \in {"locked", "fail"}

-----------------------------------------------------------------------------
(* batchRecvLoop of stream h. *)

Goto(h, pc) == recv' = [recv EXCEPT ![h].pc = pc]

RecvStart(h) ==
    /\ recv[h].pc = "start"
    /\ recv' = [recv EXCEPT ![h] = [pc |-> "recv", epoch |-> epoch, todo |-> {}, cur |-> {}]]
    /\ UNCHANGED <<param, caller, res, ch, queue, snd, batched, sent, conn, close, idle, twice, drift, lost>>

(* The server (or what it already sent) fills one BatchCommandsResponse. *)
Recv(h) ==
    /\ recv[h].pc = "recv" /\ stream[h] = "up"
    /\ \E got \in SUBSET wire[h] :
         /\ got # {}
         /\ wire' = [wire EXCEPT ![h] = @ \ got]
         /\ recv' = [recv EXCEPT ![h].pc = "proc", ![h].todo = got]
    /\ UNCHANGED <<param, caller, res, ch, queue, snd, batched, sent, epoch, owner, stream, close, idle, fails, twice, drift, lost>>

More(todo) == IF todo = {} THEN "recv" ELSE "proc"

(* Load the entry of the next response: an outdated one is dropped. *)
RecvLoad(h) ==
    /\ recv[h].pc = "proc"
    /\ \E e \in recv[h].todo :
         recv' = [recv EXCEPT ![h].todo = @ \ {e},
                              ![h].pc = IF e \in batched THEN "deliver" ELSE More(recv[h].todo \ {e}),
                              ![h].cur = IF e \in batched THEN {e} ELSE {}]
    /\ UNCHANGED <<param, caller, res, ch, queue, snd, batched, sent, conn, close, idle, twice, drift, lost>>

(* Deliver the response unless the entry is canceled.  If its channel is   *)
(* closed meanwhile the loop panics, and starts again without the other    *)
(* responses it had received.                                              *)
RecvDeliver(h) ==
    /\ recv[h].pc = "deliver"
    /\ \E e \in recv[h].cur :
         \/ /\ e \in canceled
            /\ Goto(h, "delete") /\ UNCHANGED <<call, res, lost>>
         \/ /\ e \notin canceled /\ e \in Async
            /\ call' = [call EXCEPT ![e] = IF @ = "waiting" THEN "ok" ELSE @]
            /\ Goto(h, "delete") /\ UNCHANGED <<res, lost>>
         \/ /\ e \notin canceled /\ e \notin Async /\ res[e] = "empty"
            /\ res' = [res EXCEPT ![e] = "resp"]
            /\ Goto(h, "delete") /\ UNCHANGED <<call, lost>>
         \/ /\ e \notin canceled /\ e \notin Async /\ res[e] = "closed"
            /\ recv' = [recv EXCEPT ![h] = [Off EXCEPT !.pc = "start"]]
            /\ lost' = lost \cup recv[h].todo
            /\ UNCHANGED <<call, res>>
    /\ UNCHANGED <<param, canceled, ch, queue, snd, batched, sent, conn, close, idle, twice, drift>>

RecvDelete(h) ==
    /\ recv[h].pc = "delete"
    /\ batched' = batched \ recv[h].cur
    /\ sent' = sent - 1
    /\ drift' = drift + Cardinality(recv[h].cur \ batched)
    /\ recv' = [recv EXCEPT ![h].pc = More(recv[h].todo), ![h].cur = {}]
    /\ UNCHANGED <<param, caller, res, ch, queue, snd, conn, close, idle, twice, lost>>

(* The stream fails: Recv returns an error. *)
RecvError(h) ==
    /\ recv[h].pc = "recv" /\ stream[h] = "down"
    /\ Goto(h, IF isStopped THEN "end" ELSE "err")
    /\ UNCHANGED <<param, caller, res, ch, queue, snd, batched, sent, conn, close, idle, twice, drift, lost>>

(* Mutant: it does not wait for the sender. *)
recreateStreamingClient_Unlocked(h) ==
    /\ recv[h].pc = "err" /\ owner = None
    /\ IF recv[h].epoch = epoch
       THEN /\ epoch' = epoch + 1 /\ owner' = h
            /\ recv' = [recv EXCEPT ![h].epoch = @ + 1, ![h].pc = "fail",
                                    ![h].todo = {e \in batched : HostOf[e] = h}]
            /\ UNCHANGED <<stream, lost>>
       ELSE /\ \E s \in {"up", "down"} : stream' = [stream EXCEPT ![h] = s]
            /\ stream'[h] = "up" => close # "conn"
            /\ lost' = lost \cup {e \in batched : HostOf[e] = h}
            /\ recv' = [recv EXCEPT ![h].epoch = epoch, ![h].pc = IF isStopped THEN "end" ELSE "recv"]
            /\ UNCHANGED <<epoch, owner>>
    /\ UNCHANGED <<param, caller, res, ch, queue, snd, batched, sent, wire, fails, close, idle, twice, drift>>

(* Mutant: the stream is created again, its pending requests are forgotten. *)
recreateStreamingClient_Forgets(h) ==
    /\ recv[h].pc = "err" /\ ~Locked /\ owner = None
    /\ epoch' = epoch + 1 /\ owner' = h
    /\ recv' = [recv EXCEPT ![h].epoch = epoch + 1, ![h].pc = "fail", ![h].todo = {}]
    /\ UNCHANGED <<param, caller, res, ch, queue, snd, batched, sent, stream, wire, fails, close, idle, twice, drift, lost>>

(* recreateStreamingClient, once it has the lock: the first stream in an   *)
(* epoch fails its pending requests and waits for the connection; another  *)
(* one only creates its stream again.                                      *)
recreateStreamingClient(h) ==
    /\ recv[h].pc = "err" /\ ~Locked /\ owner = None
    /\ IF recv[h].epoch = epoch
       THEN /\ epoch' = epoch + 1 /\ owner' = h
            /\ recv' = [recv EXCEPT ![h].epoch = @ + 1, ![h].pc = "fail",
                                    ![h].todo = {e \in batched : HostOf[e] = h}]
            /\ UNCHANGED <<stream, lost>>
       ELSE /\ \E s \in {"up", "down"} : stream' = [stream EXCEPT ![h] = s]
            /\ stream'[h] = "up" => close # "conn"
            /\ lost' = lost \cup {e \in batched : HostOf[e] = h}
            /\ recv' = [recv EXCEPT ![h].epoch = epoch, ![h].pc = IF isStopped THEN "end" ELSE "recv"]
            /\ UNCHANGED <<epoch, owner>>
    /\ UNCHANGED <<param, caller, res, ch, queue, snd, batched, sent, wire, fails, close, idle, twice, drift>>

(* failPendingRequests: fail the entries of h, one by one.  Range may still *)
(* visit an entry that a loop that ends has removed meanwhile.             *)
failPendingRequests(h) ==
    /\ recv[h].pc = "fail"
    /\ IF recv[h].todo = {} THEN Goto(h, "connect") /\ UNCHANGED <<batched, sent, drift, call, res, twice>>
       ELSE \E e \in recv[h].todo :
              /\ recv' = [recv EXCEPT ![h].todo = @ \ {e}]
              /\ \/ failRequest({e})
                 \/ e \notin batched /\ UNCHANGED <<batched, sent, drift, call, res, twice>>
    /\ UNCHANGED <<param, canceled, ch, queue, snd, conn, close, idle, lost>>

(* The loop around recreateStreamingClientOnce ends, and the lock is freed. *)
Reconnect(h) ==
    /\ recv[h].pc = "connect"
    /\ \/ isStopped /\ Goto(h, "end") /\ UNCHANGED stream
       \/ close # "conn" /\ stream' = [stream EXCEPT ![h] = "up"] /\ Goto(h, "recv")
    /\ owner' = None
    /\ UNCHANGED <<param, caller, res, ch, queue, snd, batched, sent, epoch, wire, fails, close, idle, twice, drift, lost>>

(* failAsyncRequestsOnClose when the loop ends. *)
failAsyncRequestsOnClose(h) ==
    /\ recv[h].pc = "end"
    /\ failRequest(batched \cap Async)
    /\ Goto(h, "done")
    /\ UNCHANGED <<param, canceled, ch, queue, snd, conn, close, idle, lost>>

-----------------------------------------------------------------------------
(* The environment: a stream, or the connection and so all its streams,    *)
(* break, and what the server owes is gone.                                *)
Break ==
    /\ fails < MaxFails
    /\ \E hs \in {{h} : h \in Host} \cup {Host} :
         /\ \E h \in hs : stream[h] = "up"
         /\ stream' = [h \in Host |-> IF h \in hs /\ stream[h] = "up" THEN "down" ELSE stream[h]]
         /\ wire' = [h \in Host |-> IF h \in hs THEN {} ELSE wire[h]]
    /\ fails' = fails + 1
    /\ UNCHANGED <<param, caller, res, ch, queue, snd, batched, sent, epoch, owner, recv, close, idle, twice, drift, lost>>

(* Close, CloseAddrVer or the recycling of idle connections: connPool.Close *)
(* first runs batchConn.Close().                                           *)
CloseAddrVer ==
    /\ close = "open" /\ close' = "closing"
    /\ UNCHANGED <<param, caller, res, ch, queue, snd, batched, sent, conn, recv, idle, twice, drift, lost>>

(* connPool.Close() then closes the connections, which breaks the streams. *)
Close ==
    /\ close = "closing" /\ close' = "conn"
    /\ stream' = [h \in Host |-> IF stream[h] = "up" THEN "down" ELSE stream[h]]
    /\ wire' = NoGroups
    /\ UNCHANGED <<param, caller, res, ch, queue, snd, batched, sent, epoch, owner, recv, idle, fails, twice, drift, lost>>

SendLoop ==
    \/ fetchAllPendingRequests \/ FetchNothing \/ fetchMorePendingRequests
    \/ getClientAndSend \/ unlockForSend
    \/ \E h \in Host : SendNoStream(h) \/ send(h)
    \/ \E e \in Entry : failRequestsByIDs(e)

(* What batchRecvLoop does without waiting for the server. *)
RecvHandles(h) ==
    \/ RecvStart(h) \/ RecvLoad(h) \/ RecvDeliver(h) \/ RecvDelete(h)
    \/ RecvError(h) \/ recreateStreamingClient(h) \/ failPendingRequests(h) \/ Reconnect(h)
    \/ failAsyncRequestsOnClose(h)

RecvLoop(h) == Recv(h) \/ RecvHandles(h)

Caller(e) == getConnPool(e) \/ Send(e) \/ Receive(e) \/ Timeout(e) \/ WaitClosed(e)

Next ==
    \/ \E e \in Entry : Caller(e)
    \/ SendLoop
    \/ \E h \in Host : RecvLoop(h)
    \/ Break \/ CloseAddrVer \/ Close

Spec == Init /\ [][Next]_vars

(* Goroutines run, a connection is re-established, and the idle timer      *)
(* fires.  Nothing is assumed of the server's answers, of the timers of    *)
(* the calls and of Close().                                               *)
Fairness ==
    /\ WF_vars(SendLoop)
    /\ \A h \in Host : WF_vars(RecvHandles(h)) /\ SF_vars(recreateStreamingClient(h))
    /\ \A e \in Entry : WF_vars(Receive(e))

FairSpec == Spec /\ Fairness

-----------------------------------------------------------------------------
(* No result channel is closed twice: a failed send, the failure of a      *)
(* stream and a full queue never fail the same entry, because sending and  *)
(* re-creating exclude each other (the panics of issue 1222).              *)
NoDoubleClose == ~twice

(* The number of requests in flight that limits what is sent never counts  *)
(* a request that is not in flight (it would be lost capacity for ever; it *)
(* may be too small, issue 1225), and normal requests never exceed twice   *)
(* the limit, what buildWithLimit can take beyond it.                      *)
InFlight ==
    /\ sent = Cardinality(batched) - drift
    /\ limit # DefLimit => Cardinality(batched \ High) <= 2 * limit - 1 + drift

(* Every request that is tracked has somebody who will retire it: the      *)
(* server owes its response, a receive loop has it at hand, the sender is  *)
(* failing it, or its stream is broken and will fail it.  Lost ones are    *)
(* those of a stream that fails in an epoch another stream has begun, and  *)
(* those whose responses a panicking receive loop had at hand.             *)
Tracked ==
    ~isStopped => \A e \in batched \ lost :
        LET h == HostOf[e] IN
        \/ e \in wire[h] \cup recv[h].todo \cup recv[h].cur \cup snd.ids
        \/ stream[h] = "down"

(* What is in flight is counted and owned. *)
Accounting == TypeOK /\ InFlight /\ Tracked

(* The call waits for nobody but the server: its response is owed, or it   *)
(* is queued behind requests at the limit of which one is.                 *)
Owed(e) == e \in wire[HostOf[e]]
WaitsForServer(e) ==
    Owed(e) \/ (e \in queue /\ available = 0 /\ \E o \in batched : Owed(o))

(* Every call that waits is answered without the help of its own timer, by *)
(* a response or an error, as soon as the server owes no answer: when the  *)
(* server has answered, or the stream or the send failed, the client never *)
(* leaves the call to its timer.  Excepted are a connection that is        *)
(* closed, an entry in the channel of a connection that became idle, and   *)
(* one that is lost.                                                       *)
Answered ==
    \A e \in Entry : (call[e] = "waiting") ~>
        \/ call[e] # "waiting" \/ WaitsForServer(e)
        \/ isStopped \/ e \in lost \/ (idle /\ e \in Range(ch))

-----------------------------------------------------------------------------
(* Why no channel is closed twice. *)

(* An entry that is not sent yet, and one that may be failed: it is        *)
(* tracked, or a stream that is re-created is about to fail it.            *)
InGroup(e) == \E h \in Host : e \in snd.grp[h]
Unsent(e) == e \in Range(ch) \/ e \in queue \/ InGroup(e)
Pending(e) == e \in batched \/ \E h \in Host : recv[h].pc = "fail" /\ e \in recv[h].todo

(* An entry is in one place on its way to the stream, once it was put into *)
(* the channel.                                                            *)
OnePlace ==
    \A e \in Entry :
        /\ call[e] = "start" => ~Unsent(e) /\ ~Pending(e)
        /\ Unsent(e) => ~Pending(e)
        /\ e \in Range(ch) => e \notin queue
        /\ InGroup(e) => e \notin Range(ch) /\ e \notin queue
        /\ \A h \in Host : e \in snd.grp[h] => HostOf[e] = h

(* A closed channel is that of an entry that is nowhere any more.          *)
Closed(e) == e \notin Async /\ res[e] \in {"closed", "respClosed"}
ClosedIsGone ==
    \A e \in Entry : Closed(e) => call[e] # "start" /\ ~Unsent(e) /\ ~Pending(e)

(* The sender and the one stream that re-creates exclude each other.       *)
LockHeld ==
    /\ Locked => owner = None
    /\ ~Locked => snd.grp = NoGroups
    /\ \A h \in Host : recv[h].pc \in {"fail", "connect"} <=> owner = h

CloseInv == TypeOK /\ OnePlace /\ ClosedIsGone /\ LockHeld /\ NoDoubleClose
=============================================================================
