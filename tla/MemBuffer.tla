----------------------------- MODULE MemBuffer ------------------------------
(***************************************************************************)
(* The memory buffer of a transaction (internal/unionstore): an index of   *)
(* keys, the radix tree (art) or the red-black tree (rbt), whose leaves    *)
(* point into a log of values.  A staging handle or a checkpoint is a      *)
(* position in the log: rolling back walks the log back to it.  Flags are  *)
(* kept in the leaves and are not rolled back.                             *)
(*                                                                         *)
(* The buffer is one record db:                                            *)
(*   tree         the index; last is the cache of the leaf last found      *)
(*   node         for each indexed key its address in the log (vptr), its  *)
(*                flags and whether it is marked deleted                   *)
(*   vlog         the blocks of the log and the size of the next one       *)
(*   stages       the checkpoints of the open staging handles              *)
(* An offset in a block counts records, the capacity of a block bytes.     *)
(*                                                                         *)
(* The history variables say what a reader expects: levels, the values and *)
(* the written keys of the base and of each stage, and locked, the         *)
(* persistent flags of each key.                                           *)
(*                                                                         *)
(* Two sequences of calls break what the code promises and are only made   *)
(* when Admit names them:                                                  *)
(*   overwrittenMark   reverting to a checkpoint after a value it covers   *)
(*                     was overwritten in place                            *)
(*   blankKeys         leaving a key of the radix tree with neither value  *)
(*                     nor flags, which it counts once more when written   *)
(***************************************************************************)
EXTENDS RedBlackTree, RadixTree

CONSTANTS memdbVlogHdrSize, initBlockSize, maxBlockSize,
          initBatchSize, maxBatchSize,
          Scenes,      \* what is exercised: see Init
          Committed,   \* the values of the snapshot below the buffer
          Admit        \* the sequences of calls above that are made

ASSUME AdmitAssumption == Admit \subseteq {"overwrittenMark", "blankKeys"}

ASSUME SizesAssumption ==
    /\ 0 < memdbVlogHdrSize /\ 0 < initBlockSize /\ initBlockSize <= maxBlockSize
    /\ 0 < initBatchSize /\ initBatchSize <= maxBatchSize
    /\ node4cap > 1 /\ node4cap < node16cap /\ node16cap < node48cap /\ node48cap < node256cap

VARIABLES scene, db, snap, mark, ops, levels, locked

vars == <<scene, db, snap, mark, ops, levels, locked>>
ghosts == <<levels, locked>>

Tombstone == <<>>

-----------------------------------------------------------------------------
(* Flags.                                                                  *)

persistentFlags ==
    {"KeyLocked", "KeyLockedValExist", "NeedConstraintCheckInPrewrite", "KeyLockedInShareMode"}
AndPersistent(flags) == flags \cap persistentFlags

(* What each operation on flags sets and clears.                           *)
FlagsOp ==
    [SetPresumeKeyNotExists |-> <<{"PresumeKNE", "NeedCheckExists"}, {}>>,
     DelPresumeKeyNotExists |-> <<{}, {"PresumeKNE", "NeedCheckExists"}>>,
     SetKeyLocked |-> <<{"KeyLocked"}, {}>>,
     DelKeyLocked |-> <<{}, {"KeyLocked"}>>,
     SetNeedLocked |-> <<{"NeedLocked"}, {}>>,
     DelNeedLocked |-> <<{}, {"NeedLocked"}>>,
     SetKeyLockedValueExists |-> <<{"KeyLockedValExist"}, {"NeedConstraintCheckInPrewrite"}>>,
     SetKeyLockedValueNotExists |-> <<{}, {"KeyLockedValExist", "NeedConstraintCheckInPrewrite"}>>,
     DelNeedCheckExists |-> <<{}, {"NeedCheckExists"}>>,
     SetPrewriteOnly |-> <<{"PrewriteOnly"}, {}>>,
     SetIgnoredIn2PC |-> <<{"IgnoredIn2PC"}, {}>>,
     SetReadable |-> <<{"Readable"}, {}>>,
     SetNewlyInserted |-> <<{"NewlyInserted"}, {}>>,
     SetAssertExist |-> <<{"AssertExist"}, {"AssertNotExist"}>>,
     SetAssertNotExist |-> <<{"AssertNotExist"}, {"AssertExist"}>>,
     SetAssertUnknown |-> <<{"AssertExist", "AssertNotExist"}, {}>>,
     SetAssertNone |-> <<{}, {"AssertExist", "AssertNotExist"}>>,
     SetNeedConstraintCheckInPrewrite |-> <<{"NeedConstraintCheckInPrewrite"}, {}>>,
     DelNeedConstraintCheckInPrewrite |-> <<{}, {"NeedConstraintCheckInPrewrite"}>>,
     SetPreviousPresumeKNE |-> <<{"PreviousPresumeKNE"}, {}>>,
     SetKeyLockedInShareMode |-> <<{"KeyLockedInShareMode"}, {}>>,
     SetKeyLockedInExclusiveMode |-> <<{}, {"KeyLockedInShareMode"}>>]

ApplyFlagsOps(origin, fops) ==
    FoldLeft(LAMBDA flags, op : (flags \ FlagsOp[op][2]) \cup FlagsOp[op][1], origin, fops)

-----------------------------------------------------------------------------
(* The log of values.                                                      *)

EmptyLog == [blocks |-> <<>>, blockSize |-> 0]
RecordSize(val) == memdbVlogHdrSize + Len(val)
length(block) == FoldLeft(LAMBDA n, r : n + RecordSize(r.val), 0, block.log)

checkpoint(v) ==
    [blocks |-> Len(v.blocks), off |-> IF v.blocks = <<>> THEN 0 ELSE Len(Last(v.blocks).log),
     blockSize |-> v.blockSize]
IsSamePosition(a, b) == a.blocks = b.blocks /\ a.off = b.off
LessThan(a, b) == a.blocks < b.blocks \/ (a.blocks = b.blocks /\ a.off < b.off)

RECURSIVE DoubleBeyond(_, _)
DoubleBeyond(blockSize, size) ==
    IF blockSize <= size THEN DoubleBeyond(2 * blockSize, size) ELSE blockSize

enlarge(v, size, blockSize) ==
    LET cap == MinOf(DoubleBeyond(blockSize, size), maxBlockSize)
    IN  [blocks |-> Append(v.blocks, [cap |-> cap, log |-> <<>>]), blockSize |-> cap]

(* The log with room for a record at its end.                              *)
Alloc(v, size) ==
    LET v1 == IF v.blocks = <<>> THEN enlarge(v, size, initBlockSize) ELSE v
    IN  IF length(Last(v1.blocks)) + size <= Last(v1.blocks).cap THEN v1
        ELSE enlarge(v1, size, 2 * v1.blockSize)

AppendValue(v, key, old, val) ==
    LET v1 == Alloc(v, RecordSize(val))
        n == Len(v1.blocks)
    IN  [v1 EXCEPT !.blocks[n].log = Append(@, [key |-> key, old |-> old, val |-> val])]

(* The address of the record at a position.                                *)
AddrAt(cursor) == [blk |-> cursor.blocks, off |-> cursor.off]
RecordAt(v, addr) == v.blocks[addr.blk].log[addr.off]
GetValue(v, addr) == RecordAt(v, addr).val

(* Counts the record at the checkpoint as written after it.                *)
CanModify_OffByOne(cp, addr) ==
    addr.blk > cp.blocks \/ (addr.blk = cp.blocks /\ addr.off >= cp.off)

(* The record was written after the checkpoint.                            *)
CanModify(cp, addr) ==
    addr.blk > cp.blocks \/ (addr.blk = cp.blocks /\ addr.off > cp.off)

RECURSIVE SelectValueHistory(_, _, _)
(* The newest version at or before addr that the checkpoint covers.        *)
SelectValueHistory(v, addr, cp) ==
    IF addr = Null \/ ~CanModify(cp, addr) THEN addr
    ELSE SelectValueHistory(v, RecordAt(v, addr).old, cp)

GetSnapshotValue(v, addr, cp) ==
    LET found == SelectValueHistory(v, addr, cp)
    IN  IF found = Null THEN Null ELSE GetValue(v, found)

moveBackCursor(v, cursor) ==
    IF cursor.off > 1 THEN [cursor EXCEPT !.off = @ - 1]
    ELSE [cursor EXCEPT !.blocks = @ - 1,
                        !.off = IF cursor.blocks > 1 THEN Len(v.blocks[cursor.blocks - 1].log)
                                ELSE 0]

Truncate(v, cp) ==
    [blocks |-> [i \in 1 .. cp.blocks |->
                    IF i < cp.blocks THEN v.blocks[i]
                    ELSE [v.blocks[i] EXCEPT !.log = Prefix(@, cp.off)]],
     blockSize |-> cp.blockSize]

RECURSIVE InspectKVInLog(_, _, _)
(* The newest records between head and the cursor, the last one first.     *)
InspectKVInLog(d, head, cursor) ==
    IF IsSamePosition(head, cursor) THEN <<>>
    ELSE LET r == RecordAt(d.vlog, AddrAt(cursor))
         IN  (IF d.node[r.key].vptr = AddrAt(cursor) THEN <<[key |-> r.key, val |-> r.val]>>
              ELSE <<>>)
             \o InspectKVInLog(d, head, moveBackCursor(d.vlog, cursor))

-----------------------------------------------------------------------------
(* The index.                                                              *)

IsART == scene.impl = "art"

(* traverse without insert: the cache, or a search of the tree.            *)
Find(d, key) ==
    IF d.last = key THEN key
    ELSE IF IsART THEN search(d.tree, key) ELSE Search(d.tree, key, d.tree.root, Null).x

Indexed(d, key) == IF IsART THEN recursiveInsert(d.tree, key) ELSE traverse(d.tree, key)

Iter(d, shown, lower, upper, reverse) ==
    IF IsART THEN ARTIter(d.tree, shown, lower, upper, reverse)
    ELSE RBTIter(d.tree, shown, lower, upper, reverse)

HasValue(d) == {k \in DOMAIN d.node : d.node[k].vptr # Null}
ValueOf(d, key) == GetValue(d.vlog, d.node[key].vptr)

Get(d, key) ==
    LET n == Find(d, key)
    IN  IF n = Null \/ d.node[n].vptr = Null THEN Null ELSE ValueOf(d, n)

GetFlags(d, key) ==
    LET n == Find(d, key)
    IN  IF n = Null \/ d.node[n].deleted THEN Null ELSE d.node[n].flags

-----------------------------------------------------------------------------
(* Writes.                                                                 *)

CanSwap(d, key, val) ==
    LET vptr == d.node[key].vptr
    IN  /\ vptr # Null /\ val # Tombstone /\ Len(GetValue(d.vlog, vptr)) = Len(val)
        /\ d.stages # <<>> => CanModify(Last(d.stages), vptr)

setValue(d, key, val) ==
    LET vptr == d.node[key].vptr
        v == AppendValue(d.vlog, key, vptr, val)
    IN  IF CanSwap(d, key, val)
        THEN [d EXCEPT !.vlog.blocks[vptr.blk].log[vptr.off].val = val]
        ELSE [d EXCEPT !.vlog = v, !.node[key].vptr = AddrAt(checkpoint(v)),
                       !.size = @ + Len(val) - IF vptr = Null THEN 0
                                               ELSE Len(GetValue(d.vlog, vptr))]

(* Set with a value, or with Null to update the flags only.                *)
SetKey(d, key, val, fops) ==
    LET found == Find(d, key) # Null
        n == IF found THEN d.node[key] ELSE [vptr |-> Null, flags |-> {}, deleted |-> FALSE]
        counts == IF IsART THEN (n.flags = {} /\ n.vptr = Null) \/ n.deleted
                  ELSE ~found \/ (n.flags = {} /\ n.vptr = Null /\ n.deleted)
        flags == ApplyFlagsOps(n.flags, IF val = Null THEN fops
                                        ELSE <<"DelNeedConstraintCheckInPrewrite">> \o fops)
        d1 == [d EXCEPT
                !.tree = IF found THEN @ ELSE Indexed(d, key),
                !.last = key,
                !.node = [k \in DOMAIN @ \cup {key} |->
                            IF k = key THEN [n EXCEPT !.flags = flags, !.deleted = FALSE]
                            ELSE @[k]],
                !.len = IF counts THEN @ + 1 ELSE @,
                !.size = IF counts THEN @ + Len(key) ELSE @,
                !.dirty = @ \/ d.stages = <<>> \/ AndPersistent(flags) # {}]
    IN  IF val = Null THEN d1 ELSE setValue(d1, key, val)

(* Takes a record back.                                                    *)
RevertVAddr(d, r) ==
    LET n == d.node[r.key]
        kept == AndPersistent(n.flags)
        first == r.old = Null
        gone == first /\ kept = {}
    IN  [d EXCEPT
            !.node[r.key] = [vptr |-> r.old, flags |-> IF first THEN kept ELSE n.flags,
                             deleted |-> gone],
            !.len = IF gone THEN @ - 1 ELSE @,
            !.size = @ - Len(r.val) - (IF gone THEN Len(r.key) ELSE 0)
                       + (IF first THEN 0 ELSE Len(GetValue(d.vlog, r.old))),
            !.dirty = @ \/ (~IsART /\ first /\ kept # {})]

RECURSIVE RevertFrom(_, _, _)
RevertFrom(d, cp, cursor) ==
    IF IsSamePosition(cp, cursor) THEN d
    ELSE RevertFrom(RevertVAddr(d, RecordAt(d.vlog, AddrAt(cursor))), cp,
                    moveBackCursor(d.vlog, cursor))

RevertTo(d, cp) ==
    LET d1 == RevertFrom(d, cp, checkpoint(d.vlog)) IN [d1 EXCEPT !.vlog = Truncate(@, cp)]

-----------------------------------------------------------------------------
(* The batched iterator of a snapshot.                                     *)

getSnapshotCheckpoint(d) == IF d.stages # <<>> THEN d.stages[1] ELSE checkpoint(d.vlog)

SnapshotGet(d, cp, key) ==
    LET n == Find(d, key)
    IN  IF n = Null THEN Null ELSE GetSnapshotValue(d.vlog, d.node[n].vptr, cp)

SnapshotPairs(d, cp, keys) ==
    [i \in DOMAIN keys |->
        [key |-> keys[i], val |-> GetSnapshotValue(d.vlog, d.node[keys[i]].vptr, cp)]]

NewSnapshotIterator(d, cp, lower, upper, reverse) ==
    SelectSeq(SnapshotPairs(d, cp, Iter(d, HasValue(d), lower, upper, reverse)),
              LAMBDA pair : pair.val # Null)

(* The pairs not yet fetched, the next batch of them, and the key after it.*)
Remaining(d, s) ==
    NewSnapshotIterator(d, s.cp, IF ~s.reverse /\ s.nextKey # Null THEN s.nextKey ELSE s.lower,
                        IF s.reverse /\ s.nextKey # Null THEN s.nextKey ELSE s.upper, s.reverse)
Batch(s, pairs) ==
    [s EXCEPT !.batch = Prefix(pairs, MinOf(s.batchSize, Len(pairs))), !.pos = 1,
              !.batchSize = MinOf(2 * @, maxBatchSize)]

(* Starts the next batch at the last key of this one.                      *)
NextKey_Repeat(s) ==
    [s EXCEPT !.nextKey = IF s.batch = <<>> THEN Null ELSE Last(s.batch).key]

NextKey(s) ==
    [s EXCEPT !.nextKey = IF s.batch = <<>> THEN Null
                          ELSE IF s.reverse THEN Last(s.batch).key
                          ELSE Append(Last(s.batch).key, 0)]

fillBatch(d, s) == NextKey(Batch(s, Remaining(d, s)))

(* The range of a snapshot in order, as its readers expect it.             *)
SortedKeys ==
    [i \in 1 .. Cardinality(Keys) |->
        CHOOSE k \in Keys : Cardinality({j \in Keys : Less(j, k)}) = i - 1]
RangeOf(keys, lower, upper, reverse) ==
    LET asc == SelectSeq(SortedKeys, LAMBDA k : /\ k \in keys
                                                /\ lower # <<>> => ~Less(k, lower)
                                                /\ upper # <<>> => Less(k, upper))
    IN  IF reverse THEN Reverse(asc) ELSE asc
PairsOf(map, lower, upper, reverse) ==
    LET keys == RangeOf(DOMAIN map, lower, upper, reverse)
    IN  [i \in DOMAIN keys |-> [key |-> keys[i], val |-> map[keys[i]]]]

-----------------------------------------------------------------------------
RECURSIVE UnionIter(_, _, _)
(* The pairs of the buffer over those of the snapshot, in one order.       *)
UnionIter(dirty, below, reverse) ==
    LET d == Head(dirty)
        s == Head(below)
        first == IF reverse THEN Less(s.key, d.key) ELSE Less(d.key, s.key)
        shown == IF d.val = Tombstone THEN <<>> ELSE <<d>>
    IN  IF dirty = <<>> THEN below
        ELSE IF below = <<>> \/ first THEN shown \o UnionIter(Tail(dirty), below, reverse)
        ELSE IF d.key = s.key THEN shown \o UnionIter(Tail(dirty), Tail(below), reverse)
        ELSE <<s>> \o UnionIter(dirty, Tail(below), reverse)

(* KVUnionStore.Get: the buffer's value, else the snapshot's.              *)
UnionGet(d, key) ==
    LET v == Get(d, key)
        w == IF v # Null THEN v ELSE IF key \in DOMAIN Committed THEN Committed[key] ELSE Null
    IN  IF w = Tombstone THEN Null ELSE w

-----------------------------------------------------------------------------
(* The operations.  A scene names the implementation, the keys, values and *)
(* flag operations used, which calls are made, how many of those that are  *)
(* not free, how many stages may be open, and the bounds of the ranges     *)
(* that are scanned.                                                       *)

Reset(impl) ==
    [tree |-> IF impl = "art" THEN Null ELSE EmptyTree, node |-> <<>>, vlog |-> EmptyLog,
     stages |-> <<>>, dirty |-> FALSE, len |-> 0, size |-> 0, last |-> Null,
     vlogInvalid |-> FALSE]

NoLevel == [map |-> <<>>, written |-> {}]
NoLocks == [k \in Keys |-> {}]

Init ==
    /\ scene \in Scenes
    /\ db = Reset(scene.impl)
    /\ snap = Null /\ mark = Null /\ ops = 0
    /\ levels = <<NoLevel>> /\ locked = NoLocks

Call(kind) ==
    /\ kind \in scene.calls
    /\ kind \notin scene.free => ops < scene.ops
    /\ ops' = IF kind \in scene.free THEN ops ELSE ops + 1
    /\ UNCHANGED scene

(* What an operation that may change what a snapshot reads does to it.     *)
Invalidate(changes) ==
    snap' = IF snap # Null /\ changes THEN [snap EXCEPT !.valid = FALSE] ELSE snap

(* A value that the checkpoint covers is overwritten in place.             *)
OverwritesMark(key, val) ==
    /\ mark # Null /\ val # Null /\ key \in DOMAIN db.node /\ CanSwap(db, key, val)
    /\ ~CanModify(mark.cp, db.node[key].vptr)

Write(key, val, fops) ==
    LET top == Last(levels)
        d == SetKey(db, key, val, fops)
    IN  /\ ~db.vlogInvalid
        /\ db' = d
        /\ Invalidate(db.stages = <<>>)
        /\ mark' = IF OverwritesMark(key, val) /\ "overwrittenMark" \notin Admit THEN Null ELSE mark
        /\ IsART /\ d.node[key].flags = {} /\ d.node[key].vptr = Null => "blankKeys" \in Admit
        /\ levels' = IF val = Null THEN levels
                     ELSE [levels EXCEPT ![Len(levels)] =
                            [map |-> [k \in DOMAIN top.map \cup {key} |->
                                        IF k = key THEN val ELSE top.map[k]],
                             written |-> top.written \cup {key}]]
        /\ locked' = [locked EXCEPT ![key] =
                        AndPersistent(ApplyFlagsOps(IF val = Null THEN @
                                        ELSE @ \ {"NeedConstraintCheckInPrewrite"}, fops))]

Set(key, val) == Call("set") /\ Write(key, val, <<>>)
SetWithFlags(key, val, op) == Call("setWithFlags") /\ Write(key, val, <<op>>)
UpdateFlags(key, op) == Call("updateFlags") /\ Write(key, Null, <<op>>)
Delete(key) == Call("delete") /\ Write(key, Tombstone, <<>>)

(* A read leaves the leaf it found in the cache.                           *)
Read(key) ==
    /\ Call("read") /\ ~db.vlogInvalid /\ Find(db, key) # Null
    /\ db' = [db EXCEPT !.last = key]
    /\ UNCHANGED <<snap, mark, ghosts>>

Staging ==
    /\ Call("staging") /\ Len(db.stages) < scene.depth
    /\ db' = [db EXCEPT !.stages = Append(@, checkpoint(db.vlog))]
    /\ levels' = Append(levels, [map |-> Last(levels).map, written |-> {}])
    /\ UNCHANGED <<snap, mark, locked>>

(* A checkpoint is reverted to in the stage it was taken in, or not at all.*)
EndStage == mark' = IF mark # Null /\ mark.depth >= Len(db.stages) THEN Null ELSE mark

Release ==
    LET h == Len(db.stages)
        low == levels[h]
    IN  /\ Call("release") /\ h > 0
        /\ db' = [db EXCEPT !.stages = Front(@),
                            !.dirty = @ \/ (h = 1 /\ ~IsSamePosition(db.stages[1],
                                                                     checkpoint(db.vlog)))]
        /\ Invalidate(h = 1)
        /\ EndStage
        /\ levels' = Append(Prefix(levels, h - 1),
                            [map |-> Last(levels).map, written |-> low.written \cup Last(levels).written])
        /\ UNCHANGED locked

Cleanup ==
    LET h == Len(db.stages)
        d == IF db.vlogInvalid THEN db ELSE RevertTo(db, Last(db.stages))
    IN  /\ Call("cleanup") /\ h > 0
        /\ db' = [d EXCEPT !.stages = Front(@)]
        /\ Invalidate(h = 1)
        /\ EndStage
        /\ levels' = Front(levels)
        /\ UNCHANGED locked

Checkpoint ==
    /\ Call("checkpoint") /\ ~db.vlogInvalid
    /\ mark' = [cp |-> checkpoint(db.vlog), depth |-> Len(db.stages), level |-> Last(levels)]
    /\ UNCHANGED <<db, snap, ghosts>>

(* The radix tree invalidates snapshots also when the first stage is       *)
(* before the checkpoint, although nothing in them then changes.           *)
RevertToCheckpoint ==
    /\ Call("checkpoint") /\ ~db.vlogInvalid /\ mark # Null /\ mark.depth = Len(db.stages)
    /\ db' = RevertTo(db, mark.cp)
    /\ Invalidate(db.stages = <<>> \/ (IsART /\ LessThan(db.stages[1], mark.cp)))
    /\ mark' = Null
    /\ levels' = [levels EXCEPT ![Len(levels)] = mark.level]
    /\ UNCHANGED locked

(* Only the red-black tree removes keys, and only tests ask it to.         *)
RemoveFromBuffer(key) ==
    /\ Call("remove") /\ ~IsART /\ key \in HasValue(db)
    /\ db' = [db EXCEPT !.tree = deleteNode(@, key), !.last = IF @ = key THEN Null ELSE @,
                        !.node = [k \in DOMAIN @ \ {key} |-> @[k]],
                        !.len = @ - 1, !.size = @ - Len(key) - Len(ValueOf(db, key))]
    /\ levels' = [levels EXCEPT ![1] = [map |-> [k \in DOMAIN @.map \ {key} |-> @.map[k]],
                                        written |-> @.written \ {key}]]
    /\ UNCHANGED <<snap, mark, locked>>

ResetBuffer ==
    /\ Call("reset") /\ db.node # <<>>
    /\ db' = Reset(scene.impl)
    /\ Invalidate(TRUE)
    /\ mark' = Null
    /\ levels' = <<NoLevel>> /\ locked' = NoLocks

DiscardValues ==
    /\ Call("discard") /\ ~db.vlogInvalid
    /\ db' = [db EXCEPT !.vlogInvalid = TRUE, !.vlog = EmptyLog]
    /\ snap' = Null /\ mark' = Null
    /\ UNCHANGED ghosts

-----------------------------------------------------------------------------
(* A snapshot's reader, between writes.                                    *)

BatchedSnapshotIter(reverse) ==
    LET cp == getSnapshotCheckpoint(db)
    IN  /\ Call("snapshot") /\ ~db.vlogInvalid /\ snap = Null
        /\ snap' = fillBatch(db, [cp |-> cp, lower |-> <<>>, upper |-> <<>>, reverse |-> reverse,
                                  batch |-> <<>>, pos |-> 1, nextKey |-> Null,
                                  batchSize |-> initBatchSize, valid |-> TRUE, out |-> <<>>,
                                  expected |-> PairsOf(levels[1].map, <<>>, <<>>, reverse)])
        /\ UNCHANGED <<db, mark, ghosts>>

SnapValid == snap.pos <= Len(snap.batch) /\ (snap.valid \/ ~IsART)

(* Key, Value, then Next.                                                  *)
SnapNext ==
    /\ snap # Null /\ ~db.vlogInvalid /\ SnapValid
    /\ LET s == [snap EXCEPT !.out = Append(@, snap.batch[snap.pos]), !.pos = @ + 1]
       IN  snap' = IF s.pos > Len(s.batch) THEN fillBatch(db, s) ELSE s
    /\ UNCHANGED <<scene, db, mark, ops, ghosts>>

Next ==
    \/ \E key \in scene.keys : \E val \in scene.values :
        Set(key, val) \/ \E op \in scene.flagOps : SetWithFlags(key, val, op)
    \/ \E key \in scene.keys, op \in scene.flagOps : UpdateFlags(key, op)
    \/ \E key \in scene.keys : Delete(key) \/ Read(key) \/ RemoveFromBuffer(key)
    \/ Staging \/ Release \/ Cleanup \/ Checkpoint \/ RevertToCheckpoint
    \/ ResetBuffer \/ DiscardValues
    \/ \E reverse \in BOOLEAN : BatchedSnapshotIter(reverse)
    \/ SnapNext

Spec == Init /\ [][Next]_vars

-----------------------------------------------------------------------------
(* Properties.                                                             *)

(* The index is a well-formed tree with exactly the keys of the leaves,    *)
(* whose cached leaf is one of them, and every iterator over a range, in   *)
(* either direction and whatever leaves it must skip, returns the keys of  *)
(* the range in order: traverse, deleteNode, recursiveInsert, seek.        *)
IndexSound ==
    LET keys == DOMAIN db.node
        some == {k \in keys : Len(k) # 2}
    IN  /\ IF IsART THEN RadixSound(db.tree, <<>>, TRUE)
           ELSE RedBlack(db.tree) /\ db.tree.nodes = keys
        /\ \A k \in scene.keys : Find(db, k) = IF k \in keys THEN k ELSE Null
        /\ db.last # Null => db.last \in keys
        /\ \A lower, upper \in scene.bounds, reverse \in BOOLEAN, shown \in {keys, some} :
            Iter(db, shown, lower, upper, reverse) = RangeOf(shown, lower, upper, reverse)

(* Reads see the transaction's writes and none that was rolled back: Get,  *)
(* the iterator, the union store and InspectStage agree with the values    *)
(* and written keys of the open stages; locks and deferred checks outlive  *)
(* a rollback; the length and size are those of the entries; and a buffer  *)
(* with something to commit is dirty.  The union store's iterator merges    *)
(* pairs only, so the maps that occur without a stage are enough for it.   *)
ValuesAsWritten ==
    ~db.vlogInvalid =>
        LET top == Last(levels).map
            pairs(reverse) == PairsOf(top, <<>>, <<>>, reverse)
            union == [k \in DOMAIN top \cup DOMAIN Committed |->
                        IF k \in DOMAIN top THEN top[k] ELSE Committed[k]]
            visible == [k \in {j \in DOMAIN union : union[j] # Tombstone} |-> union[k]]
        IN  /\ \A k \in scene.keys :
                /\ Get(db, k) = IF k \in DOMAIN top THEN top[k] ELSE Null
                /\ UnionGet(db, k) = IF k \in DOMAIN visible THEN visible[k] ELSE Null
            /\ SnapshotPairs(db, checkpoint(db.vlog), Iter(db, HasValue(db), <<>>, <<>>, FALSE))
                    = pairs(FALSE)
            /\ db.stages = <<>> => \A reverse \in BOOLEAN :
                UnionIter(pairs(reverse), PairsOf(Committed, <<>>, <<>>, reverse), reverse)
                    = PairsOf(visible, <<>>, <<>>, reverse)

StagesInspected ==
    ~db.vlogInvalid =>
        \A h \in DOMAIN db.stages :
            LET seen == InspectKVInLog(db, db.stages[h], checkpoint(db.vlog))
                written == UNION {levels[i].written : i \in h + 1 .. Len(levels)}
            IN  /\ {seen[i] : i \in DOMAIN seen}
                        = {[key |-> k, val |-> Last(levels).map[k]] : k \in written}
                /\ Len(seen) = Cardinality(written)

LocksSurvive ==
    \A k \in scene.keys : LET flags == GetFlags(db, k)
                          IN  AndPersistent(IF flags = Null THEN {} ELSE flags) = locked[k]

EntriesCounted ==
    LET entries == {k \in DOMAIN db.node : ~db.node[k].deleted}
        bytes(k) == Len(k) + IF db.node[k].vptr = Null THEN 0 ELSE Len(ValueOf(db, k))
    IN  ~db.vlogInvalid =>
            /\ db.len = Cardinality(entries)
            /\ db.size = MapThenSumSet(bytes, entries)

DirtyIfChanged ==
    ~db.vlogInvalid /\ (levels[1].written # {} \/ \E k \in Keys : locked[k] # {}) => db.dirty

BufferMatches ==
    ValuesAsWritten /\ StagesInspected /\ LocksSurvive /\ EntriesCounted /\ DirtyIfChanged

(* While its sequence check holds, a snapshot's batched iterator returns   *)
(* what the base of the buffer held when it was opened, whatever stages    *)
(* are written, rolled back or published between its batches: in order,    *)
(* nothing twice and, at its end, nothing missing.  Its getter agrees.     *)
SnapshotStable ==
    snap # Null /\ snap.valid /\ ~db.vlogInvalid =>
        /\ IsPrefix(snap.out, snap.expected)
        /\ ~SnapValid => snap.out = snap.expected
        /\ \A k \in scene.keys :
            SnapshotGet(db, snap.cp, k)
                = IF k \in DOMAIN levels[1].map THEN levels[1].map[k] ELSE Null
=============================================================================
