----------------------------- MODULE RadixTree ------------------------------
(***************************************************************************)
(* The index of the radix-tree memory buffer (internal/unionstore/art/     *)
(* art.go, art_node.go, art_iterator.go).  A node holds the length of the  *)
(* prefix shared by the keys below it, the first maxInNodePrefixLen bytes  *)
(* of that prefix, the leaf whose key ends at the node and a child for     *)
(* each next byte.  A leaf's address stands for its key.  A node4 and a    *)
(* node16 index their children by position, a node48 and a node256 by      *)
(* byte.                                                                   *)
(***************************************************************************)
EXTENDS ByteString

CONSTANTS maxInNodePrefixLen, node4cap, node16cap, node48cap, node256cap

inplaceIndex == -1
notExistIndex == -2

Leaf(key) == [kind |-> "leaf", key |-> key]
newNode4 ==
    [kind |-> "node4", prefixLen |-> 0, prefix |-> <<>>, inplaceLeaf |-> Null, child |-> <<>>]
isLeaf(n) == n.kind = "leaf"
nodeNum(n) == Cardinality(DOMAIN n.child)

charAt(key, pos) == IF pos < Len(key) THEN key[pos + 1] ELSE 0
valid(key, pos) == pos < Len(key)

setPrefix(n, key, len) ==
    [n EXCEPT !.prefixLen = len, !.prefix = Prefix(key, MinOf(len, maxInNodePrefixLen))]

(* The first byte >= start, and the last one <= start, with a child.       *)
nextPresentIdx(n, start) ==
    LET above == {c \in DOMAIN n.child : c >= start}
    IN  IF above = {} THEN node256cap ELSE CHOOSE c \in above : \A d \in above : c <= d
prevPresentIdx(n, start) ==
    LET below == {c \in DOMAIN n.child : c <= start}
    IN  IF below = {} THEN inplaceIndex ELSE CHOOSE c \in below : \A d \in below : d <= c

RECURSIVE minimumLeafNode(_)
minimumLeafNode(n) ==
    IF isLeaf(n) THEN n
    ELSE IF n.inplaceLeaf # Null THEN n.inplaceLeaf
    ELSE minimumLeafNode(n.child[nextPresentIdx(n, 0)])

match(n, key, depth) == longestCommonPrefix(Drop(key, depth), n.prefix, 0)

(* Compares only the bytes of the prefix that are in the node.             *)
matchDeep_Shallow(n, key, depth) ==
    LET idx == match(n, key, depth)
    IN  IF idx < maxInNodePrefixLen THEN idx ELSE n.prefixLen

matchDeep(n, key, depth) ==
    LET idx == match(n, key, depth)
    IN  IF idx < maxInNodePrefixLen \/ n.prefixLen <= maxInNodePrefixLen THEN idx
        ELSE longestCommonPrefix(minimumLeafNode(n).key, key, depth + maxInNodePrefixLen)
             + maxInNodePrefixLen

-----------------------------------------------------------------------------
ByPosition(n) == n.kind \in {"node4", "node16"}
PositionOf(n, c) == Cardinality({d \in DOMAIN n.child : d < c})

findChild(n, c, inplace) ==
    IF inplace THEN [idx |-> inplaceIndex, node |-> n.inplaceLeaf]
    ELSE IF c \notin DOMAIN n.child THEN [idx |-> notExistIndex, node |-> Null]
    ELSE [idx |-> IF ByPosition(n) THEN PositionOf(n, c) ELSE c, node |-> n.child[c]]

ChildAt(n, idx) ==
    IF ByPosition(n) THEN n.child[CHOOSE c \in DOMAIN n.child : PositionOf(n, c) = idx]
    ELSE n.child[idx]

(* A full node becomes one of the next kind.                               *)
grow(n) ==
    LET full(cap) == nodeNum(n) >= cap
    IN  CASE n.kind = "node4" /\ full(node4cap) -> [n EXCEPT !.kind = "node16"]
          [] n.kind = "node16" /\ full(node16cap) -> [n EXCEPT !.kind = "node48"]
          [] n.kind = "node48" /\ full(node48cap) -> [n EXCEPT !.kind = "node256"]
          [] OTHER -> n

replaceChild(n, c, node) == [n EXCEPT !.child[c] = node]

addChild(n, c, inplace, node) ==
    IF inplace THEN [n EXCEPT !.inplaceLeaf = node]
    ELSE [grow(n) EXCEPT
            !.child = [d \in DOMAIN @ \cup {c} |-> IF d = c THEN node ELSE @[d]]]

(* Adds the key's leaf at the depth: in place if the key ends there.       *)
AddLeaf(n, key, depth) == addChild(n, charAt(key, depth), ~valid(key, depth), Leaf(key))

expandLeafIfNeeded(leaf, key, depth) ==
    LET lcp == longestCommonPrefix(leaf.key, key, depth)
        n == setPrefix(newNode4, Drop(key, depth), lcp)
    IN  IF Drop(leaf.key, depth - 1) = Drop(key, depth - 1) THEN leaf
        ELSE AddLeaf(AddLeaf(n, leaf.key, depth + lcp), key, depth + lcp)

(* A node4 with the matching part of the prefix above the old node.        *)
expandNode(n, key, depth, mismatchIdx) ==
    LET prefix == IF n.prefixLen <= maxInNodePrefixLen THEN n.prefix
                  ELSE SubSeq(minimumLeafNode(n).key, depth + 1, depth + n.prefixLen)
        parent == setPrefix(newNode4, Drop(key, depth), mismatchIdx)
        old == setPrefix(n, Drop(prefix, mismatchIdx + 1), n.prefixLen - mismatchIdx - 1)
    IN  AddLeaf(addChild(parent, prefix[mismatchIdx + 1], FALSE, old), key, depth + mismatchIdx)

RECURSIVE InsertFrom(_, _, _)
(* The loop of recursiveInsert below a node.                               *)
InsertFrom(n, key, depth) ==
    IF isLeaf(n) THEN expandLeafIfNeeded(n, key, depth)
    ELSE LET mismatchIdx == IF n.prefixLen > 0 THEN matchDeep(n, key, depth) ELSE 0
             d == depth + n.prefixLen
             next == findChild(n, charAt(key, d), ~valid(key, d)).node
         IN  IF mismatchIdx < n.prefixLen THEN expandNode(n, key, depth, mismatchIdx)
             ELSE IF next = Null THEN AddLeaf(n, key, d)
             ELSE IF ~valid(key, d) THEN n
             ELSE replaceChild(n, charAt(key, d), InsertFrom(next, key, d + 1))

recursiveInsert(root, key) == InsertFrom(IF root = Null THEN newNode4 ELSE root, key, 0)

RECURSIVE SearchFrom(_, _, _)
SearchFrom(n, key, depth) ==
    IF n = Null THEN Null
    ELSE IF isLeaf(n) THEN IF n.key = key THEN key ELSE Null
    ELSE LET d == depth + n.prefixLen
         IN  IF n.prefixLen > 0 /\ match(n, key, depth) < MinOf(n.prefixLen, maxInNodePrefixLen)
             THEN Null
             ELSE SearchFrom(findChild(n, charAt(key, d), ~valid(key, d)).node, key, d + 1)

(* The leaf of the key, or Null.                                           *)
search(root, key) == SearchFrom(root, key, 0)

-----------------------------------------------------------------------------
(* baseIter: the stack of nodes being visited and the index in each.       *)

seekToFirst(root, reverse) ==
    [nodes |-> <<root>>, idxes |-> <<IF reverse THEN node256cap ELSE inplaceIndex>>]

seekToIdx(n, c) ==
    IF ByPosition(n) THEN PositionOf(n, c) ELSE nextPresentIdx(n, c)

RECURSIVE SeekFrom(_, _, _, _)
SeekFrom(it, n, key, depth) ==
    IF isLeaf(n)
    THEN IF valid(key, depth) /\ Less(n.key, key)
         THEN [it EXCEPT !.idxes[Len(it.idxes)] = @ + 1] ELSE it
    ELSE LET mismatchIdx == IF n.prefixLen > 0 THEN matchDeep(n, key, depth) ELSE 0
             prefix == IF mismatchIdx < maxInNodePrefixLen THEN n.prefix
                       ELSE Drop(minimumLeafNode(n).key, depth)
             before == mismatchIdx + depth = Len(key)
                       \/ key[depth + mismatchIdx + 1] < prefix[mismatchIdx + 1]
             d == depth + n.prefixLen
             found == findChild(n, charAt(key, d), ~valid(key, d))
             At(idx) == [nodes |-> Append(it.nodes, n), idxes |-> Append(it.idxes, idx)]
         IN  IF mismatchIdx < n.prefixLen
             THEN At(IF before THEN inplaceIndex ELSE node256cap)
             ELSE IF found.node = Null THEN At(seekToIdx(n, charAt(key, d)))
             ELSE SeekFrom(At(found.idx), found.node, key, d + 1)

seek(root, key) == SeekFrom([nodes |-> <<>>, idxes |-> <<>>], root, key, 0)

(* -1, 0 or 1: whether the first path is before, at or after the second.   *)
compare(it, other) ==
    IF it.idxes = other.idxes THEN 0 ELSE IF Less(it.idxes, other.idxes) THEN -1 ELSE 1

Pop(it) == [nodes |-> Front(it.nodes), idxes |-> Front(it.idxes)]
Push(it, n, idx) == [nodes |-> Append(it.nodes, n), idxes |-> Append(it.idxes, idx)]
SetIdx(it, idx) == [it EXCEPT !.idxes[Len(it.idxes)] = idx]

RECURSIVE next(_), prev(_)
(* The next leaf, or Null, and the iterator after it.                      *)
next(it) ==
    LET n == Last(it.nodes)
        fresh == Last(it.idxes) = inplaceIndex
        start == IF fresh THEN 0 ELSE Last(it.idxes)
        idx == IF ByPosition(n) THEN start ELSE nextPresentIdx(n, start)
        drained == idx >= IF ByPosition(n) THEN nodeNum(n) ELSE node256cap
        child == ChildAt(n, idx)
        up == Pop(it)
    IN  IF fresh /\ n.inplaceLeaf # Null THEN [leaf |-> n.inplaceLeaf, it |-> SetIdx(it, 0)]
        ELSE IF drained
        THEN IF up.nodes = <<>> THEN [leaf |-> Null, it |-> up]
             ELSE next(SetIdx(up, Last(up.idxes) + 1))
        ELSE IF isLeaf(child) THEN [leaf |-> child, it |-> SetIdx(it, idx + 1)]
        ELSE next(Push(SetIdx(it, idx), child, inplaceIndex))

prev(it) ==
    LET n == Last(it.nodes)
        before == Last(it.idxes) - 1
        idx == IF ByPosition(n) THEN MinOf(before, nodeNum(n) - 1)
               ELSE IF before >= 0 THEN prevPresentIdx(n, before) ELSE before
        child == ChildAt(n, idx)
        up == Pop(it)
        leave == IF up.nodes = <<>> THEN [leaf |-> Null, it |-> up] ELSE prev(up)
    IN  IF before = notExistIndex THEN leave
        ELSE IF idx = inplaceIndex
        THEN IF n.inplaceLeaf = Null THEN leave
             ELSE [leaf |-> n.inplaceLeaf, it |-> SetIdx(it, idx)]
        ELSE IF isLeaf(child) THEN [leaf |-> child, it |-> SetIdx(it, idx)]
        ELSE prev(Push(SetIdx(it, idx), child, node256cap))

-----------------------------------------------------------------------------
(* The keys in shown that an iterator over a range returns, the bounds     *)
(* being empty for none.                                                   *)

RECURSIVE NextUntil(_, _, _, _)
NextUntil(it, endAddr, shown, reverse) ==
    LET s == IF reverse THEN prev(it) ELSE next(it)
    IN  IF s.leaf = Null THEN <<>>
        ELSE (IF s.leaf.key \in shown THEN <<s.leaf.key>> ELSE <<>>)
             \o (IF s.leaf.key = endAddr THEN <<>> ELSE NextUntil(s.it, endAddr, shown, reverse))

ARTIter(root, shown, lower, upper, reverse) ==
    LET startKey == IF reverse THEN upper ELSE lower
        endKey == IF reverse THEN lower ELSE upper
        inner == IF startKey = <<>> THEN seekToFirst(root, reverse) ELSE seek(root, startKey)
        helper == seek(root, endKey)
        end == IF reverse THEN next(helper) ELSE prev(helper)
        cmp == compare(inner, end.it)
    IN  IF root = Null \/ (lower # <<>> /\ upper # <<>> /\ ~Less(lower, upper)) THEN <<>>
        ELSE IF endKey = <<>> THEN NextUntil(inner, Null, shown, reverse)
        ELSE IF compare(inner, helper) = 0 THEN <<>>
        ELSE IF cmp # 0 /\ ((cmp < 0) = reverse \/ end.it.idxes = <<>>) THEN <<>>
        ELSE NextUntil(inner, end.leaf.key, shown, reverse)

-----------------------------------------------------------------------------
RECURSIVE RadixSound(_, _, _)
(* Below a node reached by the bytes of path the leaves are in order, the  *)
(* prefixes are those of the keys and every inner node but the root has    *)
(* two entries.                                                            *)
RadixSound(n, path, root) ==
    IF n = Null THEN TRUE
    ELSE IF isLeaf(n) THEN IsPrefix(path, n.key)
    ELSE LET least == minimumLeafNode(n).key
             below == Prefix(least, Len(path) + n.prefixLen)
         IN  /\ Len(least) >= Len(path) + n.prefixLen
             /\ nodeNum(n) + (IF n.inplaceLeaf = Null THEN 0 ELSE 1) >= IF root THEN 1 ELSE 2
             /\ n.prefix = SubSeq(below, Len(path) + 1,
                                  Len(path) + MinOf(n.prefixLen, maxInNodePrefixLen))
             /\ n.inplaceLeaf # Null => n.inplaceLeaf.key = below
             /\ IsPrefix(path, below)
             /\ \A c \in DOMAIN n.child : RadixSound(n.child[c], Append(below, c), FALSE)
=============================================================================
