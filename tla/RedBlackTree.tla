---------------------------- MODULE RedBlackTree ----------------------------
(***************************************************************************)
(* The index of the red-black memory buffer                                *)
(* (internal/unionstore/rbt/rbt.go, rbt_iterator.go): a tree with parent   *)
(* pointers.  A node's address stands for its key; Null is the allocator's *)
(* null node, which is black and whose parent pointer is written by        *)
(* deletion.  What the code does on one side of a node it does mirrored on *)
(* the other.                                                              *)
(***************************************************************************)
EXTENDS ByteString

CONSTANT Keys

EmptyTree ==
    LET all(v) == [n \in Keys \cup {Null} |-> v]
    IN  [root |-> Null, nodes |-> {}, up |-> all(Null), left |-> all(Null),
         right |-> all(Null), red |-> all(FALSE)]

Mirror(t) == [t EXCEPT !.left = t.right, !.right = t.left]
setBlack(t, n) == [t EXCEPT !.red[n] = FALSE]
setRed(t, n) == [t EXCEPT !.red[n] = TRUE]

leftRotate(t, x) ==
    LET y == t.right[x]
        b == t.left[y]
        p == t.up[x]
    IN  [t EXCEPT
            !.root = IF p = Null THEN y ELSE @,
            !.up = [@ EXCEPT ![b] = IF b = Null THEN @ ELSE x, ![y] = p, ![x] = y],
            !.left = [@ EXCEPT ![p] = IF p # Null /\ @ = x THEN y ELSE @, ![y] = x],
            !.right = [@ EXCEPT ![p] = IF p # Null /\ t.left[p] # x THEN y ELSE @, ![x] = b]]

rightRotate(t, y) == Mirror(leftRotate(Mirror(t), y))

RECURSIVE Search(_, _, _, _)
(* The node with the key, or Null, and the last node on the way to it.     *)
Search(t, key, x, y) ==
    IF x = Null THEN [x |-> Null, y |-> y]
    ELSE IF key = x THEN [x |-> x, y |-> y]
    ELSE Search(t, key, IF Less(key, x) THEN t.left[x] ELSE t.right[x], x)

(* One turn of the loop after an insertion, x's parent being red and a     *)
(* left child.                                                             *)
Recolour(t, x) ==
    LET p == t.up[x]
        g == t.up[p]
        u == t.right[g]
        inner == x = t.right[p]
        x1 == IF inner THEN p ELSE x
        t1 == IF inner THEN leftRotate(t, p) ELSE t
        p1 == t1.up[x1]
        g1 == t1.up[p1]
    IN  IF t.red[u] THEN [t |-> setRed(setBlack(setBlack(t, p), u), g), x |-> g]
        ELSE [t |-> rightRotate(setRed(setBlack(t1, p1), g1), g1), x |-> x1]

RECURSIVE Balance(_, _)
Balance(t, x) ==
    IF x = t.root \/ ~t.red[t.up[x]] THEN setBlack(t, t.root)
    ELSE IF t.up[x] = t.left[t.up[t.up[x]]]
    THEN LET s == Recolour(t, x) IN Balance(s.t, s.x)
    ELSE LET s == Recolour(Mirror(t), x) IN Balance(Mirror(s.t), s.x)

(* traverse with insert: the tree with a node for the key.                 *)
traverse(t, key) ==
    LET s == Search(t, key, t.root, Null)
        t1 == [t EXCEPT !.nodes = @ \cup {key}, !.up[key] = s.y, !.left[key] = Null,
                        !.right[key] = Null, !.red[key] = TRUE,
                        !.root = IF s.y = Null THEN key ELSE @]
        t2 == IF s.y = Null THEN t1
              ELSE IF Less(key, s.y) THEN [t1 EXCEPT !.left[s.y] = key]
              ELSE [t1 EXCEPT !.right[s.y] = key]
    IN  IF s.x # Null THEN t ELSE Balance(t2, key)

-----------------------------------------------------------------------------
RECURSIVE Leftmost(_, _), Climb(_, _, _)
Leftmost(t, y) == IF y = Null \/ t.left[y] = Null THEN y ELSE Leftmost(t, t.left[y])
Rightmost(t, y) == Leftmost(Mirror(t), y)
Climb(t, x, y) == IF y # Null /\ x = t.right[y] THEN Climb(t, y, t.up[y]) ELSE y

successor(t, x) ==
    IF t.right[x] # Null THEN Leftmost(t, t.right[x]) ELSE Climb(t, x, t.up[x])
predecessor(t, x) == successor(Mirror(t), x)

-----------------------------------------------------------------------------
(* Deletion: y, the node with at most one child, leaves its place; if it   *)
(* is not z it takes z's.                                                  *)

Relink(t, old, new) ==
    IF t.up[old] = Null THEN [t EXCEPT !.root = new]
    ELSE IF old = t.left[t.up[old]] THEN [t EXCEPT !.left[t.up[old]] = new]
    ELSE [t EXCEPT !.right[t.up[old]] = new]

replaceNode(t, old, new) ==
    LET t1 == Relink(t, old, new)
    IN  [t1 EXCEPT !.up = [@ EXCEPT ![new] = t.up[old], ![t.left[old]] = new,
                                    ![t.right[old]] = new],
                   !.left[new] = t.left[old], !.right[new] = t.right[old],
                   !.red[new] = t.red[old]]

(* One turn of deleteNodeFix, x being a left child: its sibling is made    *)
(* black, then the nephew on the far side red, then the shortage is solved *)
(* by a rotation, or moved up if both nephews are black.                   *)
BlackSibling(t, x) ==
    LET p == t.up[x]
    IN  IF t.red[t.right[p]] THEN leftRotate(setRed(setBlack(t, t.right[p]), p), p) ELSE t

RedNephew(t, w) ==
    IF t.red[t.right[w]] THEN t ELSE rightRotate(setRed(setBlack(t, t.left[w]), w), w)

Settle(t, p) ==
    LET w == t.right[p]
    IN  leftRotate([t EXCEPT !.red = [@ EXCEPT ![w] = t.red[p], ![p] = FALSE,
                                               ![t.right[w]] = FALSE]], p)

Rebalance(t, x) ==
    LET p == t.up[x]
        w == t.right[p]
    IN  IF ~t.red[t.right[w]] /\ ~t.red[t.left[w]] THEN [t |-> setRed(t, w), x |-> p]
        ELSE LET t1 == Settle(RedNephew(t, w), p) IN [t |-> t1, x |-> t1.root]

RECURSIVE deleteNodeFix(_, _)
deleteNodeFix(t, x) ==
    IF x = t.root \/ t.red[x] THEN setBlack(t, x)
    ELSE IF x = t.left[t.up[x]]
    THEN LET s == Rebalance(BlackSibling(t, x), x) IN deleteNodeFix(s.t, s.x)
    ELSE LET s == Rebalance(BlackSibling(Mirror(t), x), x) IN deleteNodeFix(Mirror(s.t), s.x)

(* Takes y out, whose only child is x.                                     *)
Unlink(t, y, x) == Relink([t EXCEPT !.up[x] = t.up[y]], y, x)

freeNode(t, z) ==
    [t EXCEPT !.nodes = @ \ {z}, !.up[z] = Null, !.left[z] = Null, !.right[z] = Null,
              !.red[z] = FALSE]

Splice(t, z, y, x) ==
    LET t1 == IF y = z THEN Unlink(t, y, x) ELSE replaceNode(Unlink(t, y, x), z, y)
    IN  freeNode(IF t.red[y] THEN t1 ELSE deleteNodeFix(t1, x), z)

deleteNode(t, z) ==
    LET y == IF t.left[z] = Null \/ t.right[z] = Null THEN z ELSE successor(t, z)
    IN  Splice(t, z, y, IF t.left[y] # Null THEN t.left[y] ELSE t.right[y])

-----------------------------------------------------------------------------
(* The iterator over the nodes in shown.  A bound is a sequence, <<>> for  *)
(* nil, which is how callers leave a side open; a bound that is empty and  *)
(* not nil, for which Valid differs from the radix tree, is not an input.  *)

RECURSIVE Walk(_, _, _), Collect(_, _, _, _, _)

(* The last node compared with the key on the way down.                    *)
Walk(t, key, x) ==
    IF key = x THEN x
    ELSE LET next == IF Less(key, x) THEN t.left[x] ELSE t.right[x]
         IN  IF next = Null THEN x ELSE Walk(t, key, next)

seekRBT(t, key) ==
    LET y == IF t.root = Null THEN Null ELSE Walk(t, key, t.root)
    IN  IF y # Null /\ Less(y, key) THEN successor(t, y) ELSE y

seekReverse(t, key) ==
    LET y == IF t.root = Null THEN Null ELSE Walk(t, key, t.root)
    IN  IF y # Null /\ ~Less(y, key) THEN predecessor(t, y) ELSE y

Collect(t, n, shown, end, reverse) ==
    IF n = Null \/ (IF reverse THEN end # <<>> /\ Less(n, end)
                               ELSE end # <<>> /\ ~Less(n, end)) THEN <<>>
    ELSE (IF n \in shown THEN <<n>> ELSE <<>>)
         \o Collect(t, IF reverse THEN predecessor(t, n) ELSE successor(t, n), shown, end, reverse)

RBTIter(t, shown, lower, upper, reverse) ==
    LET first == IF reverse THEN IF upper = <<>> THEN Rightmost(t, t.root)
                                 ELSE seekReverse(t, upper)
                 ELSE IF lower = <<>> THEN Leftmost(t, t.root) ELSE seekRBT(t, lower)
    IN  Collect(t, first, shown, IF reverse THEN lower ELSE upper, reverse)

-----------------------------------------------------------------------------
RECURSIVE BlackHeights(_, _)
(* The numbers of black nodes on the paths below a node.                   *)
BlackHeights(t, n) ==
    IF n = Null THEN {0}
    ELSE {h + (IF t.red[n] THEN 0 ELSE 1) :
              h \in BlackHeights(t, t.left[n]) \cup BlackHeights(t, t.right[n])}

(* The tree is a red-black search tree with consistent parent pointers.    *)
RedBlack(t) ==
    /\ ~t.red[t.root] /\ ~t.red[Null]
    /\ BlackHeights(t, t.root) \in {{h} : h \in 0 .. 5}
    /\ \A n \in t.nodes :
        /\ t.red[n] => ~t.red[t.left[n]] /\ ~t.red[t.right[n]]
        /\ t.left[n] # Null => t.up[t.left[n]] = n /\ Less(t.left[n], n)
        /\ t.right[n] # Null => t.up[t.right[n]] = n /\ Less(n, t.right[n])
=============================================================================
