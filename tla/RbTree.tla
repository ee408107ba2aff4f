------------------------------- MODULE RbTree -------------------------------
(***************************************************************************)
(* base/rbtree/rbtree.cpp: the red-black tree behind the timer queue, with *)
(* parent pointers and a sentinel "nil".  The tree is used by one thread,  *)
(* so an operation is one step; its loops are recursive operators on the   *)
(* heap.                                                                   *)
(*                                                                         *)
(* The code has every case twice, for the left and for the right side.     *)
(* Here a case has a side as its parameter, except where the two copies    *)
(* differ (the last case of rbtree_del_fixup).                             *)
(***************************************************************************)
EXTENDS Integers, FiniteSets, FiniteSetsExt, TLC

CONSTANTS
    Keys        \* the keys that occur; also the addresses malloc may return

ASSUME KeysAssumption == Keys \subseteq Nat \ {0}

VARIABLES
    t,          \* the heap of the tree: its root and the fields of its nodes
    used,       \* the addresses between their malloc and their free
    crashed,    \* the process died of dereferencing NULL
    mirrored    \* history: lines 287-291 were executed

vars == <<t, used, crashed, mirrored>>

Nil == 0        \* tree->nil
NULL == -1
Red == "red"
Black == "black"
Nodes == Keys   \* addresses
Sides == {"left", "right"}

Other(side) == IF side = "left" THEN "right" ELSE "left"

\* rbtree_create.  The fields of a node that is not in use mean nothing.
Create ==
    LET fields(v, w) == [n \in Nodes \cup {Nil} |-> IF n = Nil THEN v ELSE w] IN
    [root |-> Nil,
     left |-> fields(NULL, Nil), right |-> fields(NULL, Nil),
     parent |-> fields(NULL, Nil), col |-> fields(Black, Black),
     key |-> fields(0, 0), val |-> fields(0, 0)]

\* The pointer to x in its parent, or the root, becomes y.
Replace(h, x, y) ==
    LET p == h.parent[x] IN
    IF p = Nil THEN [h EXCEPT !.root = y]
    ELSE IF x = h.left[p] THEN [h EXCEPT !.left[p] = y]
    ELSE [h EXCEPT !.right[p] = y]

\* Mutant: the inner subtree keeps its old parent pointer.
MutRotate(h, side, x) ==
    LET y == h[Other(side)][x]
        h1 == [h EXCEPT ![Other(side)][x] = h[side][y]]
        h2 == Replace([h1 EXCEPT !.parent[y] = h1.parent[x]], x, y)
    IN IF y = Nil THEN h
       ELSE [h2 EXCEPT !.parent[x] = y, ![side][y] = x]

\* left_rotate for side = "left", right_rotate for side = "right": the child y
\* of x on the other side takes the place of x, and x becomes its child.
Rotate(h, side, x) ==
    LET y == h[Other(side)][x]
        inner == h[side][y]
        h1 == [h EXCEPT ![Other(side)][x] = inner,
                        !.parent = IF inner # Nil THEN (inner :> x) @@ @ ELSE @]
        h2 == Replace([h1 EXCEPT !.parent[y] = h1.parent[x]], x, y)
    IN IF y = Nil THEN h
       ELSE [h2 EXCEPT !.parent[x] = y, ![side][y] = x]

RECURSIVE InsertFixup(_, _)
InsertFixup(h, n) ==
    LET p == h.parent[n]
        g == h.parent[p]
        side == IF p = h.left[g] THEN "left" ELSE "right"
        uncle == h[Other(side)][g]
        inner == n = h[Other(side)][p]
        h1 == IF inner THEN Rotate(h, side, p) ELSE h
        n1 == IF inner THEN p ELSE n
        p1 == h1.parent[n1]
        g1 == h1.parent[p1]
    IN CASE h.col[p] = Black -> [h EXCEPT !.col[h.root] = Black]
         [] h.col[p] = Red /\ h.col[uncle] = Red ->
                InsertFixup([h EXCEPT !.col[p] = Black, !.col[uncle] = Black,
                                      !.col[g] = Red], g)
         [] OTHER ->
                InsertFixup(Rotate([h1 EXCEPT !.col[p1] = Black, !.col[g1] = Red],
                                   Other(side), g1), n1)

\* The node under which k is inserted: the last one on the search path.
RECURSIVE SearchFrom(_, _, _)
SearchFrom(h, x, k) ==
    LET child == IF k < h.key[x] THEN h.left[x] ELSE h.right[x] IN
    IF x = Nil \/ h.key[x] = k \/ child = Nil THEN x
    ELSE SearchFrom(h, child, k)

\* rbtree_insert of a key that is not in the tree, at the new node n.
InsertNode(h, n, k) ==
    LET p == SearchFrom(h, h.root, k)
        h1 == [h EXCEPT !.key[n] = k, !.val[n] = k, !.parent[n] = p,
                        !.left[n] = Nil, !.right[n] = Nil, !.col[n] = Red]
        h2 == IF p = Nil THEN [h1 EXCEPT !.root = n]
              ELSE IF k < h.key[p] THEN [h1 EXCEPT !.left[p] = n]
              ELSE [h1 EXCEPT !.right[p] = n]
    IN InsertFixup(h2, n)

\* The end of the path of "side" children from x: rbtree_min, rbtree_max and
\* the loops of rbtree_successor and rbtree_delete.
RECURSIVE Outermost(_, _, _)
Outermost(h, side, x) ==
    IF x = Nil \/ h[side][x] = Nil THEN x ELSE Outermost(h, side, h[side][x])

TreeMin(h) == Outermost(h, "left", h.root)
TreeMax(h) == Outermost(h, "right", h.root)

\* rbtree_successor; the climb stops at the root whatever side it comes from.
RECURSIVE Climb(_, _, _)
Climb(h, x, p) ==
    IF p # h.root /\ h.right[p] = x THEN Climb(h, p, h.parent[p]) ELSE p

\* Mutant: the parent is taken whatever side n is on.
MutSuccessor(h, n) ==
    IF h.right[n] # Nil THEN Outermost(h, "left", h.right[n]) ELSE h.parent[n]

Successor(h, n) ==
    IF h.right[n] # Nil THEN Outermost(h, "left", h.right[n])
    ELSE Climb(h, n, h.parent[n])

\* rbtree_del_fixup.  The result carries what the history variables record.
\* A sibling w that is nil has NULL children, whose colour is read next.
Fixed(h) == [heap |-> h, crash |-> FALSE, mirror |-> FALSE]

RECURSIVE DelFixup(_, _)
DelFixup(h, x) ==
    LET p == h.parent[x]
        side == IF x = h.left[p] THEN "left" ELSE "right"
        sibling == h[Other(side)][p]
        h1 == IF h.col[sibling] = Red                                \* case 1
              THEN Rotate([h EXCEPT !.col[sibling] = Black, !.col[p] = Red],
                          side, p)
              ELSE h
        w == h1[Other(side)][p]
        near == h1[side][w]
        far == h1[Other(side)][w]
        h2 == IF h1.col[far] = Black                                 \* case 3
              THEN Rotate([h1 EXCEPT !.col[near] = Black, !.col[w] = Red],
                          Other(side), w)
              ELSE h1
        v == h2[Other(side)][p]
        h3 == Rotate([h2 EXCEPT !.col[v] = h2.col[p],                \* case 4
                                !.col[p] = Black,
                                !.col[h2.right[v]] = Black], side, p)
    IN IF x = h.root \/ h.col[x] = Red THEN Fixed([h EXCEPT !.col[x] = Black])
       ELSE IF w = Nil THEN [Fixed(h1) EXCEPT !.crash = TRUE]
       ELSE IF h1.col[near] = Black /\ h1.col[far] = Black           \* case 2
            THEN DelFixup([h1 EXCEPT !.col[w] = Red], p)
       ELSE [Fixed([h3 EXCEPT !.col[h3.root] = Black])
                EXCEPT !.mirror = (side = "right")]

\* Mutant: the predecessor takes the place of z.
MutVictim(h, z) ==
    IF h.left[z] # Nil /\ h.right[z] # Nil
    THEN Outermost(h, "right", h.left[z]) ELSE z

\* The node that rbtree_delete(t, z) unlinks and frees: z itself or, when z has
\* two children, the successor whose key and value were copied into z.
Victim(h, z) ==
    IF h.left[z] # Nil /\ h.right[z] # Nil
    THEN Outermost(h, "left", h.right[z]) ELSE z

\* Mutant: no repair after the deletion.
MutDeleteNode(h, z) ==
    LET y == Victim(h, z)
        x == IF h.left[y] # Nil THEN h.left[y] ELSE h.right[y]
        h1 == [h EXCEPT !.key[z] = h.key[y], !.val[z] = h.val[y]]
    IN Fixed([Replace(h1, y, x) EXCEPT !.parent[x] = h1.parent[y]])

DeleteNode(h, z) ==
    LET y == Victim(h, z)
        x == IF h.left[y] # Nil THEN h.left[y] ELSE h.right[y]
        h1 == [h EXCEPT !.key[z] = h.key[y], !.val[z] = h.val[y]]
        h2 == [Replace(h1, y, x) EXCEPT !.parent[x] = h1.parent[y]]
    IN IF h.col[y] = Black THEN DelFixup(h2, x) ELSE Fixed(h2)

\* free: the fields of the node mean nothing any more, nor does the parent of
\* the sentinel, which every deletion sets before it reads it.
Free(h, y) ==
    [f \in DOMAIN h |->
        IF f = "root" THEN h.root ELSE [h[f] EXCEPT ![y] = Create[f][y],
                                                    ![Nil] = Create[f][Nil]]]

-----------------------------------------------------------------------------
Init ==
    /\ t = Create
    /\ used = {}
    /\ crashed = FALSE
    /\ mirrored = FALSE

\* malloc: the address named after the key, or the least free one.
Malloc(k) == IF k \notin used THEN k ELSE Min(Nodes \ used)

Insert(k) ==
    /\ ~crashed
    /\ \A n \in used : t.key[n] # k
    /\ LET n == Malloc(k) IN
        /\ t' = InsertNode(t, n, k)
        /\ used' = used \cup {n}
    /\ UNCHANGED <<crashed, mirrored>>

\* "key is exist!": the caller gets a node that is not in the tree, leaked.
InsertExisting(k) ==
    /\ ~crashed
    /\ t.key[SearchFrom(t, t.root, k)] = k
    /\ UNCHANGED vars

Delete(z) ==
    /\ ~crashed
    /\ z \in used
    /\ LET r == DeleteNode(t, z)
           y == Victim(t, z) IN
        /\ t' = Free(r.heap, y)
        /\ used' = used \ {y}
        /\ crashed' = r.crash
        /\ mirrored' = (mirrored \/ r.mirror)

Next == \E k \in Keys : Insert(k) \/ InsertExisting(k) \/ Delete(k)

Spec == Init /\ [][Next]_vars

-----------------------------------------------------------------------------
RECURSIVE Subtree(_, _)
Subtree(h, x) ==
    IF x = Nil THEN {}
    ELSE {x} \cup Subtree(h, h.left[x]) \cup Subtree(h, h.right[x])

\* The black nodes on the paths from x to a leaf: one number if they agree.
RECURSIVE BlackHeights(_, _)
BlackHeights(h, x) ==
    IF x = Nil THEN {1}
    ELSE {b + (IF h.col[x] = Black THEN 1 ELSE 0) :
            b \in BlackHeights(h, h.left[x]) \cup BlackHeights(h, h.right[x])}

\* The tree is a red-black tree, as its name says: a black root, no red node
\* with a red child, and the same number of black nodes on every path.  The
\* code breaks it, since line 289 colours the wrong child.
RedBlack ==
    /\ t.col[t.root] = Black
    /\ \A n \in used : t.col[n] = Red => t.col[t.left[n]] = Black
                                         /\ t.col[t.right[n]] = Black
    /\ Cardinality(BlackHeights(t, t.root)) = 1

\* Until the mirrored last case of rbtree_del_fixup is executed, every
\* insertion and deletion leaves a red-black tree, and no repair meets the
\* sentinel where it needs a sibling (the FIXME of lines 251 and 276).
BalancedUntilMirrored == ~mirrored => RedBlack /\ ~crashed

\* However often the tree was rebalanced, rightly or wrongly, it is a search
\* tree over exactly the nodes that were allocated and not freed, every child
\* points back to its parent and every value is still with its key.
SearchTree ==
    ~crashed =>
        /\ Subtree(t, t.root) = used
        /\ t.root # Nil => t.parent[t.root] = Nil
        /\ \A n \in used :
            /\ t.val[n] = t.key[n]
            /\ \A s \in Sides : t[s][n] # Nil => t.parent[t[s][n]] = n
            /\ \A m \in Subtree(t, t.left[n]) : t.key[m] < t.key[n]
            /\ \A m \in Subtree(t, t.right[n]) : t.key[m] > t.key[n]

\* rbtree_min and rbtree_max find the least and the greatest key, and
\* rbtree_successor the next one; only the greatest node has an answer that is
\* not a successor, the root (or the sentinel, when it is the root itself).
QueriesAnswer ==
    ~crashed /\ used # {} =>
        /\ t.key[TreeMin(t)] = Min({t.key[n] : n \in used})
        /\ t.key[TreeMax(t)] = Max({t.key[n] : n \in used})
        /\ \A n \in used :
            LET later == {t.key[m] : m \in {o \in used : t.key[o] > t.key[n]}} IN
            IF later # {} THEN t.key[Successor(t, n)] = Min(later)
            ELSE Successor(t, n) = IF n = t.root THEN Nil ELSE t.root

\* The tree is the ordered map that the timer queue relies on, entries that
\* move between nodes included.
Entries == [n \in used |-> t.key[n]]
Map == INSTANCE OrderedMap WITH entry <- Entries
ImplementsOrderedMap == Map!Spec

=============================================================================
