------------------------------ MODULE KfRBTree ------------------------------
(***************************************************************************)
(* The C red-black tree of kernel/kf/rbtree.c, in which the caller embeds  *)
(* the nodes and gives the comparison and the function that frees a node.  *)
(* A node is its key.  The stores of a call are not told apart: nothing    *)
(* walks such a tree from an interrupt.                                    *)
(***************************************************************************)
EXTENDS Integers, Sequences, SequencesExt, FiniteSets

CONSTANTS Node,    \* a set of integers, the keys
          NULL,
          SizeMod  \* one more than the largest size_t

VARIABLES tree,    \* root, node_num, and p, l, r and color of every node
          present, \* the nodes that were inserted and not removed
          usable   \* kf_rbtree_free was not called since kf_rbtree_init

vars == <<tree, present, usable>>

NoLink == [n \in Node |-> NULL]

\* A node that the caller has just zeroed.
Init == /\ tree = [root |-> NULL, node_num |-> 0, p |-> NoLink, l |-> NoLink, r |-> NoLink,
                   color |-> [n \in Node |-> "Black"]]
        /\ present = {}
        /\ usable = TRUE

-----------------------------------------------------------------------------
(* Searches and walks in a tree t.                                         *)

kf_rbtree_isred(t, n) == n # NULL /\ t.color[n] = "Red"

Other(a) == IF a = "l" THEN "r" ELSE "l"

\* kf_rbtree_minnode (a = "l") and kf_rbtree_maxnode (a = "r").
RECURSIVE kf_rbtree_outermost(_, _, _)
kf_rbtree_outermost(t, n, a) == IF t[a][n] = NULL THEN n ELSE kf_rbtree_outermost(t, t[a][n], a)

RECURSIVE ClimbRight(_, _)
ClimbRight(t, n) == IF t.p[n] # NULL /\ n = t.r[t.p[n]] THEN ClimbRight(t, t.p[n]) ELSE t.p[n]

kf_rbtree_next(t, n) == IF n = NULL THEN NULL
                        ELSE IF t.r[n] # NULL THEN kf_rbtree_outermost(t, t.r[n], "l")
                        ELSE ClimbRight(t, n)

RECURSIVE FindFrom(_, _, _)
FindFrom(t, i, k) == IF i = NULL \/ i = k THEN i ELSE FindFrom(t, IF i < k THEN t.r[i] ELSE t.l[i], k)

kf_rbtree_find(t, k) == FindFrom(t, t.root, k)

\* The parent and the side of the free place for k; no side when k is there.
RECURSIVE SlotFrom(_, _, _, _)
SlotFrom(t, i, k, slot) ==
    IF i = NULL THEN slot
    ELSE IF i = k THEN [parent |-> i, side |-> NULL]
    ELSE IF i < k THEN SlotFrom(t, t.r[i], k, [parent |-> i, side |-> "r"])
    ELSE SlotFrom(t, t.l[i], k, [parent |-> i, side |-> "l"])

kf_rbtree_find_slot(t, k) == SlotFrom(t, t.root, k, [parent |-> NULL, side |-> "root"])

RECURSIVE MaxLteqFrom(_, _, _, _)
MaxLteqFrom(t, i, k, best) ==
    IF i = NULL THEN best
    ELSE IF i < k THEN MaxLteqFrom(t, t.r[i], k, i)
    ELSE IF i > k THEN MaxLteqFrom(t, t.l[i], k, best)
    ELSE i

kf_rbtree_find_max_lteq_node(t, k) == MaxLteqFrom(t, t.root, k, NULL)

-----------------------------------------------------------------------------
(* Insertion and removal.                                                  *)

\* new takes the place of old under q.
Replace(t, q, old, new) ==
    IF q = NULL THEN [t EXCEPT !.root = new]
    ELSE IF t.l[q] = old THEN [t EXCEPT !.l[q] = new]
    ELSE [t EXCEPT !.r[q] = new]

SetParent(t, n, q) == IF n = NULL THEN t ELSE [t EXCEPT !.p[n] = q]

Paint(t, n, c) == IF n = NULL THEN t ELSE [t EXCEPT !.color[n] = c]

\* kf_rbtree_lrot (a = "r") and kf_rbtree_rrot (a = "l"): y, the child of x on
\* side a, goes up.
Rotated(t, x, y, a) ==
    [Replace(SetParent(SetParent([t EXCEPT ![a][x] = t[Other(a)][y]], t[Other(a)][y], x), y, t.p[x]),
             t.p[x], x, y)
        EXCEPT ![Other(a)][y] = x, !.p[x] = y]

kf_rbtree_rot(t, x, a) == Rotated(t, x, t[a][x], a)

\* The red parent p of node is on side a of g; u is the uncle.
FixInner(t, node, p, a) == IF node = t[Other(a)][p] THEN kf_rbtree_rot(t, p, Other(a)) ELSE t

FixOuter(t, node, p, g, a) ==
    Paint(Paint(kf_rbtree_rot(FixInner(t, node, p, a), g, a),
                IF node = t[Other(a)][p] THEN node ELSE p, "Black"), g, "Red")

RECURSIVE kf_rbtree_insert_fixup(_, _, _)
kf_rbtree_insert_fixup(t, node, gp) ==
    LET p == t.p[gp]
        g == t.p[p]
        a == IF p = t.l[g] THEN "l" ELSE "r"
        u == t[Other(a)][g]
    IN  IF ~kf_rbtree_isred(t, p) THEN Paint(t, t.root, "Black")
        ELSE IF kf_rbtree_isred(t, u)
        THEN kf_rbtree_insert_fixup(Paint(Paint(Paint(t, p, "Black"), u, "Black"), g, "Red"), g, g)
        ELSE kf_rbtree_insert_fixup(FixOuter(t, node, p, g, a), node, g)

\* node_num does not count the first node of an empty tree.
kf_rbtree_insert(t, n) ==
    LET slot == kf_rbtree_find_slot(t, n)
    IN  IF t.root = NULL THEN [t EXCEPT !.root = n, !.color[n] = "Black"]
        ELSE IF slot.side = NULL THEN t
        ELSE [kf_rbtree_insert_fixup([t EXCEPT ![slot.side][slot.parent] = n, !.p[n] = slot.parent,
                                               !.color[n] = "Red"], n, n)
                 EXCEPT !.node_num = (@ + 1) % SizeMod]

\* The sibling w of x is black: it gives the missing black when its far child is
\* red, after a rotation when only its near child is.
SiblingTurned(t, w, a) ==
    IF kf_rbtree_isred(t, t[Other(a)][w]) THEN t
    ELSE kf_rbtree_rot(Paint(Paint(t, t[a][w], "Black"), w, "Red"), w, a)

SiblingGives(t, p, w, a) ==
    kf_rbtree_rot(Paint(Paint(Paint(t, w, t.color[p]), p, "Black"), t[Other(a)][w], "Black"), p, Other(a))

SiblingBlack(t, p, a) ==
    IF kf_rbtree_isred(t, t[Other(a)][p])
    THEN kf_rbtree_rot(Paint(Paint(t, t[Other(a)][p], "Black"), p, "Red"), p, Other(a))
    ELSE t

\* The loop moves the missing black from x, a child of p, up or absorbs it.
RECURSIVE Rebalance(_, _, _)
Rebalance(t, x, p) ==
    LET a == IF x = t.l[p] THEN "l" ELSE "r"
        t1 == SiblingBlack(t, p, a)
        w == t1[Other(a)][p]
        t2 == SiblingTurned(t1, w, a)
    IN  IF x = t.root \/ kf_rbtree_isred(t, x) THEN Paint(t, x, "Black")
        ELSE IF ~kf_rbtree_isred(t1, t1.l[w]) /\ ~kf_rbtree_isred(t1, t1.r[w])
        THEN Rebalance(Paint(t1, w, "Red"), p, t1.p[p])
        ELSE Paint(SiblingGives(t2, p, t2[Other(a)][p], a), x, "Black")

\* node has at most one child, x.
Bypassed(t, node, x) == Replace(SetParent(t, x, t.p[node]), t.p[node], node, x)

\* y, the successor of node, takes its place and its color; x is the right
\* child of y.
Lifted(t, node, y, x) ==
    LET t1 == [t EXCEPT !.p[t.l[node]] = y, !.l[y] = t.l[node]]
        t2 == IF y = t.r[node] THEN t1
              ELSE [SetParent(t1, x, t.p[y]) EXCEPT !.l[t.p[y]] = x, !.r[y] = t.r[node],
                                                   !.p[t.r[node]] = y]
    IN  [Replace(t2, t.p[node], node, y)
            EXCEPT !.p[y] = t.p[node], !.color[y] = t.color[node], !.color[node] = t.color[y]]

kf_rbtree_remove_fixup(t, node) ==
    LET both == t.l[node] # NULL /\ t.r[node] # NULL
        y == IF both THEN kf_rbtree_outermost(t, t.r[node], "l") ELSE node
        x == IF t.l[y] = NULL THEN t.r[y] ELSE t.l[y]
        p == IF both /\ y = t.r[node] THEN y ELSE t.p[y]
        out == IF both THEN Lifted(t, node, y, x) ELSE Bypassed(t, node, x)
    IN  IF t.color[y] = "Red" THEN out ELSE Rebalance(out, x, p)

kf_rbtree_remove(t, n) ==
    [kf_rbtree_remove_fixup(t, n)
        EXCEPT !.l[n] = NULL, !.r[n] = NULL, !.p[n] = NULL, !.node_num = (@ - 1) % SizeMod]

\* The order in which kf_rbtree_free gives nodes to node_free, from cur on, after
\* those in done; climbing is the inner loop.  Empty from the first use of a
\* node that is already freed on.
RECURSIVE kf_rbtree_walk_nodes_for_freeing(_, _, _, _)
kf_rbtree_walk_nodes_for_freeing(t, cur, climbing, done) ==
    IF cur = NULL THEN done
    ELSE IF {cur, t.p[cur]} \cap ToSet(done) # {} THEN <<>>
    ELSE IF ~climbing /\ t.r[cur] # NULL
    THEN kf_rbtree_walk_nodes_for_freeing(t, kf_rbtree_outermost(t, t.r[cur], "l"), FALSE, done)
    ELSE kf_rbtree_walk_nodes_for_freeing(
             t, t.p[cur], t.p[cur] # NULL /\ t.r[t.p[cur]] = cur, Append(done, cur))

Freed(t) == IF t.root = NULL THEN <<>>
            ELSE kf_rbtree_walk_nodes_for_freeing(t, kf_rbtree_outermost(t, t.root, "l"), FALSE, <<>>)

-----------------------------------------------------------------------------
(* The calls.                                                              *)

InsertNode(n) == /\ usable
                 /\ tree' = kf_rbtree_insert(tree, n)
                 /\ present' = present \cup {n}
                 /\ UNCHANGED usable

RemoveNode(n) == /\ usable /\ n \in present
                 /\ tree' = kf_rbtree_remove(tree, n)
                 /\ present' = present \ {n}
                 /\ UNCHANGED usable

\* The root and node_num are left as they were, so the tree can only be
\* initialized again, with new nodes.
kf_rbtree_free == /\ usable
                  /\ usable' = FALSE
                  /\ UNCHANGED <<tree, present>>

kf_rbtree_init == /\ ~usable
                  /\ usable' = TRUE
                  /\ present' = {}
                  /\ tree' = [root |-> NULL, node_num |-> 0, p |-> NoLink, l |-> NoLink, r |-> NoLink,
                              color |-> [n \in Node |-> "Black"]]

Next == \/ \E n \in Node : InsertNode(n) \/ RemoveNode(n)
        \/ kf_rbtree_free \/ kf_rbtree_init

Spec == Init /\ [][Next]_vars

-----------------------------------------------------------------------------
(* Properties.                                                             *)

\* The C++ tree (RBTree), whose definition of balance this one has to meet, too.
Cxx == INSTANCE RBTree WITH trace <- <<tree>>, members <- present

\* The C tree is a balanced ordered set of the nodes in it (rbtree.c:18-141):
\* every search and the walk by kf_rbtree_next answer as the set would, and the
\* place kf_rbtree_find_slot offers is free, so that a node put there is found;
\* freeing the tree (rbtree.c:374-394) frees every node once and touches none
\* afterwards.
OrderedSet ==
    /\ Cxx!RedBlack
    /\ \A k \in Node :
          /\ kf_rbtree_find(tree, k) = IF k \in present THEN k ELSE NULL
          /\ kf_rbtree_find_max_lteq_node(tree, k) = Cxx!Largest({i \in present : i <= k})
          /\ LET slot == kf_rbtree_find_slot(tree, k)
             IN  IF k \in present THEN slot.side = NULL
                 ELSE IF slot.side = "root" THEN present = {}
                 ELSE tree[slot.side][slot.parent] = NULL
    /\ \A n \in present : kf_rbtree_next(tree, n) = Cxx!Smallest({i \in present : i > n})
    /\ ToSet(Freed(tree)) = present /\ Len(Freed(tree)) = Cardinality(present)
=============================================================================
