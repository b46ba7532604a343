------------------------------- MODULE RBTree -------------------------------
(***************************************************************************)
(* kfxx::RBTree (include/pbos/kfxx/rbtree.hh, kernel/kfxx/rbtree.cc), the  *)
(* container of the process table, the thread sets, the memory regions and *)
(* the heap.  A call runs as the sequence of its stores, kept in trace,    *)
(* since the timer interrupt walks the process tree between any two of     *)
(* them.  A node is its key.                                               *)
(***************************************************************************)
EXTENDS Integers, Sequences, SequencesExt, FiniteSets

CONSTANTS Node,  \* a set of integers, the keys
          NULL

ASSUME NodeAssumption == Node \subseteq Nat \ {0} /\ IsFiniteSet(Node)

VARIABLES trace,    \* the memory before the last call and after each of its stores
          members   \* the nodes that were inserted and not removed

vars == <<trace, members>>

NoLink == [n \in Node |-> NULL]

Init == /\ trace = << [p |-> NoLink, l |-> NoLink, r |-> NoLink, color |-> [n \in Node |-> "Black"],
                       root |-> NULL, min |-> NULL, max |-> NULL, size |-> 0] >>
        /\ members = {}

-----------------------------------------------------------------------------
(* Queries of a memory m.                                                  *)

_is_red(m, n) == n # NULL /\ m.color[n] = "Red"

\* What a loop returns that takes more turns than there are nodes.
Endless == -1

\* The last node on the path from n along side a.
RECURSIVE Descend(_, _, _, _)
Descend(m, n, a, turns) ==
    IF turns = 0 THEN Endless
    ELSE IF n = NULL \/ m[a][n] = NULL THEN n ELSE Descend(m, m[a][n], a, turns - 1)

_get_min_node(m, n) == Descend(m, n, "l", Cardinality(Node))
_get_max_node(m, n) == Descend(m, n, "r", Cardinality(Node))

\* The climb of _get_next (a = "r") and _get_prev (a = "l").
RECURSIVE Climb(_, _, _, _)
Climb(m, n, a, turns) ==
    IF turns = 0 THEN Endless
    ELSE IF m.p[n] = NULL \/ n # m[a][m.p[n]] THEN m.p[n]
    ELSE Climb(m, m.p[n], a, turns - 1)

_get_next(m, n) == IF m.r[n] # NULL THEN _get_min_node(m, m.r[n]) ELSE Climb(m, n, "r", Cardinality(Node))
_get_prev(m, n) == IF m.l[n] # NULL THEN _get_max_node(m, m.l[n]) ELSE Climb(m, n, "l", Cardinality(Node))

\* The search for k from node n: the node with key k or NULL.
RECURSIVE _get(_, _, _)
_get(m, n, k) ==
    IF n = NULL \/ n = k THEN n
    ELSE _get(m, IF n < k THEN m.r[n] ELSE m.l[n], k)

\* Mutant: the best node so far is forgotten on the way to the left.
RECURSIVE MaxLteqForgets(_, _, _, _)
MaxLteqForgets(m, n, k, best) ==
    IF n = NULL THEN best
    ELSE IF n < k THEN MaxLteqForgets(m, m.r[n], k, n)
    ELSE IF n > k THEN MaxLteqForgets(m, m.l[n], k, NULL)
    ELSE n

\* The search for the largest key up to k, with the best node so far.
RECURSIVE _find_max_lteq(_, _, _, _)
_find_max_lteq(m, n, k, best) ==
    IF n = NULL THEN best
    ELSE IF n < k THEN _find_max_lteq(m, m.r[n], k, n)
    ELSE IF n > k THEN _find_max_lteq(m, m.l[n], k, best)
    ELSE n

\* The node under which a new key k goes.
RECURSIVE _get_slot(_, _, _, _)
_get_slot(m, n, k, parent) ==
    IF n = NULL THEN parent
    ELSE _get_slot(m, IF n < k THEN m.r[n] ELSE m.l[n], k, n)

\* An iterator of direction d is the node it is at, NULL at the end; d names the
\* links towards later nodes.
begin(m, d) == IF d = "r" THEN _get_min_node(m, m.root) ELSE m.max

\* What the operators return instead of a place when they panic.
Panic == -2

Increase(m, n, d) ==
    IF n = NULL THEN Panic ELSE IF d = "r" THEN _get_next(m, n) ELSE _get_prev(m, n)

Decrease(m, n, d) ==
    IF n = (IF d = "r" THEN m.min ELSE m.max) THEN Panic
    ELSE IF n = NULL THEN (IF d = "r" THEN m.max ELSE m.min)
    ELSE IF d = "r" THEN _get_prev(m, n) ELSE _get_next(m, n)

\* The nodes a loop over the tree reads, and one with const iterators.
Loop(m, d) ==
    LET it[i \in 1 .. m.size] == IF i = 1 THEN begin(m, d) ELSE Increase(m, it[i - 1], d)
    IN  it
ConstLoop(m, d) == Loop(m, d)

-----------------------------------------------------------------------------
(* Stores.  The calls map the trace so far to the trace after them.        *)

Now(t) == Last(t)

Store(t, f, n, v) == Append(t, [Now(t) EXCEPT ![f][n] = v])

StoreRoot(t, v) == Append(t, [Now(t) EXCEPT !.root = v])

StoreIf(c, t, f, n, v) == IF c THEN Store(t, f, n, v) ELSE t

Other(a) == IF a = "l" THEN "r" ELSE "l"

\* The side of its parent q that n is on.
Side(m, q, n) == IF m.l[q] = n THEN "l" ELSE "r"

\* Mutant: the root is taken off before the new one is put in.
ReplaceUnlinksFirst(t, q, n, v) ==
    IF q = NULL THEN StoreRoot(StoreRoot(t, NULL), v) ELSE Store(t, Side(Now(t), q, n), q, v)

\* v takes the place of n under the parent q of n.
Replace(t, q, n, v) == IF q = NULL THEN StoreRoot(t, v) ELSE Store(t, Side(Now(t), q, n), q, v)

\* _lrot (a = "r") and _rrot (a = "l"): the child of x on side a goes up.
_rot(t, x, a) ==
    LET m == Now(t)
        b == Other(a)
        y == m[a][x]
        t1 == Store(t, a, x, m[b][y])
        t2 == StoreIf(m[b][y] # NULL, t1, "p", m[b][y], x)
        t3 == Replace(Store(t2, "p", y, m.p[x]), m.p[x], x, y)
    IN  Store(Store(t3, b, y, x), "p", x, y)

\* The loop, where p is the parent of gp and a is the side p is on.
RECURSIVE _insert_fixup(_, _, _)
_insert_fixup(t, node, gp) ==
    LET p == Now(t).p[gp]
        g == Now(t).p[p]
        a == Side(Now(t), g, p)
        u == Now(t)[Other(a)][g]
        inner == node = Now(t)[Other(a)][p]
        top == IF inner THEN node ELSE p
        t1 == _rot(IF inner THEN _rot(t, p, Other(a)) ELSE t, g, a)
    IN  IF ~_is_red(Now(t), p) THEN Store(t, "color", Now(t).root, "Black")
        ELSE IF _is_red(Now(t), u)
        THEN _insert_fixup(Store(Store(Store(t, "color", p, "Black"), "color", u, "Black"),
                                 "color", g, "Red"), g, g)
        ELSE _insert_fixup(Store(Store(t1, "color", top, "Black"), "color", g, "Red"), node, g)

\* The caches and the size, the end of _insert and of _remove.
Finish(t, d) ==
    LET m == Now(t)
        t1 == Append(t, [m EXCEPT !.min = _get_min_node(m, m.root)])
        t2 == Append(t1, [Now(t1) EXCEPT !.max = _get_max_node(m, m.root)])
    IN  Append(t2, [Now(t2) EXCEPT !.size = @ + d])

insert(m, n) ==
    LET parent == _get_slot(m, m.root, n, NULL)
        t1 == Store(StoreRoot(<<m>>, n), "color", n, "Black")
        t2 == Store(Store(<<m>>, IF n < parent THEN "l" ELSE "r", parent, n), "p", n, parent)
    IN  Finish(IF m.root = NULL THEN t1 ELSE _insert_fixup(Store(t2, "color", n, "Red"), n, n), 1)

\* The loop that moves the missing black up from x, child of p, or absorbs it.
RECURSIVE _remove_loop(_, _, _)
_remove_loop(t, x, p) ==
    LET a == Side(Now(t), p, x)
        b == Other(a)
        sibling == Now(t)[b][p]
        t1 == IF _is_red(Now(t), sibling)
              THEN _rot(Store(Store(t, "color", sibling, "Black"), "color", p, "Red"), p, b) ELSE t
        w == Now(t1)[b][p]
        m == Now(t1)
        t2 == IF _is_red(m, m[b][w]) THEN t1
              ELSE _rot(Store(StoreIf(m[a][w] # NULL, t1, "color", m[a][w], "Black"), "color", w, "Red"), w, a)
        v == Now(t2)[b][p]
        t3 == Store(Store(t2, "color", v, Now(t2).color[p]), "color", p, "Black")
        t4 == _rot(StoreIf(Now(t3)[b][v] # NULL, t3, "color", Now(t3)[b][v], "Black"), p, b)
    IN  IF x = Now(t).root \/ _is_red(Now(t), x) THEN StoreIf(x # NULL, t, "color", x, "Black")
        ELSE IF ~_is_red(m, m.l[w]) /\ ~_is_red(m, m.r[w])
        THEN _remove_loop(Store(t1, "color", w, "Red"), p, m.p[p])
        ELSE StoreIf(x # NULL, t4, "color", x, "Black")

\* Takes node out: by its only child x, or by its successor y, whose right
\* child is x; p is where x ends up.
_remove_fixup(m, node) ==
    LET both == m.l[node] # NULL /\ m.r[node] # NULL
        y == IF both THEN _get_min_node(m, m.r[node]) ELSE node
        x == IF m.l[y] = NULL THEN m.r[y] ELSE m.l[y]
        far == y # m.r[node]
        p == IF both /\ ~far THEN y ELSE m.p[y]
        \* one child or none
        t1 == Replace(StoreIf(x # NULL, <<m>>, "p", x, m.p[node]), m.p[node], node, x)
        \* two children
        s1 == Store(Store(<<m>>, "p", m.l[node], y), "l", y, m.l[node])
        s2 == Store(StoreIf(x # NULL, s1, "p", x, m.p[y]), "l", m.p[y], x)
        s3 == IF far THEN Store(Store(s2, "r", y, m.r[node]), "p", m.r[node], y) ELSE s1
        s4 == Store(Replace(s3, m.p[node], node, y), "p", y, m.p[node])
        s5 == Store(Store(s4, "color", y, m.color[node]), "color", node, m.color[y])
    IN  IF m.color[y] = "Red" THEN IF both THEN s5 ELSE t1
        ELSE _remove_loop(IF both THEN s5 ELSE t1, x, p)

remove(m, n) ==
    LET t == Finish(_remove_fixup(m, n), -1)
    IN  Store(Store(Store(t, "l", n, NULL), "r", n, NULL), "p", n, NULL)

\* The order in which clear deletes nodes, from cur on, after those in done;
\* climbing is the inner loop.  Empty from the first use of a deleted node on.
RECURSIVE ClearFrom(_, _, _, _)
ClearFrom(m, cur, climbing, done) ==
    LET up == m.p[cur]
        right == up # NULL /\ m.r[up] = cur
    IN  IF cur = NULL THEN done
        ELSE IF cur \in ToSet(done) \/ up \in ToSet(done) THEN <<>>
        ELSE IF ~climbing /\ m.r[cur] # NULL
        THEN ClearFrom(m, _get_min_node(m, m.r[cur]), FALSE, done)
        ELSE ClearFrom(m, up, right, Append(done, cur))

clear(m) == ClearFrom(m, _get_min_node(m, m.root), FALSE, <<>>)

-----------------------------------------------------------------------------
(* The calls.                                                              *)

tree == Now(trace)

InsertNode(n) == /\ n \notin members
                 /\ trace' = insert(tree, n)
                 /\ members' = members \cup {n}

RemoveNode(n) == /\ n \in members
                 /\ trace' = remove(tree, n)
                 /\ members' = members \ {n}

Next == \E n \in Node : InsertNode(n) \/ RemoveNode(n)

Spec == Init /\ [][Next]_vars

-----------------------------------------------------------------------------
(* Properties.                                                             *)

\* After a call the links of the nodes agree both ways and lead to no other
\* node, and a node outside the tree has none, as _insert asserts
\* (rbtree.hh:219-220).
LinksMutual ==
    /\ (tree.root = NULL) = (members = {})
    /\ \A n \in members : /\ tree.p[n] = NULL <=> n = tree.root
                           /\ \A a \in {"l", "r"} : tree[a][n] # NULL =>
                                 tree[a][n] \in members /\ tree.p[tree[a][n]] = n
    /\ \A n \in Node \ members : \A a \in {"p", "l", "r"} : tree[a][n] = NULL

\* The number of black nodes on the path from n to the root.
RECURSIVE BlackDepth(_, _)
BlackDepth(m, n) == IF n = NULL THEN 0
                    ELSE BlackDepth(m, m.p[n]) + IF _is_red(m, n) THEN 0 ELSE 1

\* After a call the links agree, no red node has a red child, the root is black
\* and every path down to a missing child has the same number of black nodes
\* (rbtree.cc:64-241).
RedBlack ==
    /\ LinksMutual
    /\ ~_is_red(tree, tree.root)
    /\ \A n \in members : _is_red(tree, n) => ~_is_red(tree, tree.p[n])
    /\ \A n, o \in {q \in members : NULL \in {tree.l[q], tree.r[q]}} :
          BlackDepth(tree, n) = BlackDepth(tree, o)

Largest(S) == IF S = {} THEN NULL ELSE CHOOSE i \in S : \A j \in S : i >= j
Smallest(S) == IF S = {} THEN NULL ELSE CHOOSE i \in S : \A j \in S : i <= j

\* An iterator of either direction starts at the first node of its direction and
\* reads the nodes in order; a step back undoes a step, from the end, too, and
\* panics exactly at the start (rbtree.hh:500-770).
IteratorsUndo ==
    /\ Loop(tree, "r") = Reverse(ConstLoop(tree, "l"))
    /\ ToSet(Loop(tree, "r")) = members
    /\ \A d \in {"l", "r"}, n \in members \cup {NULL} :
          /\ begin(tree, d) = IF d = "r" THEN Smallest(members) ELSE Largest(members)
          /\ IF n = begin(tree, d) THEN Decrease(tree, n, d) = Panic
             ELSE /\ Decrease(tree, n, d) \in members
                  /\ Increase(tree, Decrease(tree, n, d), d) = n

\* clear gives every node to the deleter once and reads none afterwards
\* (rbtree.hh:447-478).
ClearDeletesOnce == /\ ToSet(clear(tree)) = members
                    /\ Len(clear(tree)) = Cardinality(members)

\* The tree is an ordered set between calls: find and find_max_lteq answer as
\* the set would, which ki_destroy_proc and the lookup of a memory region rely
\* on, iterating goes through the nodes in order both ways and clear through all
\* of them, and the cached ends and the size are the set's (rbtree.hh:67-131,
\* 291-357, rbtree.cc:243-275).
OrderedSet ==
    /\ \A k \in Node : /\ _get(tree, tree.root, k) = IF k \in members THEN k ELSE NULL
                       /\ _find_max_lteq(tree, tree.root, k, NULL) =
                             Largest({i \in members : i <= k})
    /\ \A n \in members : /\ _get_next(tree, n) = Smallest({i \in members : i > n})
                           /\ _get_prev(tree, n) = Largest({i \in members : i < n})
    /\ tree.min = Smallest(members) /\ tree.max = Largest(members)
    /\ tree.size = Cardinality(members)
    /\ IteratorsUndo
    /\ ClearDeletesOnce

\* An interrupt between two stores of a call that asks for the first node, or
\* for the one after a node that stays in the tree, gets a node that is in the
\* tree before or after the call, or the end; the walk never runs in a circle,
\* and a tree that is not empty before or after the call has a first node.
InterruptWalks ==
    LET before == {n \in Node : _get(trace[1], trace[1].root, n) = n}
    IN  \A i \in DOMAIN trace :
           /\ _get_min_node(trace[i], trace[i].root) \in
                 before \cup members \cup (IF before = {} \/ members = {} THEN {NULL} ELSE {})
           /\ \A n \in before \cap members : _get_next(trace[i], n) \in before \cup members \cup {NULL}
=============================================================================
