-------------------------------- MODULE List --------------------------------
(***************************************************************************)
(* kfxx::List (include/pbos/kfxx/list.hh), the doubly linked list that a   *)
(* bucket of a HashSet is, with two lists and the nodes that callers have  *)
(* detached from one of them and may put into the same list or the other.  *)
(* A node is constructed with no neighbours; detaching it leaves its own   *)
(* pointers, and linking it sets only one of them.                         *)
(***************************************************************************)
EXTENDS Integers, Sequences, SequencesExt

CONSTANTS Lists, Node, NULL

VARIABLES _first, _last, _length,  \* of each list
          prev, next,              \* of each node
          held,                    \* the detached nodes
          alloc,                   \* the lists that have an allocator
          order,                   \* history: the nodes of a list, as its callers mean them
          stale                    \* history: a node linked beside a pointer it had kept, and which

links == <<_first, _last, _length, prev, next>>
vars == <<links, held, alloc, order, stale>>

Init == /\ _first = [l \in Lists |-> NULL] /\ _last = _first
        /\ _length = [l \in Lists |-> 0]
        /\ prev = [n \in Node |-> NULL] /\ next = prev
        /\ held = {}
        /\ order = [l \in Lists |-> << >>]
        /\ alloc = Lists
        /\ stale = << >>

Unused == Node \ (held \cup UNION {ToSet(order[l]) : l \in Lists})

-----------------------------------------------------------------------------
(* Linking.  k says which pointers the nodes have before.                  *)

\* f with y for x, unless x is no node.
Point(f, x, y) == IF x = NULL THEN f ELSE [f EXCEPT ![x] = y]

_prepend(l, dest, node, k) ==
    /\ prev' = Point(k.prev, dest, node)
    /\ next' = [Point(k.next, IF dest = NULL THEN NULL ELSE k.prev[dest], node) EXCEPT ![node] = dest]
    /\ _first' = IF dest = _first[l] THEN [_first EXCEPT ![l] = node] ELSE _first
    /\ _last' = IF _last[l] = NULL THEN [_last EXCEPT ![l] = node] ELSE _last
    /\ _length' = [_length EXCEPT ![l] = @ + 1]

_append(l, dest, node, k) ==
    /\ next' = Point(k.next, dest, node)
    /\ prev' = [Point(k.prev, IF dest = NULL THEN NULL ELSE k.next[dest], node) EXCEPT ![node] = dest]
    /\ _last' = IF dest = _last[l] THEN [_last EXCEPT ![l] = node] ELSE _last
    /\ _first' = IF _first[l] = NULL THEN [_first EXCEPT ![l] = node] ELSE _first
    /\ _length' = [_length EXCEPT ![l] = @ + 1]

\* Mutant: the last node is forgotten to be the last one.
RemoveKeepsLast(l, dest) ==
    [first |-> IF dest = _first[l] THEN [_first EXCEPT ![l] = next[dest]] ELSE _first,
     last |-> _last,
     next |-> Point(next, prev[dest], next[dest]),
     prev |-> Point(prev, next[dest], prev[dest])]

_remove(l, dest) ==
    [first |-> IF dest = _first[l] THEN [_first EXCEPT ![l] = next[dest]] ELSE _first,
     last |-> IF dest = _last[l] THEN [_last EXCEPT ![l] = prev[dest]] ELSE _last,
     next |-> Point(next, prev[dest], next[dest]),
     prev |-> Point(prev, next[dest], prev[dest])]

Unlink(l, k) == /\ _first' = k.first /\ _last' = k.last
                /\ next' = k.next /\ prev' = k.prev
                /\ _length' = [_length EXCEPT ![l] = @ - 1]

Kept == [prev |-> prev, next |-> next]
Fresh(n) == [prev |-> [prev EXCEPT ![n] = NULL], next |-> [next EXCEPT ![n] = NULL]]

Position(l, n) == SelectInSeq(order[l], LAMBDA x : x = n)

-----------------------------------------------------------------------------
(* The operations.  A list that was moved from has no allocator; a call    *)
(* that allocates or releases a node there ends in a null pointer.         *)

\* With new data: the node is allocated, or the call fails and changes nothing.
push_front(l, n) ==
    /\ n \in Unused /\ l \in alloc
    /\ _prepend(l, _first[l], n, Fresh(n))
    /\ order' = [order EXCEPT ![l] = <<n>> \o @]
    /\ UNCHANGED <<held, alloc, stale>>

push_back(l, n) ==
    /\ n \in Unused /\ l \in alloc
    /\ _append(l, _last[l], n, Fresh(n))
    /\ order' = [order EXCEPT ![l] = Append(@, n)]
    /\ UNCHANGED <<held, alloc, stale>>

\* With a detached node.  It is in place only if the pointer that is not set
\* happens to be right.
Relinked(n, pointer, right) == /\ held' = held \ {n}
                               /\ stale' = IF right THEN << >> ELSE <<n, pointer>>
                               /\ UNCHANGED alloc

PushFrontHeld(l, n) ==
    /\ n \in held
    /\ _prepend(l, _first[l], n, Kept)
    /\ order' = [order EXCEPT ![l] = <<n>> \o @]
    /\ Relinked(n, "prev", prev[n] = NULL)

PushBackHeld(l, n) ==
    /\ n \in held
    /\ _append(l, _last[l], n, Kept)
    /\ order' = [order EXCEPT ![l] = Append(@, n)]
    /\ Relinked(n, "next", next[n] = NULL)

insert_front(l, node, n) ==
    /\ n \in held /\ node \in ToSet(order[l])
    /\ _prepend(l, node, n, Kept)
    /\ order' = [order EXCEPT ![l] = InsertAt(@, Position(l, node), n)]
    /\ Relinked(n, "prev", prev[n] = prev[node])

insert_back(l, node, n) ==
    /\ n \in held /\ node \in ToSet(order[l])
    /\ _append(l, node, n, Kept)
    /\ order' = [order EXCEPT ![l] = InsertAt(@, Position(l, node) + 1, n)]
    /\ Relinked(n, "next", next[n] = next[node])

\* pop_front and pop_back remove the node at an end.
remove(l, n) ==
    /\ n \in ToSet(order[l]) /\ l \in alloc
    /\ Unlink(l, _remove(l, n))
    /\ order' = [order EXCEPT ![l] = RemoveAt(@, Position(l, n))]
    /\ UNCHANGED <<held, alloc, stale>>

detach(l, n) ==
    /\ n \in ToSet(order[l])
    /\ Unlink(l, _remove(l, n))
    /\ order' = [order EXCEPT ![l] = RemoveAt(@, Position(l, n))]
    /\ held' = held \cup {n}
    /\ UNCHANGED <<alloc, stale>>

\* A turn of the loop that moves a bucket to new ones (hashset.hh:106-113): the
\* first node is detached and pushed to the front of another list.
MoveFirst(l, m) ==
    LET n == _first[l]
        k == _remove(l, n)
    IN  /\ l # m /\ n # NULL
        /\ prev' = Point(k.prev, _first[m], n)
        /\ next' = [k.next EXCEPT ![n] = _first[m]]
        /\ _first' = [k.first EXCEPT ![m] = n]
        /\ _last' = IF _last[m] = NULL THEN [k.last EXCEPT ![m] = n] ELSE k.last
        /\ _length' = [_length EXCEPT ![l] = @ - 1, ![m] = @ + 1]
        /\ order' = [order EXCEPT ![l] = Tail(@), ![m] = <<n>> \o @]
        /\ UNCHANGED <<held, alloc, stale>>

Releasable(l) == order[l] = << >> \/ l \in alloc

clear(l) == /\ Releasable(l)
            /\ _first' = [_first EXCEPT ![l] = NULL] /\ _last' = [_last EXCEPT ![l] = NULL]
            /\ _length' = [_length EXCEPT ![l] = 0]
            /\ order' = [order EXCEPT ![l] = << >>]
            /\ UNCHANGED <<prev, next, held, alloc, stale>>

\* operator=: takes the nodes and the allocator of the other list, and clears
\* its own before.
Assign(l, m) ==
    /\ l # m /\ Releasable(l)
    /\ alloc' = (alloc \ {l, m}) \cup {x \in {l} : m \in alloc}
    /\ _first' = [_first EXCEPT ![l] = _first[m], ![m] = NULL]
    /\ _last' = [_last EXCEPT ![l] = _last[m], ![m] = NULL]
    /\ _length' = [_length EXCEPT ![l] = _length[m], ![m] = 0]
    /\ order' = [order EXCEPT ![l] = order[m], ![m] = << >>]
    /\ UNCHANGED <<prev, next, held, stale>>

\* Calls on a list with a wrong pointer may follow it anywhere: a behaviour ends
\* with the call that leaves one.
Next == /\ stale = << >>
        /\ \E l \in Lists :
              \/ \E n \in Node : \/ push_front(l, n) \/ push_back(l, n)
                                 \/ PushFrontHeld(l, n) \/ PushBackHeld(l, n)
                                 \/ remove(l, n) \/ detach(l, n)
                                 \/ \E x \in Node : insert_front(l, x, n) \/ insert_back(l, x, n)
              \/ \E m \in Lists : MoveFirst(l, m) \/ Assign(l, m)
              \/ clear(l)

Spec == Init /\ [][Next]_vars

-----------------------------------------------------------------------------
(* Iterators.                                                              *)

\* operator++ of an iterator that stands on n.
Increase(n, direction) == IF direction = "Forward" THEN next[n] ELSE prev[n]

begin(l, direction) == IF direction = "Forward" THEN _first[l] ELSE _last[l]

\* operator-- of an iterator that stands on n; on the first element of its
\* direction it panics.
Decrease(n, direction) == IF direction = "Forward" THEN prev[n] ELSE next[n]

\* The first i elements that an iterator over the list stands on.
Walk(l, direction, i) ==
    LET node[j \in 1 .. i] == IF j = 1 THEN begin(l, direction)
                              ELSE IF node[j - 1] = NULL THEN NULL
                              ELSE Increase(node[j - 1], direction)
    IN  node

\* A const iterator goes the same way.
ConstWalk(l, direction, i) == Walk(l, direction, i)

\* The iterator ends behind the i-th element.
Ends(l, direction, i) ==
    IF i = 0 THEN begin(l, direction) = NULL
    ELSE LET n == Walk(l, direction, i)[i] IN n # NULL /\ Increase(n, direction) = NULL

Visits(l, direction, walk, s) == walk = s /\ Ends(l, direction, Len(s))

\* A node of the list has kept a wrong pointer.
Keeps(l, pointer) == stale # << >> /\ stale[1] \in ToSet(order[l]) /\ stale[2] = pointer

\* Iterating over a list (list.hh:265-585) visits the nodes that its callers have
\* put there, in their order and backwards in the opposite one, and ends after
\* _length of them; one step back undoes a step.  Whatever was detached from
\* and moved between lists, this is lost exactly when a detached node is linked
\* beside a pointer it has kept (list.hh:55-91), then in this list only, and only
\* in the direction of that pointer; it is not lost when the first node of a
\* list goes to the front of another (hashset.hh:106-113).
WalksAgree ==
    \A l \in Lists :
        LET s == order[l]
            n == Len(s)
        IN  /\ _length[l] = n
            /\ Visits(l, "Forward", Walk(l, "Forward", n), s) <=> ~Keeps(l, "next")
            /\ Visits(l, "Reversed", ConstWalk(l, "Reversed", n), Reverse(s)) <=> ~Keeps(l, "prev")
            /\ \A i \in 1 .. n : Decrease(s[i], "Forward") = (IF i = 1 THEN NULL ELSE s[i - 1])
                                 <=> stale # <<s[i], "prev">>
=============================================================================
