---------------------------- MODULE MCContainers ----------------------------
(***************************************************************************)
(* The containers of the kernel for TLC, one of them in a behaviour.  The  *)
(* hash codes put keys in one bucket at every size the array gets (k1 and  *)
(* k4), and part others when it grows.                                     *)
(***************************************************************************)
EXTENDS RBTree, TLC

CONSTANTS k1, k2, k3, k4, Value, MaxSize,
          Elem, Raw, Default, Moved, MaxLength,
          Lists, ListNode,
          KfNode, SizeMod,
          Box, Cell, SetKey

VARIABLES container,                                      \* which one it is
          _buckets, _capacity, _size, ok,                 \* a hash map
          elements, _data, _length, done, again, fault,   \* an array
          _first, _last, lengths, prev, next, held, alloc, order, stale,  \* lists
          kf_tree, present, usable,                       \* a tree of rbtree.c
          flavour, boxes, content, allocator, cell, lost, halt    \* sets or maps

H == INSTANCE HashSet WITH
         Key <- {k1, k2, k3, k4}, Hash <- k1 :> 0 @@ k2 :> 1 @@ k3 :> 2 @@ k4 :> 4

A == INSTANCE DynArray WITH kind <- elements, ok <- done

L == INSTANCE List WITH _length <- lengths, Node <- ListNode

C == INSTANCE KfRBTree WITH Node <- KfNode, tree <- kf_tree

S == INSTANCE SetMap

map == <<_buckets, _capacity, _size, ok>>
array == <<elements, _data, _length, done, again, fault>>
list == <<_first, _last, lengths, prev, next, held, alloc, order, stale>>
c_tree == <<kf_tree, present, usable>>
sets == <<flavour, boxes, content, allocator, cell, lost, halt>>
containers == <<container, vars, map, array, list, c_tree, sets>>

\* The array is one of trivial elements, and the sets are no maps, where another
\* container is worked on.
ContainersInit == /\ container \in {"tree", "map", "array", "list", "c_tree", "set"}
                  /\ Init /\ H!Init /\ A!Init /\ L!Init /\ C!Init /\ S!Init
                  /\ container # "array" => elements = "trivial"
                  /\ container # "set" => flavour = "Set"

ContainersNext == /\ UNCHANGED container
                  /\ \/ container = "tree" /\ Next /\ UNCHANGED <<map, array, list, c_tree, sets>>
                     \/ container = "map" /\ H!Next /\ UNCHANGED <<vars, array, list, c_tree, sets>>
                     \/ container = "array" /\ A!Next /\ UNCHANGED <<vars, map, list, c_tree, sets>>
                     \/ container = "list" /\ L!Next /\ UNCHANGED <<vars, map, array, c_tree, sets>>
                     \/ container = "c_tree" /\ C!Next /\ UNCHANGED <<vars, map, array, list, sets>>
                     \/ container = "set" /\ S!Next /\ UNCHANGED <<vars, map, array, list, c_tree>>

ContainersSpec == ContainersInit /\ [][ContainersNext]_containers

\* Nothing tells the elements of an array apart, nor the values of a map.
DataSymmetry == Permutations(Elem) \cup Permutations(Value)

\* Between calls, both trees (rbtree.cc:23-275, rbtree.c:18-394) are balanced
\* ordered sets whatever was inserted and removed: every search, iteration from
\* either end and the removal of all nodes answer as the set of the nodes would.
TreesOrdered == /\ container = "tree" => RedBlack /\ OrderedSet
                /\ container = "c_tree" => C!OrderedSet

\* A lookup (hashset.hh:267-285) finds a key exactly when an element with it is
\* stored in any bucket, and then this element and no second one, whatever
\* growing and shrinking have moved; a loop over the map (hashset.hh:414-495,
\* 550-562, hashmap.hh:171-299) visits every element once and ends.
FindAgrees == container = "map" => H!FindAgrees /\ H!IterationAgrees

\* The hash map is a map (Dict): what insert (hashset.hh:174-216) returns tells
\* the caller whether the element is in, and a failed insertion of a new key, a
\* removal and a resize leave all other elements alone.
ImplementsDict == H!ImplementsDict

\* What the callers of an array (dynarray.hh:310-370, 655-714) may rely on.  An
\* insertion shifts what follows it, and erasing, extracting and popping keep
\* the rest in order, as far as nothing has to move down over itself; what lies
\* in front of an erased range stays in any case.  A call that fails leaves the
\* elements as they are, but for erase_range_and_shrink, build, which empties
\* the array, and pop_front_and_shrink on more than two.  The first of them may
\* leave destroyed elements below the length, and no other call does; and a
\* destructor runs on what is no object only where that has happened, and in
\* every shrinking of the memory of objects (dynarray.hh:145-160, 260-264).
ElementsKept == A!ElementsKept

\* Walking a list (list.hh:308-343, 400-411) from either end visits the nodes in
\* the order its callers put them in, and ends; this is lost exactly when a node
\* is linked beside a pointer that it had kept from another place
\* (list.hh:55-91), in the direction of this pointer and in no other list.
WalksAgree == container = "list" => L!WalksAgree

\* Whatever is moved, assigned and cleared, every node of a set or a map belongs
\* to one container that exists, or to none because remove gave it up, and a
\* container has one node for a key (set.hh:31-74, 100-104, map.hh:92-101,
\* rbtree.hh:365-399).
NodesOwned == container = "set" => S!NodesOwned
=============================================================================
