------------------------------- MODULE SetMap -------------------------------
(***************************************************************************)
(* kfxx::Set and kfxx::Map (include/pbos/kfxx/set.hh, map.hh): who owns    *)
(* the nodes of a tree (RBTree, here the set of its nodes) as they are     *)
(* allocated, moved between containers and released.  A Map is a Set of    *)
(* pairs, of which only the key is told apart.                             *)
(***************************************************************************)
EXTENDS Integers, FiniteSets

CONSTANTS Box,      \* containers
          Cell,     \* memory for nodes
          SetKey, NULL

VARIABLES flavour,  \* all containers are of one class: "Set" or "Map"
          boxes,    \* the containers that exist
          content,  \* the nodes of the tree of a container
          allocator,\* the containers that have one
          cell,     \* the key in a node; NULL: not allocated
          lost,     \* nodes that remove has taken out
          halt      \* "no", or what stopped the kernel

vars == <<flavour, boxes, content, allocator, cell, lost, halt>>

Init == /\ flavour \in {"Set", "Map"}
        /\ boxes = {} /\ allocator = {} /\ lost = {}
        /\ content = [x \in Box |-> {}]
        /\ cell = [n \in Cell |-> NULL]
        /\ halt = "no"

Stop(why) == halt' = why /\ UNCHANGED <<flavour, boxes, content, allocator, cell, lost>>

\* The tree's find: at most one node.
find(x, k) == {n \in content[x] : cell[n] = k}

Construct(x) == /\ x \notin boxes
                /\ boxes' = boxes \cup {x} /\ allocator' = allocator \cup {x}
                /\ UNCHANGED <<flavour, content, cell, lost, halt>>

\* Neither the allocator nor the node is checked before it is used.  A second
\* element with a key is released again, and false returned.
insert(x, k) ==
    /\ x \in boxes
    /\ \/ Stop("fault")
       \/ /\ x \in allocator /\ find(x, k) = {}
          /\ \E n \in Cell : /\ cell[n] = NULL
                             /\ cell' = [cell EXCEPT ![n] = k]
                             /\ content' = [content EXCEPT ![x] = @ \cup {n}]
          /\ UNCHANGED <<flavour, boxes, allocator, lost, halt>>

\* Takes the node out of the tree, by key or by iterator, and does not release it.
remove(x, k) ==
    /\ x \in boxes /\ find(x, k) # {}
    /\ content' = [content EXCEPT ![x] = @ \ find(x, k)]
    /\ lost' = lost \cup find(x, k)
    /\ UNCHANGED <<flavour, boxes, allocator, cell, halt>>

Released(S) == [n \in Cell |-> IF n \in S THEN NULL ELSE cell[n]]

clear(x) ==
    /\ x \in boxes /\ content[x] # {}
    /\ IF x \notin allocator THEN Stop("fault")
       ELSE /\ cell' = Released(content[x])
            /\ content' = [content EXCEPT ![x] = {}]
            /\ UNCHANGED <<flavour, boxes, allocator, lost, halt>>

\* A key that is not there fails an assertion.
at(x, k) == x \in boxes /\ find(x, k) = {} /\ Stop("panic")

\* Mutant: the tree that is moved from keeps its root.
MoveKeepsSource(x, y) == [content EXCEPT ![x] = content[y]]

\* The tree of y becomes that of x, whose own nodes are gone.
Transferred(x, y) == [content EXCEPT ![x] = content[y], ![y] = IF x = y THEN @ ELSE {}]

\* The allocator stays behind.
MoveConstruct(x, y) ==
    /\ x \notin boxes /\ y \in boxes
    /\ boxes' = boxes \cup {x}
    /\ content' = Transferred(x, y)
    /\ UNCHANGED <<flavour, allocator, cell, lost, halt>>

\* A set that still has nodes panics, also when it is assigned to itself; moving
\* an empty one to itself clears its root.
SetAssign(x, y) ==
    /\ flavour = "Set" /\ x \in boxes /\ y \in boxes
    /\ IF content[x] # {} THEN Stop("panic")
       ELSE content' = Transferred(x, y) /\ UNCHANGED <<flavour, boxes, allocator, cell, lost, halt>>

\* A map clears itself first, also when it is assigned to itself.
MapAssign(x, y) ==
    /\ flavour = "Map" /\ x \in boxes /\ y \in boxes
    /\ IF content[x] # {} /\ x \notin allocator THEN Stop("fault")
       ELSE /\ cell' = Released(content[x])
            /\ content' = IF x = y THEN [content EXCEPT ![x] = {}] ELSE Transferred(x, y)
            /\ UNCHANGED <<flavour, boxes, allocator, lost, halt>>

Destroy(x) ==
    /\ x \in boxes
    /\ IF content[x] # {} THEN Stop("panic")
       ELSE /\ boxes' = boxes \ {x} /\ allocator' = allocator \ {x}
            /\ UNCHANGED <<flavour, content, cell, lost, halt>>

Next == /\ halt = "no"
        /\ \E x \in Box : \/ Construct(x) \/ clear(x) \/ Destroy(x)
                          \/ \E k \in SetKey : insert(x, k) \/ remove(x, k) \/ at(x, k)
                          \/ \E y \in Box : MoveConstruct(x, y) \/ SetAssign(x, y) \/ MapAssign(x, y)

Spec == Init /\ [][Next]_vars

-----------------------------------------------------------------------------
(* Properties.                                                             *)

\* Whatever is moved, assigned and cleared, every node that is allocated belongs
\* to one container that exists, or to none because remove gave it up, and a
\* container has one node for a key (set.hh:31-74, 100-104, map.hh:92-101,
\* rbtree.hh:365-399).
NodesOwned ==
    /\ \A n \in Cell : cell[n] # NULL <=> n \in lost \/ \E x \in boxes : n \in content[x]
    /\ \A x \in Box : /\ x \notin boxes => content[x] = {}
                      /\ content[x] \cap lost = {}
                      /\ \A y \in Box \ {x} : content[x] \cap content[y] = {}
                      /\ \A m, n \in content[x] : cell[m] = cell[n] => m = n
=============================================================================
