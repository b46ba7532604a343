------------------------------ MODULE HashSet -------------------------------
(***************************************************************************)
(* kfxx::HashMap over kfxx::HashSet (include/pbos/kfxx/hashmap.hh,         *)
(* hashset.hh), the container of directories, file systems, buses and      *)
(* kernel symbols.  A bucket (kfxx::List) is the sequence of its elements, *)
(* the bucket array (kfxx::DynArray) the sequence of buckets and the       *)
(* capacity it keeps when it is cleared.  Every allocation may fail.       *)
(***************************************************************************)
EXTENDS Integers, Sequences, SequencesExt, FiniteSets

CONSTANTS Key, Value,
          Hash,     \* the hash code of a key
          MaxSize   \* bounds _size, which only inserting a known key lets grow for ever

VARIABLES _buckets, _capacity, _size,
          ok        \* what the last insertion returned

vars == <<_buckets, _capacity, _size, ok>>

Init == _buckets = << >> /\ _capacity = 0 /\ _size = 0 /\ ok = TRUE

-----------------------------------------------------------------------------
\* The elements are pairs.  A query has only a key, which is compared and hashed
\* as the key of a pair is.
Pair(k, v) == [key |-> k, value |-> v]
PairCmp(e, k) == e.key = k
PairHasher(k) == Hash[k]

Index(k, n) == (PairHasher(k) % n) + 1

\* 1: too few buckets, -1: too many, 0: as many as it should have.
_check_capacity(n) == IF 2 * n < _size THEN 1 ELSE IF n > _size /\ n > 1 THEN -1 ELSE 0

\* Mutant: the elements keep the bucket they were in.
ResizeKeepsIndex(old, n) ==
    [j \in 1 .. n |-> Reverse(SelectSeq(FlattenSeq(old), LAMBDA e : ((Index(e.key, Len(old)) - 1) % n) + 1 = j))]

\* Every element moves to the front of its new bucket, bucket by bucket.
_resize_buckets(old, n) ==
    [j \in 1 .. n |-> Reverse(SelectSeq(FlattenSeq(old), LAMBDA e : Index(e.key, n) = j))]

\* The length _check_and_resize_buckets gives to b, and b at that length.
NewLength(b) == CASE _check_capacity(Len(b)) = 1 -> 2 * Len(b)
                  [] _check_capacity(Len(b)) = -1 -> Len(b) \div 2
                  [] OTHER -> Len(b)

_check_and_resize_buckets(b) ==
    IF NewLength(b) = Len(b) THEN b ELSE _resize_buckets(b, NewLength(b))

\* The position of k in a bucket; 0 when it is not there.
_get_bucket_slot(bucket, k) == SelectInSeq(bucket, LAMBDA e : PairCmp(e, k))

\* The value under k, as a set with at most one element.
_get(k) ==
    IF _buckets = << >> THEN {}
    ELSE LET bucket == _buckets[Index(k, Len(_buckets))]
             i == _get_bucket_slot(bucket, k)
         IN  IF i = 0 THEN {} ELSE {bucket[i].value}

-----------------------------------------------------------------------------
\* The buckets an insertion works on: the first one is made on demand, and
\* fits in the capacity that clear has left.
Ready == IF _buckets = << >> THEN << << >> >> ELSE _buckets

ReadyCapacity == IF _capacity = 0 THEN 1 ELSE _capacity

contains(k) == _get(k) # {}

\* The buckets with k in front of its bucket.  A known key keeps its element:
\* Pair cannot be move-assigned, and move_assign_or_move_construct then
\* constructs the old element from itself.
Pushed(k, v) ==
    IF contains(k) THEN _buckets
    ELSE [Ready EXCEPT ![Index(k, Len(Ready))] = <<Pair(k, v)>> \o @]

Stored(b, n) == /\ _buckets' = b
                /\ _capacity' = n
                /\ _size' = _size + 1
                /\ ok' = TRUE

\* Mutant: the undo takes the element from the wrong end.
PopBack(b, i) == [b EXCEPT ![i] = Front(@)]

pop_front(b, i) == [b EXCEPT ![i] = Tail(@)]

\* No memory for the first bucket, or for the node.
InsertFails(k) ==
    /\ \/ _buckets = << >> /\ _capacity = 0 /\ UNCHANGED <<_buckets, _capacity>>
       \/ ~contains(k) /\ _buckets' = Ready /\ _capacity' = ReadyCapacity
    /\ ok' = FALSE
    /\ UNCHANGED _size

\* The element is in; resizing succeeds, or there is nothing to resize.
InsertResizes(k, v) ==
    LET b == Pushed(k, v)
    IN  Stored(_check_and_resize_buckets(b),
               IF NewLength(b) = Len(b) THEN ReadyCapacity ELSE NewLength(b))

\* There is no memory to resize: insert gives up and takes the front of the
\* bucket away, insert_without_resize_buckets goes on.
InsertCannotResize(k, v, force_resize_buckets) ==
    LET b == Pushed(k, v)
    IN  /\ NewLength(b) # Len(b)
        /\ IF force_resize_buckets
           THEN /\ _buckets' = pop_front(b, Index(k, Len(b)))
                /\ _capacity' = ReadyCapacity
                /\ ok' = FALSE
                /\ UNCHANGED _size
           ELSE Stored(b, ReadyCapacity)

insert(k, v, force_resize_buckets) ==
    /\ _size < MaxSize
    /\ \/ InsertFails(k)
       \/ InsertResizes(k, v)
       \/ InsertCannotResize(k, v, force_resize_buckets)

\* Removing never resizes.
remove(k) ==
    /\ contains(k)
    /\ LET i == Index(k, Len(_buckets))
       IN  _buckets' = [_buckets EXCEPT ![i] = RemoveAt(@, _get_bucket_slot(@, k))]
    /\ _size' = _size - 1
    /\ UNCHANGED <<_capacity, ok>>

\* Both leave _size as it was.
clear == /\ _buckets' = << >>
         /\ UNCHANGED <<_capacity, _size, ok>>

clear_and_shrink == /\ _buckets' = << >> /\ _capacity' = 0
                    /\ UNCHANGED <<_size, ok>>

\* operator=: takes the buckets of another map, which is empty.
Assign == /\ _buckets' = << >> /\ _capacity' = 0 /\ _size' = 0
          /\ UNCHANGED ok

Next == \/ \E k \in Key, v \in Value, force \in BOOLEAN : insert(k, v, force)
        \/ \E k \in Key : remove(k)
        \/ clear \/ clear_and_shrink \/ Assign

Spec == Init /\ [][Next]_vars

-----------------------------------------------------------------------------
(* Iterators: the bucket and the place in it; bucket 0 is the end.         *)

End == [bucket |-> 0, place |-> 0]
Panic == [bucket |-> -1, place |-> 0]

\* The first place in the first bucket of S that is not empty, the last one in
\* the last, or otherwise `none'.
FirstIn(S, none) ==
    LET filled == {b \in S : _buckets[b] # << >>}
    IN  IF filled = {} THEN none ELSE [bucket |-> Min(filled), place |-> 1]

LastIn(S, none) ==
    LET filled == {b \in S : _buckets[b] # << >>}
    IN  IF filled = {} THEN none ELSE [bucket |-> Max(filled), place |-> Len(_buckets[Max(filled)])]

After(it, none) == IF it.place < Len(_buckets[it.bucket]) THEN [it EXCEPT !.place = @ + 1]
                   ELSE FirstIn(it.bucket + 1 .. Len(_buckets), none)

Before(it, none) == IF it.place > 1 THEN [it EXCEPT !.place = @ - 1]
                    ELSE LastIn(1 .. it.bucket - 1, none)

begin == FirstIn(1 .. Len(_buckets), End)

Increase(it, direction) ==
    IF it = End THEN Panic ELSE IF direction = "Forward" THEN After(it, End) ELSE Before(it, End)

\* From the end, a forward iterator asks for the bucket behind the last one, and
\* a reversed one goes to the first bucket, even when it is empty.
Decrease(it, direction) ==
    IF direction = "Forward" THEN IF it = End THEN Panic ELSE Before(it, Panic)
    ELSE IF it = End THEN IF _buckets = << >> THEN Panic
                          ELSE [bucket |-> 1, place |-> IF _buckets[1] = << >> THEN 0 ELSE 1]
    ELSE IF it.place = 0 THEN Panic ELSE After(it, Panic)

\* Two iterators are equal when they stand on the same node.
Same(i, j) == i = j
Deref(it) == _buckets[it.bucket][it.place]

\* The iterator's bucket is left indeterminate.  Callers compare it with end()
\* and read the element.
find(k) ==
    IF _buckets = << >> \/ ~contains(k) THEN End
    ELSE LET b == Index(k, Len(_buckets))
         IN  [bucket |-> b, place |-> _get_bucket_slot(_buckets[b], k)]

\* No element: a panic.
at(k) == IF Same(find(k), End) THEN Panic ELSE Deref(find(k))

-----------------------------------------------------------------------------
(* Loops from begin() to end(): the elements they visit.                   *)

Loop ==
    LET n == Len(FlattenSeq(_buckets))
        it[i \in 1 .. n + 1] == IF i = 1 THEN begin
                                ELSE IF Same(it[i - 1], End) THEN End
                                ELSE Increase(it[i - 1], "Forward")
    IN  [i \in {j \in 1 .. n + 1 : ~Same(it[j], End)} |-> Deref(it[i])]

\* A HashMap's iterators, const or not, are the iterators of its set; key() and
\* value() take the pair apart.
MapLoop == [i \in DOMAIN Loop |-> <<Loop[i].key, Loop[i].value>>]
MapConstLoop == MapLoop

-----------------------------------------------------------------------------
Elements == ToSet(FlattenSeq(_buckets))

AsMap == [k \in {e.key : e \in Elements} |-> (CHOOSE e \in Elements : e.key = k).value]

\* A lookup (hashset.hh:267-285) finds a key exactly when an element with it is
\* stored in any bucket, and then this element and no second one, whatever
\* growing and shrinking have moved.
FindAgrees ==
    /\ \A k \in Key : _get(k) = {e.value : e \in {x \in Elements : x.key = k}}
    /\ Len(FlattenSeq(_buckets)) = Cardinality({e.key : e \in Elements})

Places == UNION {{[bucket |-> b, place |-> i] : i \in DOMAIN _buckets[b]} : b \in DOMAIN _buckets}

\* A loop over a hash map (hashset.hh:414-447, 550-562, hashmap.hh:171-299) reads
\* every pair once and ends, the place find and at go to has the key they look
\* for, and a step back (hashset.hh:456-495) undoes a step between elements, in
\* either direction.
IterationAgrees ==
    /\ \A loop \in {MapLoop, MapConstLoop} :
          /\ DOMAIN loop = 1 .. Len(FlattenSeq(_buckets))
          /\ ToSet(loop) = {<<e.key, e.value>> : e \in Elements}
    /\ \A k \in Key : IF contains(k) THEN at(k).key = k ELSE at(k) = Panic
    /\ \A it \in Places, d \in {"Forward", "Reversed"} :
          Increase(it, d) # End => Decrease(Increase(it, d), d) = it

D == INSTANCE Dict WITH map <- AsMap

\* The hash map is a map (Dict): what insert (hashset.hh:174-216) returns tells
\* the caller whether the element is in, and a failed insertion of a new key, a
\* removal and a resize leave all other elements alone.
ImplementsDict == D!Spec
=============================================================================
