------------------------------ MODULE DynArray ------------------------------
(***************************************************************************)
(* kfxx::DynArray (include/pbos/kfxx/dynarray.hh): the array under the     *)
(* buckets of a HashSet and the program headers of the ELF loader.  It is  *)
(* worked on with elements that are                                        *)
(*   "trivial"  moved by memmove and never destroyed (Elf64_Phdr),         *)
(*   "object"   moved and destroyed one by one (a bucket), or              *)
(*   "nothrow"  objects that have a default constructor, too.              *)
(* A call that its caller's kd_assert excludes is not made; the other      *)
(* assertions are faults.  Every allocation may fail.  A destructor that   *)
(* runs on what is no object is recorded, and the call goes on.            *)
(***************************************************************************)
EXTENDS Integers, Sequences, SequencesExt

CONSTANTS Elem,
          Raw,        \* no object, or one of which nothing is known
          Default,    \* an object as its constructor makes it
          Moved,      \* an object that was moved from
          MaxLength   \* bound on the length

VARIABLES kind,
          _data,      \* _capacity places, none for a null pointer
          _length,
          ok,         \* what the last call returned
          again,      \* whether it destroyed what was no object
          fault       \* "none", or what stopped the kernel

vars == <<kind, _data, _length, ok, again, fault>>

_capacity == Len(_data)
Trivial == kind = "trivial"

Init == /\ kind \in {"trivial", "object", "nothrow"}
        /\ _data = << >> /\ _length = 0 /\ ok = TRUE /\ again = FALSE /\ fault = "none"

-----------------------------------------------------------------------------
(* The elements.                                                           *)

\* One element goes from a place to another.
Moves(d, to, from) ==
    [k \in DOMAIN d |-> IF k = from /\ ~Trivial THEN Moved ELSE IF k = to THEN d[from] ELSE d[k]]

\* Mutant: the last element moves last.
MoveForward(d, to, from, n) ==
    FoldLeft(LAMBDA c, i : Moves(c, to + i, from + i), d, [i \in 1 .. n |-> i])

\* n elements go from the place behind `from' to the one behind `to': the first
\* one first only when the two ranges are apart and it goes down.  memmove takes
\* the same order.
_move_data(d, to, from, n) ==
    FoldLeft(LAMBDA c, i : Moves(c, to + i, from + i),
             d, [i \in 1 .. n |-> IF to + n <= from THEN i ELSE n + 1 - i])

_construct_data(d, from, to) ==
    [i \in DOMAIN d |-> IF ~Trivial /\ from < i /\ i <= to THEN Default ELSE d[i]]

_destruct_data(d, from, to) ==
    [i \in DOMAIN d |-> IF ~Trivial /\ from < i /\ i <= to THEN Raw ELSE d[i]]

\* The places between are all objects.
Objects(d, from, to) == Trivial \/ \A i \in from + 1 .. to : d[i] # Raw

_get_grown_capacity(length, old) ==
    IF old = 0 \/ old + (old \div 2) < length THEN length ELSE old + (old \div 2)

-----------------------------------------------------------------------------
(* How a call ends.                                                        *)

\* Its destructors run on the places behind `from' up to `to' of d.
Destroying(d, from, to, length, r, rest) == /\ _data' = rest /\ _length' = length /\ ok' = r
                                            /\ again' = ~Objects(d, from, to)
                                            /\ UNCHANGED <<kind, fault>>

Return(d, length, r) == Destroying(d, 0, 0, length, r, d)

Stop(why) == fault' = why /\ UNCHANGED <<kind, _data, _length, ok, again>>

\* The elements in memory of n places.  mm_krealloc does not copy a block for
\* which it has to take new pages.
Reallocated(d, n) ==
    {[i \in 1 .. n |-> IF i <= _length THEN d[i] ELSE Raw]}
        \cup (IF Trivial /\ _capacity > 0 THEN {[i \in 1 .. n |-> Raw]} ELSE {})

\* The elements in grown memory, with the new ones constructed or not.
_expand_to(length, capacity, construct) ==
    {IF construct THEN _construct_data(d, _length, length) ELSE d : d \in Reallocated(_data, capacity)}

\* _grow_capacity, after which the elements lie as in one of `grown': a failure
\* leaves all as it was, and the old elements are destroyed.  The first memory of elements with a default constructor
\* is asked of mm_krealloc_in_place with a null pointer, which asserts that there
\* is a block.
_grow_capacity(length, grown) ==
    IF kind = "nothrow" /\ _capacity = 0 THEN Stop("no block")
    ELSE \/ Return(_data, _length, FALSE)
         \/ \E d \in grown : Destroying(_data, 0, _length, length, TRUE, d)

\* _shrink_capacity with elements that lie as in d, of which those behind `from'
\* up to `to' were destroyed before: no block is empty.  What is cut off is
\* destroyed by _shrink, and by _clear again with all the rest.  After a failure
\* the elements lie as in `failed', all of them below the length.
_shrink_capacity(d, length, from, to, failed) ==
    \/ length \notin 1 .. _length /\ Stop("assertion")
    \/ length = _length /\ ~Trivial /\ Stop("assertion")
    \/ length \in 1 .. _length /\ Destroying(_data, from, to, _length, FALSE, failed)
    \/ /\ length \in 1 .. IF Trivial THEN _length ELSE _length - 1
       /\ \E c \in Reallocated(d, length) :
             Destroying(_destruct_data(d, length, _length), 0, _length, length, TRUE, c)

-----------------------------------------------------------------------------
(* The calls.  A caller of resize_uninit constructs the new elements x.    *)

\* The elements of d, with x in the new places.
Constructed(d, length, x) == [i \in DOMAIN d |-> IF i > _length /\ i <= length THEN x ELSE d[i]]

\* Cutting the tail off, or filling places that are there.
Within(length, x) ==
    IF length < _length
    THEN Destroying(_data, length, _length, length, TRUE, _destruct_data(_data, length, _length))
    ELSE Return(Constructed(_data, length, x), length, TRUE)

resize_uninit(length, x) ==
    IF length <= _capacity THEN Within(length, x)
    ELSE _grow_capacity(length, {Constructed(d, length, x) :
                             d \in _expand_to(length, _get_grown_capacity(length, _capacity), FALSE)})

resize(length) ==
    IF length <= _capacity THEN Within(length, IF Trivial THEN Raw ELSE Default)
    ELSE _grow_capacity(length, _expand_to(length, _get_grown_capacity(length, _capacity), TRUE))

\* A growth that needs no memory is taken for a shrinking one.
resize_and_shrink(length) ==
    CASE length > _capacity -> _grow_capacity(length, _expand_to(length, length, TRUE))
      [] length \in _length + 1 .. _capacity -> Stop("assertion")
      [] length < _length -> _shrink_capacity(_data, length, 0, 0, _data)
      [] OTHER -> Return(_data, _length, TRUE)

\* The n places behind index are free in d, for s to be constructed there.
Opened(d, index, s) ==
    LET moved == _move_data(d, index + Len(s), index, _length - index)
    IN  [i \in DOMAIN d |-> IF i > index /\ i <= index + Len(s) THEN s[i - index] ELSE moved[i]]

_insert_range(index, s, construct) ==
    LET length == _length + Len(s)
    IN  IF length <= _capacity THEN Return(Opened(_data, index, s), length, TRUE)
        ELSE _grow_capacity(length, {Opened(d, index, s) :
                 d \in _expand_to(length, _get_grown_capacity(length, _capacity), construct)})

insert(index, x) == _insert_range(index, <<x>>, FALSE)

insert_range_initialized(index, n) ==
    _insert_range(index, [i \in 1 .. n |-> IF Trivial THEN Raw ELSE Default], TRUE)

\* The gap, of which the part that nothing will fill is destroyed, with what
\* follows moved into it.
Filled(from, to) == Min({to, from + _length - to})
Erased(from, to) == _move_data(_destruct_data(_data, Filled(from, to), to), from, to, _length - to)

\* Moving into the part of the gap that is still filled assigns; nothing is
\* destroyed behind the new length.
erase_range(from, to) ==
    Destroying(_data, Filled(from, to), to, _length - (to - from), TRUE, Erased(from, to))

erase_range_and_shrink(from, to) ==
    _shrink_capacity(Erased(from, to), _length - (to - from), Filled(from, to), to, Erased(from, to))

extract_range(from, to) ==
    LET d == IF from = 0 THEN _data ELSE _move_data(_data, 0, from, to - from)
    IN  /\ to - from < _length
        /\ Destroying(d, to - from, _length, to - from, TRUE, _destruct_data(d, to - from, _length))

\* Does not look at where the range begins.
extract_range_and_shrink(from, to) == to - from < _length /\ _shrink_capacity(_data, to - from, 0, 0, _data)

pop_back == _length > 0 /\ Within(_length - 1, Raw)

pop_front ==
    LET d == _move_data(_data, 0, 1, _length - 1)
    IN  /\ _length > 0
        /\ Destroying(d, _length - 1, _length, _length - 1, TRUE, _destruct_data(d, _length - 1, _length))

\* A failure moves the elements back and constructs the first one again.
pop_front_and_shrink ==
    LET d == _move_data(_data, 0, 1, _length - 1)
        back == _move_data(d, 1, 0, _length - 1)
    IN  /\ _length > 0
        /\ _shrink_capacity(d, _length - 1, 0, 0, [back EXCEPT ![1] = _data[1]])

\* clear keeps the memory, _clear gives it back.
clear == Within(0, Raw)

_clear == Destroying(_data, 0, _length, 0, TRUE, << >>)

\* Copies the elements of another array.  Without the memory for them the array
\* is left empty.
build(s) ==
    LET Built(n) == [i \in 1 .. n |-> IF i <= Len(s) THEN s[i] ELSE IF Trivial /\ n = _capacity THEN _data[i] ELSE Raw]
        Ends(n) == Destroying(_data, 0, _length, Len(s), TRUE, Built(n))
    IN  IF Len(s) <= _capacity THEN Ends(_capacity)
        ELSE IF kind = "nothrow" THEN Stop("no block")
        ELSE \/ Destroying(_data, 0, _length, 0, FALSE, _destruct_data(_data, 0, _length))
             \/ Ends(_get_grown_capacity(Len(s), _capacity))

\* operator=: takes the memory of another array.
Assign(s) == (kind = "nothrow" => s = << >>) /\ Destroying(_data, 0, _length, Len(s), TRUE, s)

Fits(n) == _length + n <= MaxLength

Next == /\ fault = "none"
        /\ \/ \E n \in 0 .. MaxLength : \/ \E x \in Elem : resize_uninit(n, x)
                                        \/ resize(n) \/ resize_and_shrink(n)
           \/ \E i \in 0 .. _length : \/ Fits(1) /\ \E x \in Elem : insert(i, x)
                                      \/ \E n \in 1 .. 2 : Fits(n) /\ insert_range_initialized(i, n)
           \/ \E i \in 0 .. _length - 1 : \E j \in i .. _length :
                 \/ erase_range(i, j) \/ erase_range_and_shrink(i, j)
                 \/ extract_range(i, j) \/ extract_range_and_shrink(i, j)
           \/ pop_back \/ pop_front \/ pop_front_and_shrink \/ clear \/ _clear
           \/ \E n \in 0 .. 2 : \E s \in [1 .. n -> Elem] : build(s) \/ Assign(s)

Spec == Init /\ [][Next]_vars

-----------------------------------------------------------------------------
Contents == SubSeq(_data, 1, _length)

Part(i, j) == SubSeq(Contents, i + 1, j)

\* Nothing was reallocated, or what was is moved element by element.
Intact == ~Trivial \/ Len(_data') = Len(_data)

\* A destructor ran on an element that is still below the length.
Holed == ~Objects(_data, 0, _length)

\* What the callers of an array (dynarray.hh:310-370, 655-714) may rely on.  An
\* insertion shifts what follows it, and erasing, extracting and popping keep
\* the rest in order, as far as nothing has to move down over itself; what lies
\* in front of an erased range stays in any case.  A call that fails leaves the
\* elements as they are, but for erase_range_and_shrink, build, which empties
\* the array, and pop_front_and_shrink on more than two.  The first of them may
\* leave destroyed elements below the length, and no other call does; and a
\* destructor runs on what is no object only where that has happened, and in
\* every shrinking of the memory of objects (dynarray.hh:145-160, 260-264).
ElementsKept ==
    [][/\ _length' = _length + 1 /\ Intact =>
             \A i \in 0 .. _length, x \in Elem : insert(i, x) => Contents' = InsertAt(Contents, i + 1, x)
       /\ _length' < _length =>
             \A i \in 0 .. _length - 1 : \A j \in {i + _length - _length'} \cap 0 .. _length :
                 erase_range(i, j) =>
                     /\ SubSeq(Contents', 1, i) = Part(0, i)
                     /\ _length - j <= j - i => Contents' = Part(0, i) \o Part(j, _length)
       /\ _length' < _length =>
             \A i \in {0} \cup _length' .. _length : \A j \in {i + _length'} \cap 0 .. _length :
                 extract_range(i, j) => Contents' = Part(i, j)
       /\ _length' = _length - 1 /\ pop_back => Contents' = Part(0, _length - 1)
       /\ _length' = _length - 1 /\ _length <= 2 /\ pop_front => Contents' = Part(1, _length)
       /\ ~ok' /\ Contents' # Contents =>
             \/ _length' = 0
             \/ pop_front_and_shrink /\ _length > 2
             \/ \E i \in 0 .. _length - 1 : \E j \in i .. _length : erase_range_and_shrink(i, j)
       /\ Holed' /\ ~Holed =>
             ~ok' /\ \E i \in 0 .. _length - 1 : \E j \in i .. _length :
                         _length - j < j - i /\ erase_range_and_shrink(i, j)
       /\ again' /\ fault' = "none" => Holed \/ (ok' /\ Len(_data') = _length' /\ _length' < _length)]_vars
=============================================================================
