-------------------------------- MODULE Kima --------------------------------
(***************************************************************************)
(* The kernel heap, a pool of kernel/mm/kima: blocks (ublk) at addresses   *)
(* inside pages that have a descriptor (vpgdesc) counting the blocks on    *)
(* them.  Blocks and descriptors live in slots of pages that the pool      *)
(* takes for them and gives back when their last slot is free.  A step is  *)
(* one call: the calls of one pool follow each other under its mutex.      *)
(*                                                                         *)
(* The trees are functions on addresses, ordered by address.               *)
(* num_allocated_pages, which nobody reads, and the bytes in the blocks    *)
(* are left out.                                                           *)
(***************************************************************************)
EXTENDS Integers, FiniteSets, FiniteSetsExt, Functions, SequencesExt

CONSTANTS page_size, ublk_slots_size, vpgdesc_slots_size,
          Requests,   \* the sizes and alignments that callers ask for
          TopPage,    \* bound: the pages mm_pgalloc can back, 1 to TopPage
          MaxResizes  \* bound: the reallocations that change the pool, and the
                      \* allocations whose block leaves its pages

VARIABLES pool,     \* ublk and vpgdesc: address -> size or ref_count, and the
                    \* page of the slot; used_num: the slots in use of a slot
                    \* page; list: the head of a list of slot pages and the
                    \* prev and next of every page that was ever on it, 0 for
                    \* none; top: the first page nobody has taken
          resized,  \* history: the kinds of reallocation that changed the pool
          spilled,  \* history: the requests whose block left the pages counted for it
          panic     \* the assertion that failed, or "none"

vars == <<pool, resized, spilled, panic>>

Empty == [a \in {} |-> 0]

Init == /\ pool = [ublk |-> Empty, vpgdesc |-> Empty,
                   used_num |-> [ublk |-> Empty, vpgdesc |-> Empty],
                   list |-> [kind \in {"ublk", "vpgdesc"} |-> [head |-> 0, prev |-> Empty, next |-> Empty]],
                   top |-> 1]
        /\ resized = <<>> /\ spilled = <<>>
        /\ panic = "none"

With(f, x, v) == [y \in DOMAIN f \cup {x} |-> IF y = x THEN v ELSE f[y]]
Without(f, x) == Restrict(f, DOMAIN f \ {x})

floor_align_to(a, n) == (a \div n) * n
ceil_align_to(a, n) == floor_align_to(a + n - 1, n)

\* The pages with a byte of the size bytes at base.
PagesOf(base, size) ==
    {floor_align_to(a, page_size) : a \in base..(base + size - 1)}

\* PBOS_ISOVERLAPPED
Overlapped(a, m, b, n) == a < b + n /\ b < a + m

-----------------------------------------------------------------------------
(* Pages, slots, descriptors and blocks.                                   *)

\* n new pages, one after the other above all that were ever taken, as
\* nothing is ever unmapped.  The pages that were backed before memory ran
\* out stay backed.
kima_vpgalloc(p, n) ==
    LET fits == p.top + n <= TopPage + 1
    IN  [ok |-> fits, at |-> p.top * page_size,
         pool |-> [p EXCEPT !.top = IF fits THEN @ + n ELSE TopPage + 1]]

slots_size == [ublk |-> ublk_slots_size, vpgdesc |-> vpgdesc_slots_size]

\* A new slot page comes in front of its list.
Pushed(l, g) ==
    [head |-> g, next |-> With(l.next, g, l.head),
     prev |-> With(IF l.head = 0 THEN l.prev ELSE With(l.prev, l.head, g), g, 0)]

\* A slot page leaves its list.  When it is the head it stays the head, and the next
\* page is pushed in front of it: its prev is written although it was given back.  It is
\* still mapped then and is nobody else's.
Unlinked(l, g) ==
    [l EXCEPT !.next = IF l.prev[g] = 0 THEN @ ELSE With(@, l.prev[g], l.next[g]),
              !.prev = IF l.next[g] = 0 THEN @ ELSE With(@, l.next[g], l.prev[g])]

\* The lowest free slot, or the first one of a new slot page.
TakeSlot(p, kind) ==
    LET open == {g \in DOMAIN p.used_num[kind] : p.used_num[kind][g] < slots_size[kind]}
        g == IF open = {} THEN p.top * page_size ELSE Min(open)
        got == IF open = {} THEN kima_vpgalloc(p, 1) ELSE [ok |-> TRUE, pool |-> p]
        used == IF open = {} THEN 0 ELSE p.used_num[kind][g]
    IN  [ok |-> got.ok, pg |-> g,
         pool |-> IF got.ok THEN [got.pool EXCEPT !.used_num[kind] = With(@, g, used + 1),
                                                  !.list[kind] = IF open = {} THEN Pushed(@, g) ELSE @]
                            ELSE got.pool]

\* A slot page without a slot in use is given back, and never comes again.
GiveSlot(p, kind, g) ==
    IF p.used_num[kind][g] = 1
    THEN [p EXCEPT !.used_num[kind] = Without(@, g), !.list[kind] = Unlinked(@, g)]
    ELSE [p EXCEPT !.used_num[kind][g] = @ - 1]

kima_alloc_vpgdesc(p, a) ==
    LET s == TakeSlot(p, "vpgdesc")
    IN  IF s.ok THEN [s EXCEPT !.pool.vpgdesc = With(@, a, [ref_count |-> 0, pg |-> s.pg])]
                ELSE s

kima_free_vpgdesc(p, a) ==
    [GiveSlot(p, "vpgdesc", p.vpgdesc[a].pg) EXCEPT !.vpgdesc = Without(@, a)]

\* insert_unwrap stops the kernel where a block begins already.
kima_alloc_ublk(p, a, size) ==
    LET s == TakeSlot(p, "ublk")
    IN  IF ~s.ok THEN [ok |-> FALSE, panic |-> "none", pool |-> s.pool]
        ELSE IF a \in DOMAIN p.ublk THEN [ok |-> TRUE, panic |-> "insert", pool |-> p]
        ELSE [ok |-> TRUE, panic |-> "none",
              pool |-> [s.pool EXCEPT !.ublk = With(@, a, [size |-> size, pg |-> s.pg])]]

kima_free_ublk(p, a) ==
    [GiveSlot(p, "ublk", p.ublk[a].pg) EXCEPT !.ublk = Without(@, a)]

\* The block that begins at a or nearest below it, as a set.
kima_lookup_nearest_ublk(p, a) ==
    LET below == {b \in DOMAIN p.ublk : b <= a}
    IN  IF below = {} THEN {} ELSE {Max(below)}

\* ++ref_count of the descriptors at S.
Ref(p, S) ==
    [p EXCEPT !.vpgdesc = [a \in DOMAIN p.vpgdesc |->
         IF a \in S THEN [p.vpgdesc[a] EXCEPT !.ref_count = @ + 1] ELSE p.vpgdesc[a]]]

\* --ref_count of the descriptors at S; the ones without a block go.
UnrefOne(a, p) == IF p.vpgdesc[a].ref_count = 1 THEN kima_free_vpgdesc(p, a)
                  ELSE [p EXCEPT !.vpgdesc[a].ref_count = @ - 1]
Unref(p, S) == FoldSet(UnrefOne, p, S)

-----------------------------------------------------------------------------
(* The calls.                                                              *)

\* The descriptors that cover size bytes from the descriptor at d.
Covering(d, size) == {d + j : j \in {k \in 0..(size - 1) : k % page_size = 0}}

\* Mutant: only the block nearest below the first byte is looked at.
PlaceFirstByte(p, q, d, old) ==
    LET limit == d + ceil_align_to(q.size, page_size) - q.size
        place[cur \in Nat] ==
            LET base == ceil_align_to(cur, q.alignment)
                hit == {b \in kima_lookup_nearest_ublk(p, base) :
                           /\ b \notin old
                           /\ Overlapped(base, q.size, b, p.ublk[b].size)}
            IN  IF cur > limit THEN 0
                ELSE IF hit = {} THEN base
                ELSE place[Min(hit) + p.ublk[Min(hit)].size]
    IN  place[d]

\* Where the loop over the addresses from the descriptor at d ends, 0 if it
\* finds no place.  It never looks at the block old.
Place(p, q, d, old) ==
    LET limit == d + ceil_align_to(q.size, page_size) - q.size
        place[cur \in Nat] ==
            LET base == ceil_align_to(cur, q.alignment)
                hit == {b \in kima_lookup_nearest_ublk(p, base)
                              \cup kima_lookup_nearest_ublk(p, base + q.size - 1) :
                           /\ b \notin old
                           /\ Overlapped(base, q.size, b, p.ublk[b].size)}
            IN  IF cur > limit THEN 0
                ELSE IF hit = {} THEN base
                ELSE place[Min(hit) + p.ublk[Min(hit)].size]
    IN  place[d]

\* The lowest descriptor that begins enough adjacent pages and has a place on
\* them, as a set.
Found(p, q, old) ==
    LET fit == {d \in DOMAIN p.vpgdesc : /\ Covering(d, q.size) \subseteq DOMAIN p.vpgdesc
                                         /\ Place(p, q, d, old) # 0}
    IN  IF fit = {} THEN {} ELSE {Min(fit)}

\* The loop that describes new pages: a descriptor with one reference every
\* step bytes from at, below limit; stopped is where it ended.
Describe(p, at, step, limit) ==
    LET turn(l, i) ==
            IF ~l.ok THEN l
            ELSE LET d == kima_alloc_vpgdesc(l.pool, at + i)
                 IN  [ok |-> d.ok, stopped |-> IF d.ok THEN i + step ELSE i,
                      pool |-> IF d.ok THEN Ref(d.pool, {at + i}) ELSE d.pool]
    IN  FoldLeft(turn, [ok |-> TRUE, stopped |-> 0, pool |-> p],
                 [n \in 1..(ceil_align_to(limit, step) \div step) |-> (n - 1) * step])

\* release_vpgdesc_sg: the descriptors of the pages from at, below stopped.
Undescribe(p, at, stopped) ==
    FoldSet(LAMBDA a, h : kima_free_vpgdesc(h, a), p,
            IF stopped = 0 THEN {} ELSE Covering(at, stopped))

\* The pool after a call that gives no block.
Stays(p) == [ok |-> FALSE, panic |-> "none", pool |-> p]

\* Mutant: the guard is released before the block is allocated.
AllocPagesUnguarded(p, q) ==
    LET pages == kima_vpgalloc(p, ceil_align_to(q.size + q.alignment, page_size) \div page_size)
        at == ceil_align_to(pages.at, q.alignment)
        loop == Describe(pages.pool, at, page_size, q.size)
        ublk == kima_alloc_ublk(loop.pool, at, q.size)
    IN  IF ~pages.ok THEN Stays(pages.pool)
        ELSE IF ~loop.ok THEN Stays(Undescribe(loop.pool, at, loop.stopped))
        ELSE ublk

\* kima_alloc when no described page has room.
AllocPages(p, q) ==
    LET pages == kima_vpgalloc(p, ceil_align_to(q.size + q.alignment, page_size) \div page_size)
        at == ceil_align_to(pages.at, q.alignment)
        loop == Describe(pages.pool, at, page_size, q.size)
        ublk == kima_alloc_ublk(loop.pool, at, q.size)
    IN  IF ~pages.ok THEN Stays(pages.pool)
        ELSE IF ~loop.ok THEN Stays(Undescribe(loop.pool, at, loop.stopped))
        ELSE IF ~ublk.ok THEN Stays(Undescribe(ublk.pool, at, loop.stopped))
        ELSE ublk

\* The references of a block at a go to the pages from d on, which it may have left.
Spills(q, d, a) == IF PagesOf(a, q.size) \subseteq Covering(d, q.size) THEN <<>> ELSE <<q>>

kima_alloc(q) ==
    /\ panic = "none"
    /\ \/ \E d \in Found(pool, q, {}) : \E a \in {Place(pool, q, d, {})} :
             LET ublk == kima_alloc_ublk(pool, a, q.size)
             IN  /\ Spills(q, d, a) = <<>> \/ Len(resized \o spilled) < MaxResizes
                 /\ pool' = IF ublk.ok THEN Ref(ublk.pool, Covering(d, q.size)) ELSE ublk.pool
                 /\ panic' = ublk.panic
                 /\ spilled' = IF ublk.ok THEN spilled \o Spills(q, d, a) ELSE spilled
       \/ /\ Found(pool, q, {}) = {}
          /\ \E new \in {AllocPages(pool, q)} : pool' = new.pool /\ panic' = new.panic
          /\ UNCHANGED spilled
    /\ UNCHANGED resized

\* kd_assert(vpgdesc) for the pages of a block.
Described(p, b) == PagesOf(b, p.ublk[b].size) \subseteq DOMAIN p.vpgdesc

Freed(p, b) == kima_free_ublk(Unref(p, PagesOf(b, p.ublk[b].size)), b)

kima_free(b) ==
    /\ panic = "none"
    /\ IF Described(pool, b) THEN pool' = Freed(pool, b) /\ UNCHANGED panic
                             ELSE panic' = "vpgdesc" /\ UNCHANGED pool
    /\ UNCHANGED <<resized, spilled>>

\* Whether the search for the size bytes at a met b in place of the block below it.
Hides(b, a, size) ==
    b \in kima_lookup_nearest_ublk(pool, a) \cup kima_lookup_nearest_ublk(pool, a + size - 1)

\* kima_realloc to a place on described pages: the block keeps its slot.
ReallocMoves(b, q, d, a) ==
    LET old == pool.ublk[b]
        refs == Unref(Ref(pool, Covering(d, q.size)), PagesOf(b, old.size))
    IN  IF Described(pool, b)
        THEN /\ pool' = [refs EXCEPT !.ublk = With(Without(@, b), a, [old EXCEPT !.size = q.size])]
             /\ resized' = Append(resized, IF Hides(b, a, q.size) THEN "hidden" ELSE "moved")
             /\ spilled' = spilled \o Spills(q, d, a)
             /\ UNCHANGED panic
        ELSE panic' = "vpgdesc" /\ UNCHANGED <<pool, resized, spilled>>

\* kima_realloc to new pages: every byte of the first page gets a descriptor,
\* the references to the old pages stay, and a failure after the old block is
\* freed does not bring it back.
ReallocPages(b, q) ==
    LET pages == kima_vpgalloc(pool, ceil_align_to(q.size + q.alignment, page_size) \div page_size)
        at == ceil_align_to(pages.at, q.alignment)
        loop == Describe(pages.pool, at, 1, page_size)
        ublk == kima_alloc_ublk(kima_free_ublk(loop.pool, b), at, q.size)
        new == IF ~pages.ok THEN Stays(pages.pool)
               ELSE IF ~loop.ok THEN Stays(Undescribe(loop.pool, at, loop.stopped))
               ELSE IF ~ublk.ok THEN Stays(Undescribe(ublk.pool, at, loop.stopped))
               ELSE ublk
    IN  /\ pool' = new.pool /\ panic' = new.panic
        /\ resized' = IF pages.ok THEN Append(resized, "pages") ELSE resized
        /\ UNCHANGED spilled

kima_realloc(b, q) ==
    /\ panic = "none" /\ Len(resized \o spilled) < MaxResizes
    /\ \/ \E d \in Found(pool, q, {b}) : ReallocMoves(b, q, d, Place(pool, q, d, {b}))
       \/ Found(pool, q, {b}) = {} /\ ReallocPages(b, q)

\* The early returns of kima_realloc_in_place.
InPlaceFits(p, b, q) ==
    /\ Covering(b, q.size) \subseteq DOMAIN p.vpgdesc
    /\ b % q.alignment = 0
    /\ \A n \in kima_lookup_nearest_ublk(p, b + q.size - 1) \ {b} :
          ~Overlapped(b, q.size, n, p.ublk[n].size)

\* A block that does not begin a page has no descriptor of its own to start
\* from, and the loop that releases pages counts up until one is missing.
InPlaceFails(p, b, q) ==
    \/ b \notin DOMAIN p.vpgdesc
    \/ /\ InPlaceFits(p, b, q)
       /\ ceil_align_to(p.ublk[b].size, page_size) > ceil_align_to(q.size, page_size)

kima_realloc_in_place(b, q) ==
    /\ panic = "none" /\ Len(resized \o spilled) < MaxResizes
    /\ \/ /\ InPlaceFails(pool, b, q)
          /\ panic' = "in place" /\ UNCHANGED <<pool, resized>>
       \/ /\ ~InPlaceFails(pool, b, q)
          /\ InPlaceFits(pool, b, q)
          /\ pool' = [Ref(pool, Covering(b, q.size)) EXCEPT !.ublk[b].size = q.size]
          /\ resized' = Append(resized, "in place")
          /\ UNCHANGED panic
    /\ UNCHANGED spilled

\* kima_free on the lowest block until there is none.
kima_free_pool ==
    LET turn(l, b) == [ok |-> l.ok /\ Described(l.pool, b),
                       pool |-> IF l.ok /\ Described(l.pool, b) THEN Freed(l.pool, b)
                                                                ELSE l.pool]
        loop == FoldLeft(turn, [ok |-> TRUE, pool |-> pool],
                         SetToSortSeq(DOMAIN pool.ublk, <))
    IN  /\ panic = "none"
        /\ pool' = loop.pool
        /\ panic' = IF loop.ok THEN panic ELSE "vpgdesc"
        /\ UNCHANGED <<resized, spilled>>

\* A kernel stack or another pool takes a page of the kernel's area.
mm_kvmalloc == /\ panic = "none" /\ pool.top <= TopPage
               /\ pool' = [pool EXCEPT !.top = @ + 1]
               /\ UNCHANGED <<resized, spilled, panic>>

Next == \/ \E q \in Requests : \/ kima_alloc(q)
                               \/ \E b \in DOMAIN pool.ublk : \/ kima_realloc(b, q)
                                                              \/ kima_realloc_in_place(b, q)
        \/ \E b \in DOMAIN pool.ublk : kima_free(b)
        \/ kima_free_pool
        \/ mm_kvmalloc

Spec == Init /\ [][Next]_vars

-----------------------------------------------------------------------------
(* Properties.                                                             *)

\* No block was searched for from behind the one that moved, or got new pages, or left its pages.
Orderly == Range(resized) \subseteq {"moved", "in place"} /\ spilled = <<>>

\* Blocks never share a byte, unless kima_realloc looked from behind the block it moves, which hides
\* the blocks below it (malloc.cc:155, 163), and lie on pages that have a descriptor.
\* A block leaves the pages it was found on, and counted for, only when its size is no
\* multiple of its alignment: the limit is tested before the address is aligned (malloc.cc:37, 148).
\* Without such calls neither allocating nor freeing ever stops the kernel.
BlocksApart ==
    /\ "hidden" \notin Range(resized) /\ spilled = <<>> =>
          \A b \in DOMAIN pool.ublk : \A c \in DOMAIN pool.ublk \ {b} :
              ~Overlapped(b, pool.ublk[b].size, c, pool.ublk[c].size)
    /\ Orderly => panic \in {"none", "in place"} /\ \A b \in DOMAIN pool.ublk : Described(pool, b)
    /\ "pages" \notin Range(resized) => \A q \in Range(spilled) : q.size % q.alignment # 0

\* ref_count is the number of blocks on the page, and never less when blocks
\* have been resized in place (malloc.cc:300).
RefsCountBlocks ==
    LET blocks(a) == Cardinality({b \in DOMAIN pool.ublk : a \in PagesOf(b, pool.ublk[b].size)})
    IN  \A a \in DOMAIN pool.vpgdesc :
            /\ Orderly => pool.vpgdesc[a].ref_count >= blocks(a)
            /\ Orderly /\ "in place" \notin Range(resized) => pool.vpgdesc[a].ref_count = blocks(a)

\* The pages a walk over a list meets.
Listed(l) == LET from[g \in {0} \cup DOMAIN l.next] == IF g = 0 THEN {} ELSE {g} \cup from[l.next[g]]
             IN  from[l.head]

\* used_num of a slot page is the number of its slots in use: a slot page goes
\* with its last block or descriptor and never before (ublk.cc:29,
\* vpgdesc.cc:20), whatever calls failed on the way.  Its list has every slot page in use, although
\* the pages given back may still be between them (ublk.cc:30-33, 66-71).
SlotsCounted ==
    \A kind \in {"ublk", "vpgdesc"} :
        /\ DOMAIN pool.used_num[kind] \subseteq Listed(pool.list[kind])
        /\ \A a \in DOMAIN pool[kind] : pool[kind][a].pg \in DOMAIN pool.used_num[kind]
        /\ \A g \in DOMAIN pool.used_num[kind] :
              /\ pool.used_num[kind][g] \in 1..slots_size[kind]
              /\ pool.used_num[kind][g] =
                    Cardinality({a \in DOMAIN pool[kind] : pool[kind][a].pg = g})

\* Both counts of the pool are exact, so pages and slot pages go when nothing
\* is left on them and not before (malloc.cc:340, ublk.cc:29, vpgdesc.cc:20).
CountsExact == RefsCountBlocks /\ SlotsCounted

\* An allocation that gives no block leaves no descriptor behind, however far
\* it got (the guard at malloc.cc:89-94).
FailedAllocUndone ==
    [][pool'.ublk = pool.ublk /\ pool'.vpgdesc # pool.vpgdesc /\ panic' = "none" =>
           ~ \E q \in Requests : kima_alloc(q)]_vars
=============================================================================
