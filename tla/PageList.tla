------------------------------ MODULE PageList ------------------------------
(***************************************************************************)
(* The physical page allocator of kernel/mm/pgalloc.cc, one action per     *)
(* call.  A page is identified with its descriptor (hn_mad_t) and with its *)
(* physical address; a region (ki_pmad_t) is identified with its base      *)
(* address, so that both are ordered as ki_pmad_tree and query_tree order  *)
(* them.  Calls are atomic here; PageAlloc splits them into statements.    *)
(***************************************************************************)
EXTENDS Integers

CONSTANTS Page,      \* physical addresses that have a descriptor
          Pmad,      \* base addresses of the regions in ki_pmad_tree
          Type,      \* MM_PHYSICAL_MEMORY_TYPE_*
          PmadOf,    \* ki_get_pmad: the region a page lies in
          TypeOf,    \* ki_pmad_t::type
          Reserved,  \* pages with a descriptor that boot keeps off the lists
          MaxRef,    \* bound on ref_count
          NULL

ASSUME PageAssumption == Page \subseteq Nat /\ Pmad \subseteq Nat
ASSUME RegionAssumption == PmadOf \in [Page -> Pmad] /\ TypeOf \in [Pmad -> Type]
ASSUME ReservedAssumption == Reserved \subseteq Page
ASSUME MaxRefAssumption == MaxRef \in Nat \ {0}
ASSUME NullAssumption == NULL \notin Nat

VARIABLES free_list,  \* ki_pmad_t::free_list
          next_free,  \* hn_mad_t::next_free
          prev_free,  \* hn_mad_t::prev_free
          ref_count   \* hn_mad_t::ref_count

vars == <<free_list, next_free, prev_free, ref_count>>

-----------------------------------------------------------------------------
(* Boot: every region's unreserved pages are chained in address order.     *)

Listed(a) == {p \in Page : PmadOf[p] = a /\ p \notin Reserved}

\* The lowest page of a set of pages, NULL when there is none.
Lowest(S) == IF S = {} THEN NULL ELSE CHOOSE p \in S : \A q \in S : p <= q

Successor(p) ==
    IF p \in Reserved THEN NULL ELSE Lowest({q \in Listed(PmadOf[p]) : q > p})

Predecessor(p) ==
    IF \E q \in Page : Successor(q) = p
    THEN CHOOSE q \in Page : Successor(q) = p ELSE NULL

Init == /\ free_list = [a \in Pmad |-> Lowest(Listed(a))]
        /\ next_free = [p \in Page |-> Successor(p)]
        /\ prev_free = [p \in Page |-> Predecessor(p)]
        /\ ref_count = [p \in Page |-> 0]

-----------------------------------------------------------------------------
(* The calls.                                                              *)

\* Regions of the type that still have a free page.
Candidates(type) == {a \in Pmad : TypeOf[a] = type /\ free_list[a] # NULL}

ki_alloc_free_page(type) ==
    IF Candidates(type) = {} THEN NULL
    ELSE free_list[CHOOSE a \in Candidates(type) : \A b \in Candidates(type) : a <= b]

\* Mutants of Unlink: the head stays; the page behind m keeps its prev_free.
UnlinkKeepsHead(m) ==
    /\ next_free' = [p \in Page |-> IF p = m THEN NULL
                                    ELSE IF p = prev_free[m] THEN next_free[m]
                                    ELSE next_free[p]]
    /\ prev_free' = [p \in Page |-> IF p = m THEN NULL
                                    ELSE IF p = next_free[m] THEN prev_free[m]
                                    ELSE prev_free[p]]
    /\ UNCHANGED free_list

UnlinkForwardOnly(m) ==
    /\ free_list' = IF free_list[PmadOf[m]] = m
                    THEN [free_list EXCEPT ![PmadOf[m]] = next_free[m]] ELSE free_list
    /\ next_free' = [p \in Page |-> IF p = m THEN NULL
                                    ELSE IF p = prev_free[m] THEN next_free[m]
                                    ELSE next_free[p]]
    /\ prev_free' = [prev_free EXCEPT ![m] = NULL]

\* unlink: the body of the if in ki_set_page_used.  The two neighbours are
\* distinct pages or NULL, and neither is m itself.
Unlink(m) ==
    /\ free_list' = IF free_list[PmadOf[m]] = m
                    THEN [free_list EXCEPT ![PmadOf[m]] = next_free[m]] ELSE free_list
    /\ next_free' = [p \in Page |-> IF p = m THEN NULL
                                    ELSE IF p = prev_free[m] THEN next_free[m]
                                    ELSE next_free[p]]
    /\ prev_free' = [p \in Page |-> IF p = m THEN NULL
                                    ELSE IF p = next_free[m] THEN prev_free[m]
                                    ELSE prev_free[p]]

ki_set_page_used(m) ==
    /\ ref_count[m] < MaxRef
    /\ ref_count' = [ref_count EXCEPT ![m] = @ + 1]
    /\ IF ref_count[m] = 0 THEN Unlink(m)
                           ELSE UNCHANGED <<free_list, next_free, prev_free>>

\* A page at address 0 reads as failure, so nothing is marked.
mm_pgalloc(type) ==
    LET addr == ki_alloc_free_page(type)
    IN  addr \notin {NULL, 0} /\ ki_set_page_used(addr)

mm_refpg(m) == ki_set_page_used(m)

\* Puts m in front of the head without making m the head.
ki_set_page_free(m) ==
    LET head == free_list[PmadOf[m]]
    IN  /\ ref_count[m] > 0
        /\ ref_count' = [ref_count EXCEPT ![m] = @ - 1]
        /\ IF ref_count[m] = 1
           THEN /\ prev_free' = [p \in Page |-> IF p = head THEN m ELSE prev_free[p]]
                /\ next_free' = [next_free EXCEPT ![m] = head]
           ELSE UNCHANGED <<next_free, prev_free>>
        /\ UNCHANGED free_list

mm_pgfree(m) == ki_set_page_free(m)

Next == \/ \E type \in Type : mm_pgalloc(type)
        \/ \E m \in Page : mm_refpg(m) \/ mm_pgfree(m)

Spec == Init /\ [][Next]_vars

-----------------------------------------------------------------------------
(* Invariants.                                                             *)

\* The pages threaded on their region's list: the head, and the pages that
\* point back to another.
OnList == {p \in Page : p = free_list[PmadOf[p]] \/ prev_free[p] # NULL}

\* The values the four fields range over; every link stays in its region.
TypeOK == /\ free_list \in [Pmad -> Page \cup {NULL}]
          /\ next_free \in [Page -> Page \cup {NULL}]
          /\ prev_free \in [Page -> Page \cup {NULL}]
          /\ ref_count \in [Page -> 0..MaxRef]
          /\ \A a \in Pmad : free_list[a] # NULL => PmadOf[free_list[a]] = a
          /\ \A p \in Page : next_free[p] # NULL => PmadOf[next_free[p]] = PmadOf[p]
          /\ \A p \in Page : prev_free[p] # NULL => PmadOf[prev_free[p]] = PmadOf[p]

\* A page that is threaded on a list has no user, so mm_pgalloc (which takes
\* the head, pgalloc.cc:115) never hands out a page that somebody holds,
\* whatever mix of mm_pgfree and mm_refpg on listed, freed and reserved pages
\* came before.
ListedUnused == \A p \in Page : p \in OnList => ref_count[p] = 0

\* A page in use has no links left.  In particular kd_assert(!mad->prev_free)
\* in ki_set_page_free (pgalloc.cc:89) never fires.
UsedUnlinked ==
    \A p \in Page : ref_count[p] > 0 => next_free[p] = NULL /\ prev_free[p] = NULL

\* Following next_free from a listed page and prev_free back returns to it,
\* and following prev_free and then next_free does: the unlinking in
\* ki_set_page_used (pgalloc.cc:65-68) never splices a page out of one list
\* and leaves it in the other direction.
LinksMutual ==
    \A p \in Page :
        /\ p \in OnList /\ next_free[p] # NULL => prev_free[next_free[p]] = p
        /\ prev_free[p] # NULL => next_free[prev_free[p]] = p

\* The page behind a listed page is listed too, except behind the head: there
\* only a page can stand that ki_set_page_free put in front of the list.
BackListed ==
    \A p \in Page : prev_free[p] # NULL =>
        (prev_free[p] \in OnList <=> p # free_list[PmadOf[p]])

\* Every list stays in address order, as hn_mm_init_areas builds it: no
\* sequence of calls closes a cycle or threads a page twice, so handing out
\* page after page exhausts the list.
Ascending ==
    \A p \in Page : p \in OnList /\ next_free[p] # NULL => p < next_free[p]

\* Only the neighbour recorded in prev_free points forward to a listed page
\* that is not the head: the stale next_free of a page freed earlier never
\* leads into the middle of a list.
NoStaleForward ==
    \A p, q \in Page :
        next_free[p] = q /\ q \in OnList /\ q # free_list[PmadOf[q]] => prev_free[q] = p

\* The lists are well formed in both directions, ordered, and entered from
\* nowhere but their heads: what ki_set_page_used and ki_set_page_free keep
\* when pages of several lists are taken from the middle and put in front.
WellLinked == LinksMutual /\ BackListed /\ Ascending /\ NoStaleForward

\* The inductive invariant.
Inv == TypeOK /\ ListedUnused /\ UsedUnlinked /\ LinksMutual /\ BackListed
              /\ Ascending /\ NoStaleForward

\* A page that leaves its list never comes back to it as the head: only the
\* page behind the head can become the head (ki_set_page_free never assigns
\* free_list).
HeadOnlyAdvances ==
    [][\A a \in Pmad : free_list'[a] # free_list[a] =>
           free_list[a] # NULL /\ free_list'[a] = next_free[free_list[a]]]_vars

\* mm.h:57-59: when the reference count becomes 0 the page is marked as free,
\* so an allocation of a type fails only if no page of that type is unused.
FailsOnlyWhenFull ==
    \A type \in Type : ki_alloc_free_page(type) = NULL =>
        \A p \in Page \ Reserved : TypeOf[PmadOf[p]] = type => ref_count[p] > 0

=============================================================================
