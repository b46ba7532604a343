------------------------------ MODULE MCMemory ------------------------------
(***************************************************************************)
(* Virtual memory above the page tables for TLC: the regions of a process, *)
(* or a pool of the kernel heap.                                           *)
(***************************************************************************)
EXTENDS Vmr, TLC

CONSTANTS page_size, ublk_slots_size, vpgdesc_slots_size, TopPage, MaxResizes

VARIABLES kind,  \* which of the two it is
          pool, resized, spilled, panic

heap == <<pool, resized, spilled, panic>>
memory == <<kind, vars, heap>>

\* One page, all pages, an empty range, and across the border of user space.
Buf(p, k) == [page |-> p, n |-> k]
MCIns == {Buf(0, 1), Buf(0, UserPages), Buf(1, 0), Buf(UserPages - 1, 2)}

\* A user page and a kernel page.
MCOuts == {Buf(1, 1), Buf(UserPages, 1)}

MCSegAccess == {{"r"}, {"r", "w"}}

MCSymmetry == Permutations(Thread)

\* Requests below a page, of a page and across pages, and one whose size is no
\* multiple of its alignment, as that of the TSS storage (mp/init.cc:112).
MCRequests == {[size |-> 1, alignment |-> 1], [size |-> 2, alignment |-> 2],
               [size |-> 3, alignment |-> 1], [size |-> 1, alignment |-> 2]}

K == INSTANCE Kima WITH Requests <- MCRequests

MemoryInit == kind \in {"regions", "heap"} /\ Init /\ K!Init

MemoryNext == /\ UNCHANGED kind
              /\ \/ kind = "regions" /\ Next /\ UNCHANGED heap
                 \/ kind = "heap" /\ K!Next /\ UNCHANGED vars

MemorySpec == MemoryInit /\ [][MemoryNext]_memory

\* Blocks of the heap never share a byte and lie on pages that have a descriptor (malloc.cc:33-69);
\* a block leaves the pages counted for it only when its size is no multiple of its alignment
\* (malloc.cc:37); and the counts of the heap's pages and slot pages are exact, so pages go when nothing
\* is left on them and not before (malloc.cc:340, ublk.cc:29, vpgdesc.cc:20).  The first two and the
\* counts of pages end with such a block, and with the reallocations that Orderly leaves out.
BlocksSound == K!BlocksApart /\ K!CountsExact

\* An allocation that gives no block leaves no descriptor behind, however far
\* it got (the guard at malloc.cc:89-94).
FailedAllocUndone == K!FailedAllocUndone
=============================================================================
