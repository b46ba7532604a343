----------------------------- MODULE AddrSpace ------------------------------
(***************************************************************************)
(* Address spaces: the four-level page tables that kh_mmap, kh_unmmap,     *)
(* kh_vmalloc and kh_getmap walk (hal/x86_64/mm/vmmgr/vm.cc), the contexts *)
(* that own them (hal/x86_64/mm/context.cc), and the code that fills them: *)
(* the heap's pages (kernel/mm/kima/vmalloc.cc), the stacks of a thread    *)
(* (hal/x86_64/ps/thread.cc) and the ELF loader.  A step is one call of    *)
(* one of these; steps of several loaders interleave.  Pages and frames    *)
(* are numbers, frame 0 is the null physical address.  Every frame is in   *)
(* the direct map, so a table is read and written at its frame.            *)
(***************************************************************************)
EXTENDS Integers, FiniteSets, FiniteSetsExt, SequencesExt

CONSTANTS Proc, KERNEL,             \* the processes, and mm_kernel_context
          PDPTX_N, PDX_N, PTX_N,    \* entries of the tables below the PML4
          MemSizes,                 \* numbers of frames the machine may have
          StackPages, KStackPages,  \* sizes of the stacks of a thread
          SegBase, SegPages,        \* first pages and sizes of ELF segments
          HeapPages,                \* numbers of pages the heap takes at once
          MaxSegs, MaxHeap,         \* bounds: segments of a process, heap calls
          Words                     \* frames that a word of unknown bits may name

ASSUME AddrSpaceAssumption ==
    /\ {PDPTX_N, PDX_N, PTX_N, StackPages, KStackPages} \subseteq Nat \ {0}
    /\ KERNEL \notin Proc
    /\ 0 \in Words /\ Words \subseteq Nat

VARIABLES mem,         \* the page tables: frame -> index -> entry
          ref_count,   \* of the page descriptor of a frame
          free,        \* the frames on the free lists of the descriptors
          cur,         \* mm_get_cur_context()
          root,        \* the frame of a context's PML4
          page_table,  \* the kernel page where it is mapped
          st,          \* how far ps_exec got with a process
          stack, kstack,  \* first page of the stacks of the main thread
          vmr,         \* the user pages the context's VMR tree covers
          pool,        \* the pages of its VMR pool: block, vpgdesc, ublk
          window,      \* tmp_pgvaddr of the loader, 0 outside a segment
          seg,         \* the page it loads next, how many are left, cur_context
          segs,        \* the segments a process has begun
          windows,     \* history: the kernel pages that were a tmp_pgvaddr
          heap,        \* the pages of the global pool that may be slot pages
          heap_calls, panic,
          described,   \* the frames that have a descriptor, with or without frame 0
          strays       \* history: the frames that the word behind a PDPT named

tables == <<mem, ref_count, free, strays>>
proc == <<root, page_table, st, stack, kstack, vmr, pool>>
loader == <<window, seg, segs, windows>>
vars == <<tables, cur, proc, loader, heap, heap_calls, panic, described>>

-----------------------------------------------------------------------------
(* The layout: PML4 entries 0 to 2 are the user half, entry 3 the part of  *)
(* the kernel half where mm_kvmalloc reserves.                             *)

PerPDPTE == PDX_N * PTX_N
PerPML4E == PDPTX_N * PerPDPTE
PML4X(v) == v \div PerPML4E
PDPTX(v) == (v \div PerPDPTE) % PDPTX_N
PDX(v) == (v \div PTX_N) % PDX_N
PTX(v) == v % PTX_N

USER_VBASE == 1
USER_END == 3 * PerPML4E
KBASE == USER_END
KERNEL_VBASE == 4 * PerPML4E
UserPages == 0 .. USER_END - 1
KernelPages == KBASE .. KERNEL_VBASE - 1

Index == 0 .. Max({4, PDPTX_N, PDX_N, PTX_N}) - 1
Absent == [p |-> FALSE, a |-> 0]
At(f) == [p |-> TRUE, a |-> f]
ZeroTable == [i \in Index |-> Absent]

UNKNOWN == -1  \* any bits: in a frame that is no table is what was left or loaded there
Contents == [i \in Index |-> [p |-> FALSE, a |-> UNKNOWN]]

\* The frames of the kernel image: its PML4, the tables of the kernel area and
\* the page of descriptors that boot mapped first in it.
Boot == 1 .. 5
Frame == 1 .. Max(MemSizes)

-----------------------------------------------------------------------------
(* The walks work on a record of the memory, with the result of the call:  *)
(* ok until it fails, found for the page kh_vmalloc returns.               *)

Memory == [mem |-> mem, ref |-> ref_count, free |-> free, ok |-> TRUE, panic |-> panic, found |-> 0,
           strays |-> strays]
MemoryOf(p) == [mem |-> mem, ref |-> ref_count, free |-> free, ok |-> TRUE, panic |-> panic, found |-> 0,
                strays |-> strays, vmr |-> vmr[p], pool |-> pool[p]]

\* mm_pgalloc takes the first page of the list; the caller tests NoFrame.
NoFrame(m) == m.free = {}
NextFrame(m) == Min(m.free)
\* Mutant: the page is not taken off the list.
mm_pgallocKeepsListed(m) == [m EXCEPT !.ref[Min(m.free)] = 1]

mm_pgalloc(m) == [m EXCEPT !.free = @ \ {NextFrame(m)}, !.ref[NextFrame(m)] = 1]

PanicsWith(m, cause) == [m EXCEPT !.ok = FALSE, !.panic = cause]

\* kh_get_mad stops at a frame without a descriptor.  The page whose last
\* reference goes is not put back where mm_pgalloc looks; page 0 never has one.
mm_pgfree(m, f) == IF m.panic # "none" THEN m
                   ELSE IF f \notin described THEN PanicsWith(m, "no descriptor")
                   ELSE IF f = 0 \/ m.ref[f] = 0 THEN m
                   ELSE [m EXCEPT !.ref[f] = @ - 1]

\* Mutant: a table that is already there is zeroed too.
TableOfZeroes(m, t, i) ==
    IF ~m.ok THEN m
    ELSE IF m.mem[t][i].p THEN [m EXCEPT !.mem[m.mem[t][i].a] = ZeroTable]
    ELSE IF NoFrame(m) THEN [m EXCEPT !.ok = FALSE]
    ELSE [mm_pgalloc(m) EXCEPT !.mem[t][i] = At(NextFrame(m)), !.mem[NextFrame(m)] = ZeroTable]

\* The table below entry i of table t, allocated and zeroed when there is none.
TableOf(m, t, i) ==
    IF ~m.ok \/ m.mem[t][i].p THEN m
    ELSE IF NoFrame(m) THEN [m EXCEPT !.ok = FALSE, !.mem[t][i].a = 0]
    ELSE [mm_pgalloc(m) EXCEPT !.mem[t][i] = At(NextFrame(m)), !.mem[NextFrame(m)] = ZeroTable]

\* One level down: the table at t is followed by the one below its entry i.
BelowEntry(m, t, i) == [m |-> m, t |-> IF m.ok THEN m.mem[t][i].a ELSE 0]
Level(s, i) == BelowEntry(TableOf(s.m, s.t, i), s.t, i)
PageTable(m, r, v) == Level(Level(Level([m |-> m, t |-> r], PML4X(v)), PDPTX(v)), PDX(v))

\* The page that was mapped there is freed, unless it must not be.
Overwritten(m, t, i, f) == IF m.ok THEN [m EXCEPT !.mem[t][i] = At(f)] ELSE m
SetEntry(s, i, f, noremap) ==
    IF ~s.m.ok THEN s.m
    ELSE IF ~s.m.mem[s.t][i].p THEN [s.m EXCEPT !.mem[s.t][i] = At(f)]
    ELSE IF noremap THEN PanicsWith(s.m, "remap")
    ELSE Overwritten(mm_pgfree(s.m, s.m.mem[s.t][i].a), s.t, i, f)

\* The body of kh_mmap for one page.
MapPage(m, r, v, f, noremap) == SetEntry(PageTable(m, r, v), PTX(v), f, noremap)

\* The word behind a table is the first one of the next frame.  What an
\* unknown word names is chosen when the step is over.
FreeStray(m, f) ==
    [(IF f = UNKNOWN THEN m ELSE mm_pgfree(m, f)) EXCEPT !.strays = @ \cup ({f} \ {0})]
WordBehind(m, t) == IF t + 1 \in Frame THEN m.mem[t + 1][0].a ELSE UNKNOWN

\* kh_unmmap on a PML4 entry.  The walk reads the PDPT in place of the tables
\* below it: it frees what the PDPT names from entry `first' on and, if nothing
\* is left, physical page 0, then what the entry behind the last one names, and
\* at last the PDPT.
UnmapEntry(m, r, i, first) ==
    LET t == m.mem[r][i].a
        named == {j \in Index : j >= first /\ m.mem[t][j].p}
        Free(acc, j) == [mm_pgfree(acc, acc.mem[t][j].a) EXCEPT !.mem[t][j] = Absent]
        cleared == FoldLeft(Free, m, SetToSeq(named))
        past == IF named = {} THEN cleared ELSE FreeStray(mm_pgfree(cleared, 0), WordBehind(cleared, t))
    IN  IF ~m.mem[r][i].p THEN m
        ELSE IF \E j \in Index : cleared.mem[t][j].p THEN cleared
        ELSE [mm_pgfree(past, t) EXCEPT !.mem[r][i].p = FALSE]

\* The PML4 entry of the limit is not visited.  A range that has others begins
\* with the first page of one or is the last page of it.
kh_unmmap(m, r, v, n) ==
    LET Step(acc, i) == UnmapEntry(acc, r, i, IF i = PML4X(v) THEN PDPTX(v) ELSE 0)
    IN  FoldLeft(Step, m, SetToSortSeq(PML4X(v) .. PML4X(v + n) - 1, <))

mm_vmfree(m, r, v, n) == kh_unmmap(m, r, v, n)

\* The PML4 loop runs to the entry of the limit: a range that ends with its
\* entry gets the next one too.  The guard of a failure unmaps the range.
Guarded(m, r, v, n) == IF m.ok \/ m.panic # "none" THEN m ELSE kh_unmmap(m, r, v, n)
kh_mmap(m, r, v, f, n, noremap) ==
    LET Step(acc, i) == IF acc.ok THEN MapPage(acc, r, v + i, IF f = 0 THEN 0 ELSE f + i, noremap)
                        ELSE acc
    IN  Guarded(TableOf(FoldLeft(Step, m, [i \in 1 .. n |-> i - 1]), r, PML4X(v + n)), r, v, n)

\* The entry of a page, absent when a table above it is.
Walk(tab, r, v) ==
    LET e4 == tab[r][PML4X(v)]
        e3 == tab[e4.a][PDPTX(v)]
        e2 == tab[e3.a][PDX(v)]
    IN  IF e4.p /\ e3.p /\ e2.p THEN tab[e2.a][PTX(v)] ELSE Absent

kh_getmap(tab, r, v) == LET e == Walk(tab, r, v) IN IF e.p THEN e.a ELSE 0

\* The first page of the unit the search of kh_vmalloc counts page v with: the
\* area of the highest table that is absent, before any limit for a PML4 entry.
UnitOf(tab, r, v) ==
    LET e4 == tab[r][PML4X(v)]
        e3 == tab[e4.a][PDPTX(v)]
        e2 == tab[e3.a][PDX(v)]
    IN  IF ~e4.p THEN -1
        ELSE IF ~e3.p THEN v - (v % PerPDPTE)
        ELSE IF ~e2.p THEN v - (v % PTX_N)
        ELSE v

\* The pages found are reserved, or else it stops in KM_UNWRAP.
Reserved(m, v) == IF m.ok THEN [m EXCEPT !.found = v]
                  ELSE IF m.panic = "none" THEN PanicsWith(m, "unwrap") ELSE m

\* Mutant: the search does not test whether a page is present.
kh_vmallocAnyPage(m, r, min, max, n) == Reserved(kh_mmap(m, r, min, 0, n, TRUE), min)

\* kh_vmalloc adds up the absent pages it meets, adjacent or not, and reserves
\* from the first one: the pages are mapped to the null frame.
ReserveFrom(m, r, v, n) == Reserved(kh_mmap(m, r, v, 0, n, TRUE), v)
kh_vmalloc(m, r, min, max, n) ==
    LET first == PML4X(min) * PerPML4E
        met == {v \in first .. max - 1 :
                  /\ ~Walk(m.mem, r, v).p
                  /\ UnitOf(m.mem, r, v) < max - n
                  /\ v >= min \/ UnitOf(m.mem, r, v) = UnitOf(m.mem, r, min)}
    IN  IF Cardinality(met) < n THEN [m EXCEPT !.found = 0] ELSE ReserveFrom(m, r, Max({min, Min(met)}), n)

mm_kvmalloc(m, r, n) == kh_vmalloc(m, r, KBASE, KERNEL_VBASE, n)

\* The n pages reserved in k get a new frame each.
BackPages(k, n) ==
    LET Step(acc, i) == IF ~acc.ok THEN acc
                        ELSE IF NoFrame(acc) THEN [acc EXCEPT !.ok = FALSE, !.found = 0]
                        ELSE kh_mmap(mm_pgalloc(acc), root[cur], k.found + i, NextFrame(acc), 1, FALSE)
    IN  IF ~k.ok THEN k
        ELSE IF k.found = 0 THEN PanicsWith(k, "no area")
        ELSE FoldLeft(Step, k, [i \in 1 .. n |-> i - 1])

kima_vpgalloc(m, n) == BackPages(mm_kvmalloc(m, root[cur], n), n)

kima_vpgfree(m, v) == mm_vmfree(mm_pgfree(m, kh_getmap(m.mem, root[cur], v)), root[cur], v, 1)

-----------------------------------------------------------------------------
(* Contexts and their users.                                               *)

\* How a step leaves the memory.  A word that was unknown named any frame,
\* perhaps one there is no memory for.  (References are only taken here, so it does
\* not matter when its own was.)
Commit(m) ==
    \E w \in IF UNKNOWN \in m.strays THEN Words ELSE {0} :
    \E d \in {IF UNKNOWN \in m.strays THEN FreeStray([m EXCEPT !.strays = @ \ {UNKNOWN}], w) ELSE m} :
        /\ mem' = d.mem /\ ref_count' = d.ref /\ free' = d.free /\ panic' = d.panic
        /\ strays' = d.strays /\ UNCHANGED described

Live(p) == st[p] \notin {"none", "dead"}
Contexts == {p \in Proc : Live(p)} \cup {KERNEL}
Running == panic = "none"

Init == \E n \in MemSizes :
        /\ mem = [f \in Frame |-> CASE f = 1 -> [ZeroTable EXCEPT ![PML4X(KBASE)] = At(2)]
                                    [] f \in {2, 3, 4} -> [ZeroTable EXCEPT ![0] = At(f + 1)]
                                    [] OTHER -> Contents]
        /\ ref_count = [f \in Frame |-> IF f \in Boot THEN 1 ELSE 0]
        /\ free = (1 .. n) \ Boot /\ described \in {1 .. n, 0 .. n} /\ strays = {}
        /\ cur = KERNEL
        /\ root = [c \in Proc \cup {KERNEL} |-> IF c = KERNEL THEN 1 ELSE 0]
        /\ page_table = [p \in Proc |-> 0]
        /\ st = [p \in Proc |-> "none"]
        /\ stack = [p \in Proc |-> 0] /\ kstack = [p \in Proc |-> 0]
        /\ vmr = [p \in Proc |-> {}] /\ pool = [p \in Proc |-> <<>>]
        /\ window = [p \in Proc |-> 0] /\ seg = [p \in Proc |-> <<0, 0, KERNEL>>]
        /\ segs = [p \in Proc |-> 0] /\ windows = {}
        /\ heap = {} /\ heap_calls = 0 /\ panic = "none"

\* Mutant: the size of the copy comes out as zero.
CopyNothing(tab, dst, src) == tab

\* The kernel half of the PML4 of frame src, copied into the one of frame dst.
kh_mm_copy_global_mappings(tab, dst, src) == [tab EXCEPT ![dst][PML4X(KBASE)] = tab[src][PML4X(KBASE)]]

\* The heap takes pages when no block fits.  One that it takes alone may be a
\* slot page (of vpgdescs or ublks), given back once its slots are all free.
mm_kalloc(n) ==
    /\ Running /\ heap_calls < MaxHeap
    /\ \E m \in {kima_vpgalloc(Memory, n)} :
          Commit(m) /\ heap' = IF n = 1 /\ m.ok THEN heap \cup {m.found} ELSE heap
    /\ heap_calls' = heap_calls + 1
    /\ UNCHANGED <<cur, proc, loader>>

mm_kfree(v) ==
    /\ Running /\ v \in heap
    /\ Commit(kima_vpgfree(Memory, v))
    /\ heap' = heap \ {v}
    /\ UNCHANGED <<cur, proc, loader, heap_calls>>

\* A context that cannot be made ends ps_alloc_pcb, which releases the PCB
\* twice: the heap's assertion stops the kernel.
NoContext(m) == Commit(m) /\ UNCHANGED <<root, page_table, st>>

kh_mm_alloc_context(p) ==
    /\ Running /\ st[p] = "none"
    /\ IF NoFrame(Memory) THEN NoContext(PanicsWith(Memory, "pcb"))
       ELSE \E r \in {NextFrame(Memory)}, k \in {mm_kvmalloc(mm_pgalloc(Memory), root[cur], 1)} :
            IF ~k.ok THEN NoContext(k)
            ELSE IF k.found = 0 THEN NoContext(PanicsWith(Memory, "pcb"))
            ELSE \E m \in {kh_mmap(k, root[cur], k.found, r, 1, FALSE)} :
                 IF ~m.ok THEN NoContext(m) ELSE
                 /\ Commit([m EXCEPT !.mem = kh_mm_copy_global_mappings([@ EXCEPT ![r] = ZeroTable], r, root[cur])])
                 /\ root' = [root EXCEPT ![p] = r] /\ page_table' = [page_table EXCEPT ![p] = k.found]
                 /\ st' = [st EXCEPT ![p] = "context"]
    /\ UNCHANGED <<cur, stack, kstack, vmr, pool, loader, heap, heap_calls>>

mm_switch_context(p) ==
    /\ Running /\ st[p] = "live" /\ cur # p
    /\ cur' = p
    /\ mem' = kh_mm_copy_global_mappings(mem, root[p], root[cur])
    /\ UNCHANGED <<ref_count, free, strays, proc, loader, heap, heap_calls, panic, described>>

\* The VMR pool of a context takes its pages for the first region: one of
\* blocks, one of vpgdescs, one of ublks.
PoolPage(m) == IF m.ok THEN [m EXCEPT !.pool = Append(@, m.found)] ELSE m
TakePage(m) == IF m.ok THEN PoolPage(kima_vpgalloc(m, 1)) ELSE m
PoolOrNone(m) == IF m.ok THEN m
                 ELSE [(IF Len(m.pool) = 2 /\ m.panic = "none" THEN kima_vpgfree(m, m.pool[2]) ELSE m)
                        EXCEPT !.pool = <<>>]
VmrPool(m) == IF m.pool # <<>> THEN m ELSE PoolOrNone(TakePage(TakePage(TakePage(m))))

\* mm_mmap of one user page, which no region may cover yet.
Region(m, v) == IF m.ok THEN [m EXCEPT !.vmr = @ \cup {v}] ELSE m
MapRegion(m, r, v, f) == IF m.ok THEN Region(kh_mmap(m, r, v, f, 1, FALSE), v) ELSE m
mm_mmap(m, r, v, f) == IF v \in m.vmr THEN [m EXCEPT !.ok = FALSE] ELSE MapRegion(VmrPool(m), r, v, f)

\* The slot pages of the VMR pool go with its last block; the page of the
\* blocks is kept.
FreePool(m) == IF m.pool = <<>> THEN m ELSE kima_vpgfree(kima_vpgfree(m, m.pool[2]), m.pool[3])

FreePageTable(m, p) == mm_pgfree(m, kh_getmap(m.mem, root[cur], page_table[p]))

\* Mutant: the range goes on over the kernel half.
FreeKernelHalf(m, p) == FreePageTable(FreePool(kh_unmmap(m, root[p], 0, KERNEL_VBASE)), p)

\* The range ends in the last user page, so the last PML4 entry of the user
\* half is left as it is.
mm_free_context(m, p) == FreePageTable(FreePool(kh_unmmap(m, root[p], 0, USER_END - USER_VBASE)), p)

\* How a step of the loader ends: at status next; or in a panic; or in
\* ki_destroy_proc, whose thread_set does not have the thread yet.
Outcome(m, p, next) ==
    /\ IF m.ok THEN Commit(m) /\ st' = [st EXCEPT ![p] = next]
       ELSE IF m.panic # "none" THEN Commit(m) /\ UNCHANGED st
       ELSE Commit(mm_free_context(m, p)) /\ st' = [st EXCEPT ![p] = "dead"]
    /\ vmr' = [vmr EXCEPT ![p] = m.vmr]
    /\ pool' = [pool EXCEPT ![p] = m.pool]
    /\ UNCHANGED <<cur, root, page_table, heap, heap_calls>>

\* The guard of a failure calls mm_vmfree on a part of the stack, with nothing
\* to unmap; when the first page is missing its size wraps around, and
\* kh_unmmap stops at a range across user and kernel space.
DropUnmapped(m, f) == IF m.ok \/ m.panic # "none" THEN m ELSE mm_pgfree(m, f)
StackPage(m, p, v, f) == DropUnmapped(mm_mmap(mm_pgalloc(m), root[p], v, f), f)
BackStack(k, p) ==
    LET Step(acc, i) == IF ~acc.ok THEN acc
                        ELSE IF ~NoFrame(acc) THEN StackPage(acc, p, k.found + i, NextFrame(acc))
                        ELSE IF i = 0 THEN PanicsWith(acc, "span")
                        ELSE [acc EXCEPT !.ok = FALSE]
    IN  FoldLeft(Step, [k EXCEPT !.ok = @ /\ k.found # 0], [i \in 1 .. StackPages |-> i - 1])

ps_thread_alloc_stack(p) ==
    /\ Running /\ st[p] = "context"
    /\ \E k \in {kh_vmalloc(MemoryOf(p), root[p], USER_VBASE, USER_END, StackPages)} :
       \E m \in {BackStack(k, p)} :
          Outcome(m, p, "stacked") /\ stack' = [stack EXCEPT ![p] = k.found]
    /\ UNCHANGED <<kstack, loader>>

\* In the new context, which is not the current one.
BackKernelStack(k, p) ==
    LET Step(acc, i) == IF ~acc.ok THEN acc
                        ELSE IF NoFrame(acc) THEN [acc EXCEPT !.ok = FALSE]
                        ELSE kh_mmap(mm_pgalloc(acc), root[p], k.found + i, NextFrame(acc), 1, FALSE)
    IN  FoldLeft(Step, [k EXCEPT !.ok = @ /\ k.found # 0], [i \in 1 .. KStackPages |-> i - 1])

ps_thread_alloc_kernel_stack(p) ==
    /\ Running /\ st[p] = "stacked"
    /\ \E k \in {mm_kvmalloc(MemoryOf(p), root[p], KStackPages)} :
       \E m \in {BackKernelStack(k, p)} :
          Outcome(m, p, "kstacked") /\ kstack' = [kstack EXCEPT ![p] = k.found]
    /\ UNCHANGED <<stack, loader>>

\* A PT_LOAD header: the loader reserves a page of the current context through
\* which it will write the n pages of the segment at v.
elf_load_segment(p, v, n) ==
    /\ Running /\ st[p] = "kstacked" /\ window[p] = 0 /\ segs[p] < MaxSegs
    /\ v + n <= USER_END
    /\ \E k \in {mm_kvmalloc(MemoryOf(p), root[cur], 1)} :
          /\ Outcome([k EXCEPT !.ok = @ /\ k.found # 0], p, "kstacked")
          /\ window' = [window EXCEPT ![p] = k.found]
          /\ windows' = windows \cup {k.found}
    /\ seg' = [seg EXCEPT ![p] = <<v, n, cur>>]
    /\ segs' = [segs EXCEPT ![p] = @ + 1]
    /\ UNCHANGED <<stack, kstack>>

\* One page of it: mapped in the process, then in place of the page before in
\* the window, of which kh_mmap frees the frame.  The window is given up with
\* the last page, and with a failure.
ShowPage(m, p, f) == IF m.ok THEN kh_mmap(m, root[seg[p][3]], window[p], f, 1, FALSE) ELSE m
LoadFrame(m, p, f) == ShowPage(mm_mmap(m, root[p], seg[p][1], f), p, f)
LoadPage(m, p, old) == IF old # 0 THEN LoadFrame(m, p, old)
                       ELSE IF NoFrame(m) THEN [m EXCEPT !.ok = FALSE]
                       ELSE LoadFrame(mm_pgalloc(m), p, NextFrame(m))
CloseWindow(m, p) == mm_vmfree(m, root[seg[p][3]], window[p], 1)

elf_load_page(p) ==
    /\ Running /\ window[p] # 0
    /\ \E m \in {LoadPage(MemoryOf(p), p, kh_getmap(mem, root[p], seg[p][1]))} :
       \E over \in {~m.ok \/ seg[p][2] = 1} :
          /\ Outcome(IF over THEN CloseWindow(m, p) ELSE m, p, "kstacked")
          /\ window' = [window EXCEPT ![p] = IF over THEN 0 ELSE @]
    /\ seg' = [seg EXCEPT ![p] = <<@[1] + 1, @[2] - 1, @[3]>>]
    /\ UNCHANGED <<stack, kstack, segs, windows>>

\* A header that is malformed, or a read that fails, inside a segment or not.
elf_load_fails(p) ==
    /\ Running /\ st[p] = "kstacked"
    /\ LET m == [MemoryOf(p) EXCEPT !.ok = FALSE]
       IN  Outcome(IF window[p] = 0 THEN m ELSE CloseWindow(m, p), p, "kstacked")
    /\ window' = [window EXCEPT ![p] = 0]
    /\ UNCHANGED <<stack, kstack, seg, segs, windows>>

\* The last header is done: the thread is set up and the process may run.
elf_load_done(p) ==
    /\ Running /\ st[p] = "kstacked" /\ window[p] = 0
    /\ st' = [st EXCEPT ![p] = "live"]
    /\ UNCHANGED <<tables, cur, root, page_table, stack, kstack, vmr, pool, loader, heap, heap_calls, panic, described>>

Next == \/ \E n \in HeapPages : mm_kalloc(n)
        \/ \E v \in heap : mm_kfree(v)
        \/ \E p \in Proc : \/ kh_mm_alloc_context(p)
                           \/ ps_thread_alloc_stack(p)
                           \/ ps_thread_alloc_kernel_stack(p)
                           \/ \E v \in SegBase, n \in SegPages : elf_load_segment(p, v, n)
                           \/ elf_load_page(p)
                           \/ elf_load_fails(p)
                           \/ elf_load_done(p)
                           \/ mm_switch_context(p)

Spec == Init /\ [][Next]_vars

-----------------------------------------------------------------------------
(* Properties.                                                             *)

Entry(e) == mem[e[1]][e[2]]
Present(E) == {e \in E : Entry(e).p}
Below(E) == {<<Entry(e).a, i>> : e \in Present(E), i \in Index}

\* The entries of the tables of the contexts there are, level by level; the
\* kernel half, which they share, once.
PML4Es == {<<root[c], i>> : c \in Contexts, i \in 0 .. PML4X(KBASE) - 1} \cup {<<root[KERNEL], PML4X(KBASE)>>}
PDPTEs == Below(PML4Es)
PDEs == Below(PDPTEs)
PTEs == Below(PDEs)

\* The entry of a kernel page, for a page that is present.
KernelPTE(v) == LET pdpt == mem[root[KERNEL]][PML4X(KBASE)].a
                    pdt == mem[pdpt][PDPTX(v)].a
                IN  <<mem[pdt][PDX(v)].a, PTX(v)>>
Named == Present(PML4Es \cup PDPTEs \cup PDEs)
         \cup {e \in Present(PTEs) \ {KernelPTE(v) : v \in windows} : Entry(e).a # 0}

\* A frame is in one place only: no two entries of the page tables, of any
\* level and any context, name the same frame, but for the window of the
\* loader; and none names a frame that mm_pgalloc could still return.  Pages
\* that were freed stay mapped where they were, so this needs mm_pgalloc never
\* to return a frame again.
FramesExclusive ==
    LET frames == {Entry(e).a : e \in Named}
    IN  Cardinality(frames) = Cardinality(Named) /\ frames \cap free = {}

\* The kernel pages that are in use, and the user pages of the stacks.
KernelInUse == heap \cup {page_table[p] : p \in Contexts \ {KERNEL}}
               \cup UNION {Range(pool[p]) : p \in Contexts \ {KERNEL}}
               \cup {v \in KernelPages : \E p \in Proc : /\ st[p] \in {"kstacked", "live"}
                                                         /\ v - kstack[p] \in 0 .. KStackPages - 1}
StackOf(p) == IF st[p] \in {"none", "context", "dead"} THEN {} ELSE stack[p] .. stack[p] + StackPages - 1

\* A process is gone that had the last page below a PML4 entry: mapping that
\* page made a PDPT for the next entry, with no directory behind it.
SpreadTornDown == \E p \in Proc : st[p] = "dead" /\ \E v \in vmr[p] : PML4X(v + 1) # PML4X(v)

\* What a context needs is counted: its PML4 and tables, its stacks, the pool of
\* its regions, and the heap.  (The pages of a segment are not: the window drops
\* their reference.)  Only the word behind a PDPT may have taken a reference
\* that was not its to take.
Counted(f) == ref_count[f] > 0 \/ (f \in strays /\ SpreadTornDown)
InUseCounted ==
    /\ \A e \in Present(PML4Es \cup PDPTEs \cup PDEs) : Counted(Entry(e).a)
    /\ \A v \in KernelInUse : LET f == kh_getmap(mem, root[cur], v) IN f # 0 /\ Counted(f)
    /\ \A p \in Proc : \A v \in StackOf(p) :
           LET f == kh_getmap(mem, root[p], v) IN f # 0 /\ Counted(f)

\* Where page 0 has a descriptor, the kernel stops in this code only when the
\* memory is used up: a reservation of kh_vmalloc, which adds up pages that need
\* not be adjacent, never meets a mapped page (MMAP_NO_REMAP), the area never
\* runs out, and mm_free_context, which frees page 0 and the word behind a PDPT
\* (vm.cc:532, 544), finds descriptors, unless the context it tears down
\* reaches the end of a PML4 entry.  Where page 0 has none (init.cc:264), the
\* first page that is backed stops it, before any context is made.
StopsExplained ==
    IF 0 \in described
    THEN panic # "none" => free = {} \/ (panic = "no descriptor" /\ SpreadTornDown)
    ELSE heap = {} /\ \A p \in Proc : st[p] = "none"

\* The kernel half is one: what a context maps there, the new context of a
\* loader included, every context translates alike, so that a switch keeps the
\* stack, the heap and the PML4 of the next context where they are.
KernelShared == \A c \in Contexts : \A v \in KernelPages : Walk(mem, root[c], v) = Walk(mem, root[KERNEL], v)

\* When a process may run, its page table and its regions agree.
LoadedIsBacked ==
    \A p \in Proc : st[p] = "live" =>
        /\ vmr[p] = {v \in UserPages : Walk(mem, root[p], v).p}
        /\ \A v \in vmr[p] : kh_getmap(mem, root[p], v) # 0
        /\ \A v \in kstack[p] .. kstack[p] + KStackPages - 1 : kh_getmap(mem, root[p], v) # 0

\* What is in use is backed: the tables, stacks, pools and the heap of every
\* context are on frames with a reference, whatever loads failed and were torn
\* down before, but for frames that the word behind a PDPT named (vm.cc:544)
\* in the teardown of a process that reaches the end of a PML4 entry.  When a
\* process may run, the user pages that are present are those of its regions,
\* and none is left on the null frame that a reservation maps
\* (ki_elf_load_exec, ps_thread_alloc_stack, mm_free_context).
InUseBacked == InUseCounted /\ LoadedIsBacked

\* No step changes what a page of a context that stays translates to, once it
\* has a frame: creating, loading or tearing down another context, and the
\* growth of the heap, leave it alone.  The windows of the loader excepted; the
\* kernel half is looked at in one context.
TranslationsStable ==
    [][\A c \in Contexts \cap Contexts' :
         \A v \in (IF c = KERNEL THEN KernelPages \ windows ELSE UserPages) :
            LET f == kh_getmap(mem, root[c], v)
            IN  f # 0 => kh_getmap(mem', root'[c], v) = f]_vars

=============================================================================
