------------------------------ MODULE MCPages -------------------------------
(***************************************************************************)
(* The page allocator for TLC.  In a behaviour either whole calls run, on  *)
(* two regions of one type and one of another (PageList), or the           *)
(* statements of the calls, on two regions (PageAlloc), or boot builds the *)
(* lists from a memory map (BootMap), or tables are mapped temporarily     *)
(* (TmpMap), or boot goes on to find the processors (Topology).  Page 10   *)
(* of PageList and page 20 of PageAlloc are kept off the lists, as         *)
(* hn_mm_init_areas keeps the first page tables.                           *)
(***************************************************************************)
EXTENDS PageList

CONSTANT Thread

VARIABLES grain,  \* "calls", "statements", "boot", "tables" or "processors"
          heap, pc, call, mad, cnt, todo, held, panicked,
          step, areas, pmad, pending, prev, boot_head, boot_next, boot_prev, boot_refs,
          pools, table, spare, job, direct, mapped,
          mask, address, stage, walk,
          at, fw, entries, mp_num_total_cpu, tss, gdt, tmpmap, cur_contexts, hn_sched_interval

MCPage == {10, 11, 12, 13, 20, 21, 30}
MCPmad == {10, 20, 30}
MCPmadOf == [p \in MCPage |-> (p \div 10) * 10]
MCTypeOf == [a \in MCPmad |-> IF a = 20 THEN "hardware" ELSE "available"]
MCReserved == {10}

A == INSTANCE PageAlloc WITH
         Page <- {10, 11, 12, 20}, Pmad <- {10, 20}, Type <- {"available"},
         PmadOf <- [p \in {10, 11, 12, 20} |-> (p \div 10) * 10],
         TypeOf <- [a \in {10, 20} |-> "available"], Reserved <- {20},
         Callers <- {"alloc", "free", "ref"}

\* Memory maps of three entries: low memory, a gap or none, another kind of
\* memory, and usable memory of several sizes; and the empty map.
Entry(base, len, kind) == [base |-> base, len |-> len, kind |-> kind]
MCMaps ==
    {<<>>} \cup
    {<<Entry(0, low, k), Entry(low + gap, 3, kind), Entry(low + gap + 3, len, "usable")>> :
        low \in {1, 4}, k \in {"usable", "reserved"}, gap \in {0, 1},
        kind \in {"reclaimable", "acpi", "modules", "framebuffer", "bad", "strange"},
        len \in {3, 13, 21}}

\* A PDT maps 25 pages, so that the larger maps need a second one.
B == INSTANCE BootMap WITH
         Maps <- MCMaps, Storage <- 5, Descs <- 9, Fan <- 5, Tmp <- {5, 6}, Image <- 100,
         todo <- pending, free_list <- boot_head, next_free <- boot_next,
         prev_free <- boot_prev, ref_count <- boot_refs

T == INSTANCE TmpMap WITH Slots <- 6, Nesting <- 3, Tables <- {11, 12}, held <- walk

\* Firmware whose RSDP or root table is damaged, outside direct-mapped memory
\* or inside a page there, with up to two tables of processors: one lists a
\* processor by both kinds of record, another mixes the kinds.
Rec(kind, id) == [kind |-> kind, id |-> id]
Madt(records) == [signature |-> "APIC", direct |-> TRUE, records |-> records]
OneKind == Madt(<<Rec("lapic", 0), Rec("ioapic", 0), Rec("lapic", 1)>>)
BothKinds == Madt(<<Rec("lapic", 0), Rec("lx2apic", 0), Rec("lapic", 1), Rec("lx2apic", 1)>>)
MixedKinds == Madt(<<Rec("lapic", 0), Rec("lapic", 1), Rec("lx2apic", 1)>>)
Facp(near) == [signature |-> "FACP", direct |-> near, records |-> <<>>]
Structure(near, aligned, sum) == [direct |-> near, aligned |-> aligned, sum |-> sum]
MCSound == Structure(TRUE, FALSE, TRUE)
MCStructures == {Structure(TRUE, FALSE, FALSE), Structure(FALSE, TRUE, TRUE),
                 Structure(FALSE, FALSE, TRUE)}
MCFirmware == {f \in [rev : {0, 1, 2}, xsum : BOOLEAN, rsdp : MCStructures \cup {MCSound},
                      root : MCStructures \cup {MCSound},
                      tables : {<<>>, <<Facp(TRUE)>>, <<Facp(FALSE), OneKind>>,
                                <<OneKind, Facp(FALSE)>>, <<Facp(TRUE), BothKinds>>,
                                <<MixedKinds, BothKinds>>}] :
                  (f.rev # 2 => f.xsum) /\ MCSound \in {f.rsdp, f.root}}

P == INSTANCE Topology WITH Firmware <- MCFirmware, Elapsed <- {9, 25},
                            Noise <- {f \in MCFirmware : f.tables = <<OneKind, Facp(FALSE)>>},
                            Behind <- {Facp(TRUE), Facp(FALSE), BothKinds}

statements == <<heap, pc, call, mad, cnt, todo, held, panicked>>
boot == <<step, areas, pmad, pending, prev, boot_head, boot_next, boot_prev, boot_refs,
          pools, table, spare, job, direct, mapped>>
tables == <<mask, address, stage, walk>>
processors == <<at, fw, entries, mp_num_total_cpu, tss, gdt, tmpmap, cur_contexts,
                hn_sched_interval>>
pages == <<grain, vars, statements, boot, tables, processors>>

PagesInit == /\ grain \in {"calls", "statements", "boot", "tables", "processors"}
             /\ Init /\ A!Init /\ B!Init /\ T!Init /\ P!Init
             /\ grain # "boot" => areas = <<>>
             /\ grain # "processors" => fw = CHOOSE f \in MCFirmware : TRUE

\* Boot ends in a running system or stops the machine.
Stopped == \/ grain = "boot" /\ step \in {"done", "panic"}
           \/ grain = "tables" /\ stage = "panic"
           \/ grain = "processors" /\ at \in {"up", "panic", "fault"}

PagesNext == /\ UNCHANGED grain
             /\ \/ grain = "calls" /\ Next /\ UNCHANGED <<statements, boot, tables, processors>>
                \/ grain = "statements" /\ A!Next /\ UNCHANGED <<vars, boot, tables, processors>>
                \/ grain = "boot" /\ B!Next /\ UNCHANGED <<vars, statements, tables, processors>>
                \/ grain = "tables" /\ T!Next /\ UNCHANGED <<vars, statements, boot, processors>>
                \/ grain = "processors" /\ P!Next /\ UNCHANGED <<vars, statements, boot, tables>>
                \/ Stopped /\ UNCHANGED pages

PagesSpec == PagesInit /\ [][PagesNext]_pages

\* Between calls, a page's ref_count is the number of times callers were given
\* the page and have not freed it: mm_pgalloc, mm_refpg and mm_pgfree lose no
\* count and make none up (pgalloc.cc:62, 85).
CountsHolders == A!CountsHolders

\* With a single thread the statements of pgalloc.cc implement the atomic
\* calls of PageList: every call takes effect as a whole when it is made.
ImplementsPageList == A!ImplementsPageList

\* Boot never gives a page two purposes and describes every page once
\* (hn_mm_init_areas, init.cc:74-337).
PagesServeOnce == grain = "boot" => B!PagesServeOnce

\* The addresses at which boot maps pool pages, the kernel and physical memory
\* read the pages they stand for, except that physical memory behind the first
\* page directory is not mapped at all (hn_mm_mmap_early); temporary mappings
\* are readable as long as they are held (hn_tmpmap_early, hn_tmpmap_post); and
\* the processors boot then finds are counted once and served
\* (kh_mp_init_topology).
BootSound == /\ grain = "boot" => B!BootMapsAgree
             /\ T!HeldReadable
             /\ P!ProcessorsServed
=============================================================================
