------------------------------ MODULE BootMap -------------------------------
(***************************************************************************)
(* From the bootloader's memory map to the page allocator's lists and the  *)
(* direct map: kh_mm_init of hal/x86_64/mm/init.cc with the early mapping  *)
(* functions of vmmgr/vm.cc.  Addresses are page numbers.  A descriptor is *)
(* identified with its page and a table with the page that holds it; the   *)
(* kernel's own tables, which lie in its image, have negative names.       *)
(***************************************************************************)
EXTENDS Integers, Sequences, FiniteSets, SequencesExt

CONSTANTS Maps,     \* memory maps the bootloader may pass
          Storage,  \* KI_INITIAL_MM_AREA_STORAGE_NUM
          Descs,    \* kh_mad_pool_descs_num_per_page
          Fan,      \* entries of a table, 512 in the code
          Tmp,      \* offsets of mm_kernel_init_tmpmap_area in the kernel's area
          Image,    \* physical page of the kernel's image
          NULL

VARIABLES step,       \* the statement group that runs next
          areas,      \* areas still to be pushed
          pmad,       \* ki_pmad_tree: base |-> len, type
          todo,       \* pages still to be described or mapped
          prev,       \* prev_free_mad
          free_list, next_free, prev_free, ref_count,
          pools,      \* ki_global_mad_pool_list, front first
          table,      \* contents of the page tables
          spare,      \* pages held for a PTT, a PDT and a PDPT
          job,        \* the mapping to make and the steps after it
          direct,     \* ki_pmad_t::direct_map_base
          mapped      \* direct_map_base, and the pages of the region done

lists == <<free_list, next_free, prev_free, ref_count>>
boot == <<step, areas, pmad, todo, prev, lists, pools, table, spare, job, direct, mapped>>

-----------------------------------------------------------------------------
(* Memory map entries and regions.                                         *)

Area(base, len, type) == [base |-> base, len |-> len, type |-> type]

\* hn_mm_init_pmadlist: page 0 is never available.
Areas(e) ==
    CASE e.kind \in {"usable", "reclaimable"} /\ e.base = 0 ->
             <<Area(0, 1, "hardware"), Area(1, e.len - 1, "available")>>
      [] e.kind \in {"usable", "reclaimable"} /\ e.base # 0 ->
             <<Area(e.base, e.len, "available")>>
      [] e.kind = "acpi" -> <<Area(e.base, e.len, "acpi")>>
      [] e.kind = "framebuffer" -> <<Area(e.base, e.len, "hardware")>>
      [] e.kind = "modules" -> <<Area(e.base, e.len, "bootdata")>>
      [] e.kind = "reserved" -> <<Area(e.base, e.len, "critical")>>
      [] e.kind = "bad" -> <<Area(e.base, e.len, "bad")>>
      [] OTHER -> <<Area(e.base, e.len, "unknown")>>

PagesOf(a) == a .. a + pmad[a].len - 1

\* ki_get_pmad
RegionOf(p) == CHOOSE a \in DOMAIN pmad : p \in PagesOf(a)

InOrder(S) == [i \in 1..Cardinality(S) |-> CHOOSE a \in S : Cardinality({b \in S : b < a}) = i - 1]

PagesWhere(Types) ==
    UNION {PagesOf(a) : a \in {r \in DOMAIN pmad : pmad[r].type \in Types}}

AllTypes == {"available", "hardware", "acpi", "bootdata", "critical", "bad"}

-----------------------------------------------------------------------------
(* Virtual addresses and page tables.                                      *)

DirectRoot == 0                \* PML4X(DIRECTPHYMEM_VBASE)
KvRoot == 1                    \* PML4X(DIRECTPHYMEM_VTOP + 1)
KernelRoot == Fan - 1          \* PML4X(KERNEL_VBASE)
Span == Fan * Fan * Fan        \* pages below a PML4 entry
KERNEL_VBASE == KernelRoot * Span + (Fan - 2) * Fan * Fan

Index(v, level) == CASE level = 4 -> v \div Span
                     [] level = 3 -> (v \div (Fan * Fan)) % Fan
                     [] level = 2 -> (v \div Fan) % Fan
                     [] level = 1 -> v % Fan

PML4 == -1
PDPT == -2
PDT(i) == -10 - i
PTT(i) == -100 - i

Empty == [i \in 0..Fan - 1 |-> NULL]

LOW == 0       \* physical page 0, to which an entry of zeros leads
VOID == -1000  \* what the bytes of page 0 lead to, where they read as an entry: no memory

\* The physical page a virtual page is mapped to.
Walk(v) ==
    LET below(t, level) == IF t = NULL THEN NULL ELSE table[t][Index(v, level)]
    IN  below(below(below(below(PML4, 4), 3), 2), 1)

\* hn_mm_init_paging: the last two PDPT entries of the last PML4 entry, except
\* for the temporary mapping area and the last two pages.
KernelTables ==
    [t \in {PML4, PDPT} \cup {PDT(i) : i \in 0..1} \cup {PTT(i) : i \in 0..2 * Fan - 1} |->
        CASE t = PML4 -> [Empty EXCEPT ![KernelRoot] = PDPT]
          [] t = PDPT -> [i \in 0..Fan - 1 |-> IF i >= Fan - 2 THEN PDT(i - (Fan - 2)) ELSE NULL]
          [] t <= PDT(0) /\ t > PTT(0) -> [i \in 0..Fan - 1 |-> PTT((PDT(0) - t) * Fan + i)]
          [] OTHER -> [i \in 0..Fan - 1 |->
                 LET n == (PTT(0) - t) * Fan + i
                 IN  IF n \in Tmp \/ n >= 2 * Fan * Fan - 2 THEN NULL ELSE Image + n]]

\* mm_kvmalloc_early for one page: the first entry that is absent at any
\* level starts at the first address that is not mapped.
mm_kvmalloc_early ==
    LET unmapped == {v \in KvRoot * Span .. KERNEL_VBASE - 1 : Walk(v) = NULL}
    IN  CHOOSE v \in unmapped : \A w \in unmapped : v <= w

\* hn_mm_mmap_early.  Whether a PDT has to be made is read off entry 0 of the
\* PDPT.  Behind a present entry 0 an absent entry is left absent, and page 0
\* is taken for the PDT it names, with whatever its bytes read as.
Early(v) ==
    LET made3 == table[PML4][Index(v, 4)] = NULL
        t3 == IF made3 THEN spare[3] ELSE table[PML4][Index(v, 4)]
        made2 == made3 \/ table[t3][0] = NULL
        t2 == CASE made2 -> spare[2]
                [] ~made2 /\ table[t3][Index(v, 3)] = NULL -> LOW
                [] OTHER -> table[t3][Index(v, 3)]
        made1 == made2 \/ table[t2][Index(v, 2)] = NULL
        t1 == IF made1 THEN spare[1] ELSE table[t2][Index(v, 2)]
    IN  [tables |-> <<t1, t2, t3>>, made |-> <<made1, made2, made3>>]

\* Only the entries of tables that are made are written, and the page's own.
Entered(v, p, e) ==
    [t \in DOMAIN table \cup ({e.tables[k] : k \in 1..3} \ {VOID}) |->
        [i \in 0..Fan - 1 |->
            CASE t = PML4 /\ i = Index(v, 4) /\ e.made[3] -> e.tables[3]
              [] t = e.tables[3] /\ i = Index(v, 3) /\ e.made[2] -> e.tables[2]
              [] t = e.tables[2] /\ i = Index(v, 2) /\ e.made[1] -> e.tables[1]
              [] t = e.tables[1] /\ i = Index(v, 1) -> p
              [] OTHER -> IF \E k \in 1..3 : t = e.tables[k] /\ e.made[k]
                          THEN NULL ELSE table[t][i]]]

-----------------------------------------------------------------------------
(* The page allocator, on lists that are still being built.                *)

RamPage == UNION {UNION {m[i].base .. m[i].base + m[i].len - 1 : i \in DOMAIN m} : m \in Maps}

Stray == -1  \* what descs[-1] of a pool page points to

\* mm_pgalloc(MM_PHYSICAL_MEMORY_TYPE_AVAILABLE)
Available == {a \in DOMAIN pmad : pmad[a].type = "available" /\ free_list[a] # NULL}

mm_pgalloc == IF Available = {} THEN NULL
              ELSE free_list[CHOOSE a \in Available : \A b \in Available : a <= b]

ki_set_page_used(m) ==
    /\ ref_count' = [ref_count EXCEPT ![m] = @ + 1]
    /\ free_list' = [a \in DOMAIN pmad |-> IF free_list[a] = m THEN next_free[m] ELSE free_list[a]]
    /\ next_free' = [p \in RamPage |-> IF p = m THEN NULL
                                       ELSE IF p = prev_free[m] THEN next_free[m] ELSE next_free[p]]
    /\ prev_free' = [p \in RamPage |-> IF p = m THEN NULL
                                       ELSE IF p = next_free[m] THEN prev_free[m] ELSE prev_free[p]]

mm_pgfree(m) ==
    /\ ref_count' = [ref_count EXCEPT ![m] = @ - 1]
    /\ next_free' = [next_free EXCEPT ![m] = free_list[RegionOf(m)]]
    /\ prev_free' = [p \in RamPage |-> IF p = free_list[RegionOf(m)] THEN m ELSE prev_free[p]]
    /\ UNCHANGED free_list

-----------------------------------------------------------------------------
(* The steps of kh_mm_init.                                                *)

Init == /\ \E m \in Maps :
               /\ step = IF Len(m) > Storage THEN "panic" ELSE "push"
               /\ areas = FlattenSeq([i \in 1..Len(m) |-> Areas(m[i])])
        /\ pmad = <<>> /\ todo = <<>> /\ prev = NULL /\ free_list = <<>>
        /\ next_free = [p \in RamPage |-> NULL] /\ prev_free = [p \in RamPage |-> NULL]
        /\ ref_count = [p \in RamPage |-> 0]
        /\ pools = <<>> /\ table = <<>> /\ spare = <<NULL, NULL, NULL>>
        /\ job = <<>> /\ direct = <<>> /\ mapped = <<DirectRoot * Span, 0>>

\* hn_push_pmad: only the region below is compared.
Rejected(a) ==
    \/ a.type = "unknown"
    \/ Cardinality(DOMAIN pmad) + 1 >= Storage
    \/ a.base \in DOMAIN pmad
    \/ \E d \in DOMAIN pmad : /\ d <= a.base /\ d + pmad[d].len > a.base
                             /\ \A b \in DOMAIN pmad : b <= a.base => b <= d

hn_push_pmad ==
    /\ step = "push" /\ areas # <<>>
    /\ IF Rejected(Head(areas))
       THEN step' = "panic" /\ UNCHANGED <<areas, pmad, free_list>>
       ELSE /\ pmad' = [b \in DOMAIN pmad \cup {Head(areas).base} |->
                           IF b = Head(areas).base
                           THEN [len |-> Head(areas).len, type |-> Head(areas).type] ELSE pmad[b]]
            /\ free_list' = [b \in DOMAIN pmad' |-> NULL]
            /\ areas' = Tail(areas) /\ UNCHANGED step
    /\ UNCHANGED <<todo, prev, next_free, prev_free, ref_count, pools, table, spare, job,
                   direct, mapped>>

hn_mm_init_paging ==
    /\ step = "push" /\ areas = <<>>
    /\ step' = "choose"
    /\ \E low \in {NULL, VOID} : table' = KernelTables @@ (LOW :> [i \in 0..Fan - 1 |-> low])
    /\ UNCHANGED <<areas, pmad, todo, prev, lists, pools, spare, job, direct, mapped>>

\* The regions of the first page tables and of the first pool page.  The loop
\* ends when it has both.
Pick(found, a) ==
    LET tables == IF pmad[a].len > 3 THEN 3 ELSE 0
        tab == IF tables = 3 THEN a ELSE found.tab
        pool == IF pmad[a].len > pmad[a].len \div Descs + tables THEN a ELSE found.pool
    IN  IF pmad[a].type # "available" \/ NULL \notin {found.tab, found.pool}
        THEN found ELSE [tab |-> tab, pool |-> pool]

Initial == FoldLeft(Pick, [tab |-> NULL, pool |-> NULL], InOrder(DOMAIN pmad))

\* Mutant: the pool page right behind two tables.
PoolPageInTables(found) == IF found.pool = found.tab THEN found.tab + 2 ELSE found.pool

PoolPage(found) == IF found.pool = found.tab THEN found.tab + 3 ELSE found.pool

Choose ==
    /\ step = "choose"
    /\ \E found \in {Initial} :
          IF NULL \in {found.tab, found.pool}
          THEN step' = "panic" /\ UNCHANGED <<spare, job>>
          ELSE /\ spare' = <<found.tab + 2, found.tab + 1, found.tab>>
               /\ job' = [v |-> mm_kvmalloc_early, p |-> PoolPage(found),
                          then |-> "reserve", back |-> "describe"]
               /\ step' = "map"
    /\ UNCHANGED <<areas, pmad, todo, prev, lists, pools, table, direct, mapped>>

\* One call of hn_mm_mmap_early, and the pages it used are no longer held.
MapEarly ==
    /\ step = "map"
    /\ \E e \in {Early(job.v)} :
          /\ table' = Entered(job.v, job.p, e)
          /\ spare' = [k \in 1..3 |-> IF e.made[k] THEN NULL ELSE spare[k]]
    /\ step' = job.then
    /\ UNCHANGED <<areas, pmad, todo, prev, lists, pools, job, direct, mapped>>

Tables == {t \in DOMAIN table : t > 0}

\* The first pool page and the tables get descriptors that are on no list.
Reserve ==
    /\ step = "reserve"
    /\ pools' = <<[page |-> job.p, v |-> job.v, descs |-> <<job.p>> \o InOrder(Tables)]>>
    /\ todo' = InOrder(PagesWhere({"available"}) \ (Tables \cup {job.p}))
    /\ spare' = <<NULL, NULL, NULL>> /\ step' = "describe"
    /\ UNCHANGED <<areas, pmad, prev, lists, table, job, direct, mapped>>

\* The descriptor in front of the page's on its list.  For memory that is not
\* available it is the one in the slot below, also at the start of a pool page.
Before(j) ==
    IF step = "describe"
    THEN IF prev # NULL /\ RegionOf(prev) = RegionOf(j) THEN prev ELSE NULL
    ELSE IF j = RegionOf(j) THEN NULL
    ELSE IF pools[1].descs = <<>> THEN Stray ELSE Last(pools[1].descs)

Describing == step \in {"describe", "describe_other"}

Full == Len(pools[1].descs) >= Descs

Describe ==
    /\ Describing /\ todo # <<>> /\ ~Full
    /\ \E j \in {Head(todo)} : \E before \in {Before(j)} :
          /\ free_list' = IF before = NULL THEN [free_list EXCEPT ![RegionOf(j)] = j] ELSE free_list
          /\ prev_free' = [prev_free EXCEPT ![j] = before]
          /\ next_free' = [p \in RamPage |-> IF p = before THEN j ELSE next_free[p]]
          /\ pools' = [pools EXCEPT ![1].descs = Append(@, j)]
          /\ prev' = j
    /\ todo' = Tail(todo)
    /\ UNCHANGED <<step, areas, pmad, ref_count, table, spare, job, direct, mapped>>

\* The pool page is full: take a page and map it in front of the pools.
Grow ==
    /\ Describing /\ todo # <<>> /\ Full
    /\ IF mm_pgalloc = NULL THEN step' = "panic" /\ UNCHANGED <<lists, job>>
       ELSE /\ ki_set_page_used(mm_pgalloc)
            /\ job' = [v |-> mm_kvmalloc_early, p |-> mm_pgalloc, then |-> "pool", back |-> step]
            /\ step' = "refill"
    /\ UNCHANGED <<areas, pmad, todo, prev, pools, table, spare, direct, mapped>>

\* A page for each table that may have to be made, the PDPT's first.
Refill ==
    /\ step = "refill"
    /\ \E missing \in {{k \in 1..3 : spare[k] = NULL}} :
          IF missing = {} THEN step' = "map" /\ UNCHANGED <<lists, spare>>
          ELSE IF mm_pgalloc = NULL THEN step' = "panic" /\ UNCHANGED <<lists, spare>>
          ELSE /\ ki_set_page_used(mm_pgalloc)
               /\ \E k \in missing : /\ \A l \in missing : l <= k
                                     /\ spare' = [spare EXCEPT ![k] = mm_pgalloc]
               /\ UNCHANGED step
    /\ UNCHANGED <<areas, pmad, todo, prev, pools, table, job, direct, mapped>>

AddPool ==
    /\ step = "pool"
    /\ pools' = <<[page |-> job.p, v |-> job.v, descs |-> <<>>]>> \o pools
    /\ step' = job.back
    /\ UNCHANGED <<areas, pmad, todo, prev, lists, table, spare, job, direct, mapped>>

\* CRITICAL memory is described by nobody.
DescribeOthers ==
    /\ Describing /\ todo = <<>>
    /\ IF step = "describe"
       THEN /\ step' = "describe_other"
            /\ todo' = InOrder(PagesWhere(AllTypes \ {"available", "critical"}))
       ELSE step' = "release" /\ UNCHANGED todo
    /\ UNCHANGED <<areas, pmad, prev, lists, pools, table, spare, job, direct, mapped>>

\* The pages held for tables are given back, after the descriptors and again
\* after the direct map.
Release ==
    /\ step \in {"release", "finish"}
    /\ \E held \in {{k \in 1..3 : spare[k] # NULL}} :
          IF held = {}
          THEN /\ step' = IF step = "release" THEN "direct" ELSE "done"
               /\ UNCHANGED <<lists, spare>>
          ELSE /\ \E k \in held : /\ \A l \in held : l <= k
                                  /\ mm_pgfree(spare[k])
                                  /\ spare' = [spare EXCEPT ![k] = NULL]
               /\ UNCHANGED step
    /\ UNCHANGED <<areas, pmad, todo, prev, pools, table, job, direct, mapped>>

Unmapped == DOMAIN pmad \ DOMAIN direct
Skipped(a) == pmad[a].type = "critical" \/ mapped[1] >= (DirectRoot + 1) * Span
Size(a) == IF pmad[a].len < (DirectRoot + 1) * Span - mapped[1]
           THEN pmad[a].len ELSE (DirectRoot + 1) * Span - mapped[1]

Lowest == CHOOSE a \in Unmapped : \A b \in Unmapped : a <= b

DirectPage ==
    /\ step = "direct" /\ Unmapped # {} /\ ~Skipped(Lowest) /\ mapped[2] < Size(Lowest)
    /\ job' = [v |-> mapped[1] + mapped[2], p |-> Lowest + mapped[2],
               then |-> "direct", back |-> "direct"]
    /\ mapped' = [mapped EXCEPT ![2] = @ + 1]
    /\ step' = "refill"
    /\ UNCHANGED <<areas, pmad, todo, prev, lists, pools, table, spare, direct>>

\* Mutant: direct_map_base is recorded after it was moved on.
DirectRegionLate ==
    /\ step = "direct" /\ Unmapped # {}
    /\ \E a \in {Lowest} :
          /\ Skipped(a) \/ mapped[2] = Size(a)
          /\ mapped' = IF Skipped(a) THEN mapped ELSE <<mapped[1] + Size(a), 0>>
          /\ direct' = [b \in DOMAIN direct \cup {a} |->
                           IF b # a THEN direct[b] ELSE IF Skipped(a) THEN NULL ELSE mapped'[1]]
    /\ UNCHANGED <<step, areas, pmad, todo, prev, lists, pools, table, spare, job>>

DirectRegion ==
    /\ step = "direct" /\ Unmapped # {}
    /\ \E a \in {Lowest} :
          /\ Skipped(a) \/ mapped[2] = Size(a)
          /\ direct' = [b \in DOMAIN direct \cup {a} |->
                           IF b # a THEN direct[b] ELSE IF Skipped(a) THEN NULL ELSE mapped[1]]
          /\ mapped' = IF Skipped(a) THEN mapped ELSE <<mapped[1] + Size(a), 0>>
    /\ UNCHANGED <<step, areas, pmad, todo, prev, lists, pools, table, spare, job>>

DirectDone ==
    /\ step = "direct" /\ Unmapped = {} /\ step' = "finish"
    /\ UNCHANGED <<areas, pmad, todo, prev, lists, pools, table, spare, job, direct, mapped>>

Next == \/ hn_push_pmad \/ hn_mm_init_paging \/ Choose \/ MapEarly \/ Reserve \/ Describe
        \/ Grow \/ Refill \/ AddPool \/ DescribeOthers \/ Release
        \/ DirectPage \/ DirectRegion \/ DirectDone

Spec == Init /\ [][Next]_boot

-----------------------------------------------------------------------------
(* Properties.                                                             *)

PoolPages == {pools[i].page : i \in DOMAIN pools}
Held == {spare[k] : k \in 1..3} \ {NULL}
Mapping == IF step \in {"refill", "map"} /\ job.then = "pool" THEN {job.p} ELSE {}
OnList == {p \in PagesWhere({"available"}) : p = free_list[RegionOf(p)] \/ prev_free[p] # NULL}

\* One role per page, and lists that are linked both ways.
RolesApart ==
    pools # <<>> =>
        LET roles == <<PoolPages, Tables, Held, Mapping, OnList>>
        IN  /\ \A i, j \in DOMAIN roles : i < j => roles[i] \cap roles[j] = {}
            /\ Cardinality(PoolPages) = Len(pools)
            /\ Cardinality(Held) = Cardinality({k \in 1..3 : spare[k] # NULL})
            /\ UNION {roles[i] : i \in DOMAIN roles} \subseteq PagesWhere({"available"})
            /\ \A p \in OnList : /\ ref_count[p] = 0
                                 /\ next_free[p] # NULL => prev_free[next_free[p]] = p
                                 /\ prev_free[p] \in OnList => next_free[prev_free[p]] = p

\* One descriptor per page, and no available page lost but the pages given
\* back, at most three each of the two times.
EveryPageDescribed ==
    step = "done" =>
        LET described == FlattenSeq([i \in DOMAIN pools |-> pools[i].descs])
        IN  /\ ToSet(described) = PagesWhere(AllTypes \ {"critical"})
            /\ Len(described) = Cardinality(ToSet(described))
            /\ \A i \in DOMAIN pools : Len(pools[i].descs) <= Descs
            /\ Cardinality(PagesWhere({"available"})
                   \ (OnList \cup PoolPages \cup Tables)) <= 6

\* From the first descriptor on, a page serves one purpose: it is a pool page,
\* a page table, held for a table or threaded on its list, never two of them,
\* although the pages for pools and tables are taken off the lists while
\* hn_mm_init_areas is still building them (init.cc:203-216).  When boot is
\* done every page outside CRITICAL memory has exactly one descriptor, in a
\* pool page with room for it.
PagesServeOnce == RolesApart /\ EveryPageDescribed

\* kh_get_direct_mmap, where p > DIRECTPHYMEM_VTOP cannot hold.
kh_get_direct_mmap(p) ==
    IF direct[RegionOf(p)] = NULL THEN NULL ELSE direct[RegionOf(p)] + (p - RegionOf(p))

\* The virtual addresses boot hands out read the pages they stand for: every
\* pool page, at every step after it is mapped, the kernel's image without its
\* temporary mapping area, and when boot is done the pages of a region that has
\* a direct map (kh_get_direct_mmap), each at an address of its own, as far as
\* the first page directory of the direct map goes.  Behind it nothing is
\* mapped: vm.cc:111 makes no second directory, and what is written to page 0
\* in its place gives no address another page to read.
BootMapsAgree ==
    /\ \A i \in DOMAIN pools : Walk(pools[i].v) = pools[i].page
    /\ table # <<>> => \A n \in 0..2 * Fan * Fan - 3 :
           Walk(KERNEL_VBASE + n) = IF n \in Tmp THEN NULL ELSE Image + n
    /\ step = "done" => \A a \in DOMAIN pmad : pmad[a].type # "critical" =>
           \A p \in PagesOf(a) :
               Walk(kh_get_direct_mmap(p)) = IF Index(kh_get_direct_mmap(p), 3) = 0 THEN p ELSE NULL
=============================================================================
