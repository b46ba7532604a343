------------------------------ MODULE Topology ------------------------------
(***************************************************************************)
(* From the firmware's tables to per-processor storage, the calls that     *)
(* kernel_main makes once memory is set up: kh_acpi_init                   *)
(* (hal/x86_64/acpi/misc.cc), kh_mp_init_topology,                         *)
(* kh_mp_alloc_platform_resources and mp_main_cpu_init                     *)
(* (hal/x86_64/mp/init.cc) and ki_mp_alloc_resources (kernel/mp/init.cc).  *)
(* Every allocation may fail, and then the kernel panics.  A table is a    *)
(* record: whether direct-mapped memory holds it, whether it starts a      *)
(* page, whether its checksum is right, and its records if it is a MADT.   *)
(***************************************************************************)
EXTENDS Integers, Sequences, FiniteSets

CONSTANTS Firmware, \* what firmware may provide: RSDP, root table and the tables it lists
          Noise,    \* what unrelated bytes may read as: such descriptions too
          Behind,   \* tables that the words behind an XSDT may point to
          Elapsed   \* ticks of the local APIC while the PIT counts down

VARIABLES at,               \* the next call, "up", or how boot ended: "panic", "fault"
          fw,
          entries,          \* ki_mapped_acpi_rsdt_entries
          mp_num_total_cpu,
          tss,              \* indexes of hn_tss_storage_ptr
          gdt,              \* hn_gdt_storage_ptr: the TSS each descriptor table names
          tmpmap,           \* hn_tmpmap_storage_ptr
          cur_contexts,     \* mm_cur_contexts
          hn_sched_interval

acpi == <<fw, entries>>
storage == <<tss, gdt, tmpmap>>
topology == <<at, acpi, mp_num_total_cpu, storage, cur_contexts, hn_sched_interval>>

Init == /\ at = "kh_acpi_init" /\ fw \in Firmware /\ entries = <<>> /\ mp_num_total_cpu = 0
        /\ tss = {} /\ gdt = <<>> /\ tmpmap = <<>> /\ cur_contexts = <<>> /\ hn_sched_interval = 0

Cpu == 0..mp_num_total_cpu - 1

\* A structure outside direct-mapped memory is mapped by its page and read at
\* the page's first byte, whatever its offset: unless it starts the page, the
\* bytes may be anything.
Readings(f, t) == IF t.direct \/ t.aligned THEN {f} ELSE Noise

\* Entries of four bytes are counted whichever root table it is, so for an
\* XSDT the second half of the entries lies behind the table.
ki_acpi_rsdt_length(rev, tables) == IF rev = 2 THEN 2 * Len(tables) ELSE Len(tables)
ki_acpi_rsdt_paddr_at(rev, tables) ==
    {tables \o tail : tail \in [1..ki_acpi_rsdt_length(rev, tables) - Len(tables) -> Behind]}

\* Checksums of the RSDP, of its extension and of the root table, and the
\* revisions that are known.
Damaged(p, r) == \/ ~p.rsdp.sum \/ p.rev \notin {0, 2}
                 \/ p.rev = 2 /\ ~p.xsum
                 \/ ~r.root.sum

\* A listed table outside direct-mapped memory is mapped without
\* MM_PAGE_MAPPED, after a reservation of i bytes: for the first entry, of none,
\* there is no address, and the page of a later one is not present when the
\* length is read from it.
MapTables(list) ==
    LET far == {i \in DOMAIN list : ~list[i].direct}
    IN  IF far = {} THEN at' = "kh_mp_init_topology" /\ entries' = list
        ELSE at' = (IF 1 \in far THEN "panic" ELSE "fault") /\ UNCHANGED entries

\* p and r are the descriptions whose RSDP and root table the kernel reads.
kh_acpi_init ==
    /\ at = "kh_acpi_init"
    /\ \E p \in Readings(fw, fw.rsdp) : \E r \in Readings(p, p.root) :
          \/ /\ \/ Damaged(p, r)
                \/ r.tables # <<>> \/ ~fw.rsdp.direct \/ ~p.root.direct  \* no memory
             /\ at' = "panic" /\ UNCHANGED entries
          \/ /\ ~Damaged(p, r)
             /\ \E list \in ki_acpi_rsdt_paddr_at(p.rev, r.tables) : MapTables(list)
    /\ UNCHANGED <<fw, mp_num_total_cpu, storage, cur_contexts, hn_sched_interval>>

Listed(table, kind) == Cardinality({i \in DOMAIN table.records : table.records[i].kind = kind})

\* x2APIC records count if there are any, and local APIC records if not.
Processors(table) == IF Listed(table, "lx2apic") > 0 THEN Listed(table, "lx2apic")
                     ELSE Listed(table, "lapic")

Madts == {i \in DOMAIN entries : entries[i].signature = "APIC"}

\* Only the first MADT counts.
kh_mp_init_topology ==
    /\ at = "kh_mp_init_topology"
    /\ mp_num_total_cpu' =
          IF Madts = {} THEN 0
          ELSE Processors(entries[CHOOSE i \in Madts : \A j \in Madts : i <= j])
    /\ at' = IF mp_num_total_cpu' = 0 THEN "panic" ELSE "kh_mp_alloc_platform_resources"
    /\ UNCHANGED <<acpi, storage, cur_contexts, hn_sched_interval>>

OutOfMemory ==
    at' = "panic" /\ UNCHANGED <<acpi, mp_num_total_cpu, storage, cur_contexts, hn_sched_interval>>

\* What is recorded of the page table of an area is its physical address.
kh_mp_alloc_platform_resources ==
    /\ at = "kh_mp_alloc_platform_resources"
    /\ \/ OutOfMemory
       \/ /\ tss' = Cpu
          /\ gdt' = [i \in Cpu |-> i]
          /\ tmpmap' = [i \in Cpu |-> [tmpmap_base |-> i, tmpmap_pgtab_base |-> "physical"]]
          /\ at' = "ki_mp_alloc_resources"
          /\ UNCHANGED <<acpi, mp_num_total_cpu, cur_contexts, hn_sched_interval>>

ki_mp_alloc_resources ==
    /\ at = "ki_mp_alloc_resources"
    /\ \/ OutOfMemory
       \/ /\ cur_contexts' = [i \in Cpu |-> "mm_kernel_context"] /\ at' = "mp_main_cpu_init"
          /\ UNCHANGED <<acpi, mp_num_total_cpu, storage, hn_sched_interval>>

\* hn_calibrate_apic: a tenth of the ticks that the APIC makes in the ten
\* milliseconds of COUNT_RATE.
mp_main_cpu_init ==
    /\ at = "mp_main_cpu_init"
    /\ \/ OutOfMemory
       \/ /\ \E t \in Elapsed : hn_sched_interval' = t \div 10
          /\ at' = "up"
          /\ UNCHANGED <<acpi, mp_num_total_cpu, storage, cur_contexts>>

Next == \/ kh_acpi_init \/ kh_mp_init_topology \/ kh_mp_alloc_platform_resources
        \/ ki_mp_alloc_resources \/ mp_main_cpu_init

Ids(table, kinds) ==
    {table.records[i].id : i \in {j \in DOMAIN table.records : table.records[j].kind \in kinds}}
All(table) == Ids(table, {"lapic", "lx2apic"})

\* Boot counts no processor twice, though firmware may list one by both kinds
\* of record and may list several MADTs, and misses none unless only some have
\* a record of the newer kind; when it is done every processor has a context, a
\* task state that its own descriptor table names, and an area for temporary
\* mappings that no other has.
ProcessorsServed ==
    at \notin {"kh_acpi_init", "kh_mp_init_topology", "panic", "fault"} =>
        /\ mp_num_total_cpu > 0
        /\ \E m \in Madts :
              /\ mp_num_total_cpu <= Cardinality(All(entries[m]))
              /\ Ids(entries[m], {"lx2apic"}) \in {{}, All(entries[m])}
                    => mp_num_total_cpu = Cardinality(All(entries[m]))
        /\ at = "up" => /\ DOMAIN cur_contexts = Cpu
                        /\ \A i \in Cpu : gdt[i] = i /\ i \in tss
                        /\ \A i, j \in Cpu : i # j => tmpmap[i].tmpmap_base # tmpmap[j].tmpmap_base
=============================================================================
