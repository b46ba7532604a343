# A TLA+ development of the PBOS kernel

PBOS is an experimental operating-system kernel in C++. This directory holds TLA+
modules that model its parts, TLC configurations that check them on small
instances, and TLAPS proofs of the central invariants for every instance.
`PROJECT.json` lists the components, runs, mutants, hazards and theorems, and
maps every definition to the source lines it translates.

The kernel that is modelled is the x86_64 build with assertions on (nothing
defines `_NDEBUG`). Only the boot processor is started, so the concurrency is
that of threads preempted by the LAPIC timer on one CPU. System calls run with
interrupts enabled (`hal/x86_64/ps/thread.cc:8`), so a thread can be preempted
anywhere in the kernel that `io::LocalIrqLock` does not cover.

## 1. Inventory

| Part | Source | State | Operations | What makes it hard |
|---|---|---|---|---|
| Page allocator | `kernel/mm/pgalloc.cc` | per region a free list threaded through page descriptors, per page a reference count and a lock | `mm_pgalloc`, `mm_refpg`, `mm_pgfree` | the list belongs to the region, the lock to the page; preemption between any two statements; out of pages |
| Spinlocks, atomics | `hal/x86_64/kf/spinlock.cc`, `arch/x86_64/atomic.h` | one byte | try-lock, unlock | what the instructions do differs from what the names say |
| Mutexes | `kernel/ps/mutex.cc`, `include/pbos/ps/mutex.hh` | owner, depth, reader count, writer flag | lock, try-lock, unlock, guards | everything above relies on them |
| Red-black tree | `include/pbos/kfxx/rbtree.hh`, `kernel/kfxx/rbtree.cc` | nodes with three links and a colour, root, ends, size | insert, remove, clear, searches, iteration | the timer walks the process tree in the middle of a call |
| Process table | `kernel/ps/proc.cc`, `exec.cc` | tree of PCBs by PID, lowest-free hint, largest PID | `ps_exec`, `ps_create_proc`, `ki_destroy_proc` | failures after every step; several `ps_exec` at once |
| Scheduler | `kernel/ps/sched/simploop.c`, `hal/x86_64/ps/sched.cc`, `proc.cc` | current process and thread, flags, the timer | `hn_isr_timer`, yield, `kh_enter_sched` | the interrupt meets every state of the process table |
| Memory regions | `kernel/mm/misc.cc` | per process a tree of regions with access and a mutex | `mm_mmap`, merge, split, set access, probe and lock, unlock | partial failures, boundaries, two threads in one space |
| Page tables | `hal/x86_64/mm/vmmgr/vm.cc` | four-level tables | map, unmap, search, translate | out of pages in the middle; tables freed when empty |
| Memory contexts | `hal/x86_64/mm/context.cc` | top-level table, regions, two heaps | allocate, free, switch | order of release |
| Kernel heap | `kernel/mm/kima/` | blocks and page descriptors in trees, pools | allocate, reallocate, free | alignment, reference counts of pages, pools that empty |
| Memory set-up | `hal/x86_64/mm/init.cc`, early part of `vmmgr/vm.cc` | regions, descriptors, first tables, temporary mappings | `kh_mm_init` | the lists are taken from while they are built; boundaries |
| Processors, ACPI | `hal/x86_64/acpi/`, `hal/x86_64/mp/`, `kernel/mp/`, `kernel/acpi/` | tables found, number of processors, storage per processor | `kh_acpi_init`, `kh_mp_init_topology`, ... | every form the firmware's tables can have |
| Files | `kernel/fs/`, `hal/x86_64/initcar/` | tree of counted nodes, open files | resolve, open, close, mount | reference counts on every path |
| System calls | `kernel/syscall/pbcore.cc` | descriptors of a process | open, close, read, write, exec | arguments locked while the call runs |
| Loaders | `kernel/ps/loader/x86_64`, `exec.cc` | registries, cached pages | load, register | failures in the middle of a load |
| Kernel modules | `kernel/ps/kmod.cc` | list, sections, symbols | create, remove, register | ownership of names |
| Containers | `include/pbos/kfxx/`, `kernel/kf/rbtree.c` | hash sets and maps, arrays, lists, ordered sets and maps, a second tree in C | insert, remove, resize, move, iterate | failing allocations, objects moved over themselves, pointers kept by detached nodes |
| Text | `lib/freestdc/`, `kernel/kd/logger.cc`, `hal/x86_64/display/vga.cc` | a format and its arguments, memory, the screen | print, copy, compare, scroll | edges of types and buffers |
| Devices, buses | `kernel/dm/` | trees, registries, counts | link, unlink, register | no caller |
| Interrupt set-up, panic, 32-bit port | `hal/` | none that outlives the call, or output only | | |

Parts call each other downwards: system calls use files, regions and `ps_exec`;
`ps_exec` uses a loader, which maps pages into a new context, and then the
process table; the scheduler reads the process table; regions, tables and the
heap rest on the page allocator; everything rests on mutexes, spinlocks and the
tree.

## 2. Modules

| Module | Models | Grain |
|---|---|---|
| `PageList` | the page allocator | one action per call |
| `PageAlloc` | the same, implements `PageList` | one action per statement, threads interleave |
| `Spinlock` | lock bytes | operators: byte to byte and result |
| `Mutex`, `RecMutex` | plain and recursive mutexes and their guards | one action per memory access |
| `RwMutex` | the reader/writer mutex | one action per atomic access |
| `RBTree` | `kfxx::RBTree` | a call is the sequence of its stores |
| `ProcTable` | process table under `ps_exec` | one action per section that the write lock covers |
| `Sched` | timer, scheduler, yield over `ProcTable` | one action per interrupt or per section that an interrupt cannot cut |
| `Vmr` | region tree of a process | loading: one action per call; probing: one per turn of a loop |
| `AddrSpace` | page tables, contexts, stacks and what a load maps | one action per call, per page of a segment |
| `Kima` | the kernel heap | one action per call |
| `BootMap`, `TmpMap` | memory set-up at boot, temporary mappings | one action per page, table or region; per mapping |
| `Topology` | firmware tables, processors and their storage | one action per call of `kernel_main` |
| `Vfs` | files, the archive, descriptors | one action per component of a path, per step of a system call |
| `Kmod` | kernel modules and symbols | one action per call |
| `HashSet`, `Dict` | `kfxx::HashMap` over `kfxx::HashSet`; the finite map it implements | one action per call |
| `DynArray`, `List`, `SetMap`, `KfRBTree` | array, list, ordered sets and maps, the tree in C | one action per call |
| `Printf`, `Bytes`, `Vga`, `Terminal` | formatted output; memory and string functions; the screen, and the terminal it implements | one action per directive; per call; per character |
| `MC*` | constants and symmetry for TLC; parts that share a run are put side by side, a behaviour being one of any of them | |
| `*Proofs` | theorems: `MemoryProofs` on `PageList`, `TmpMap`, `SetMap` and `Vga`; `LocksProofs` on the mutexes; `PsProofs` on `ProcTable` and `Sched`; `VmrProofs` on regions, `VmrCallProofs` on the calls of `Vmr`; `VfsCallProofs` (resolving, opening), `VfsProcProofs` (processes, the start of the boot) and `VfsProofs` (the rest of the boot, theorems) on `Vfs` | |

### Page allocator: `PageList`, `PageAlloc`

A page is its descriptor and its address; a region is its base address. The
variables are the fields `free_list`, `next_free`, `prev_free`, `ref_count`.
`Init` is what `hn_mm_init_areas` leaves behind: the unreserved pages of every
region chained in address order. `ki_alloc_free_page` looks for the first region
of a type that has a head. `ki_set_page_used` and `ki_set_page_free` are
translated field by field; in particular a freed page is put in front of the
head without becoming the head. A page at address 0 cannot be handed out,
since its address reads as failure.

`PageAlloc` gives each thread a program counter and the statements left of its
call. The search for a head is one step; all later statements are steps of their own. The
lock bytes follow `Spinlock`, that is, a try-lock always succeeds: `HAL_SPINLOCK_LOCKED`
and `HAL_SPINLOCK_UNLOCKED` are both 0, the compare-and-exchange stores what was
there, and unlocking assigns the parameter. The waiting turns of the lock loops are
therefore not steps of any behaviour.

* Run `pages`, parts "calls" and "statements". Calls: seven pages in three regions of two
  types, one page reserved; the lists stay doubly linked, in address order (`WellLinked`), and
  disjoint from the pages in use (`ListedUnused`). Statements: one thread; they implement
  `PageList` (`ImplementsPageList`; refinement mapping: the heap after the rest of the call),
  and counts agree with what callers hold (`CountsHolders`).
* Run `page_list_leak` (violation): `mm.h:58` says a page whose count becomes 0 is
  marked as free; the code never hands it out again.
* Run `page_alloc_race` (violation): two threads reach the assertion of
  `pgalloc.cc:89` with `prev_free` set.

### Memory set-up and temporary mappings: `BootMap`, `TmpMap`

`BootMap` starts with the bootloader's map. `Areas` cuts it into regions as `hn_mm_init_pmadlist`
does, `Choose`, `Reserve`, `Describe` and `Grow` are the loops of `hn_mm_init_areas` that take pages for
descriptors off the lists they are building, `MapEarly` is `hn_mm_mmap_early` with the tables it makes,
and the `Direct*` actions map physical memory. `Walk` is what the processor does with the tables.

* Run `pages`, part "boot": every map of three entries out of a family (low memory usable or not, a gap or
  none, six kinds of other memory, three sizes), and the empty one. `PagesServeOnce`: no page is listed and used, or
  used twice, and each page is described once. `BootSound`: what is mapped reads the page it
  stands for, and direct-mapped memory behind the first page directory is not mapped. A pool page has 9 descriptors and a table 5 entries, so that both fill up.

What boot does at its edges, all of it in the model: whether a page directory must be made is read off the
first entry of its table (`vm.cc:111`), so when direct-mapped memory goes on past one directory (1 GiB) no second one is entered, page 0 is taken for it, and
nothing behind the first GiB is mapped (`Early`, `Entered`; the bytes of page 0 read as absent entries or lead out of memory; pool
pages would have to fill a directory of their own, some 50 GiB of memory, to be lost in the same way, which the run's maps do not); the pages given back
at the end are lost to the lists; for regions that are not available memory a list breaks at every new
pool page (`descs[-1]`); memories of a few pages panic, and so does one usable page at 0 followed by an entry at page 1; the direct map
ends a byte short of its top. A pool page must hold more than 8 descriptors; it holds about 50.

`TmpMap` has the slots for temporary mappings as walks of the tables nest them, with the early pair of functions and the later one.
Early unmapping leaves the writable flag, so these slots look used to the later functions; a slot
that `hn_tmpunmap_post` gave back stays present, and taking it again fails an assertion; the last two slots are never
taken. What is held is readable until given back (`HeldReadable`, part of `BootSound`): six slots, three
tables deep.

### Processors: `Topology`

The calls between memory set-up and `ki_fs_init`. Firmware is a record: revision, whether the checksums are right, where the RSDP and the root
table lie, and the tables with their records. `Noise` is what unrelated bytes may read as: a structure outside direct-mapped memory is
read at the start of its page, whatever its offset. With an XSDT twice as many entries are read as
there are (`rsdt.cc:17` divides by four); `Behind` is where the words behind it point. A table outside
direct-mapped memory ends boot: the first one because a range of 0 bytes is reserved, later ones because
the page is mapped without `MM_PAGE_MAPPED`. Without an RSDP `mm/init.cc:54` has read through a null pointer before these calls ask for it,
so there always is one. A record of length 0, at which the loop would stay, is not among the inputs.

* Run `pages`, part "processors" (`ProcessorsServed`, part of `BootSound`): no processor is counted twice, none is missed
  unless only some have x2APIC records, and each gets its storage. Two processors and two tables are
  enough to list one twice by kind and by table. `Elapsed` has a tick count that calibrates to 0 and one that does not.

### Mutexes: `Mutex`, `RecMutex`, `RwMutex`

Because the spinlock always succeeds, a plain or recursive mutex never keeps a
thread out; what it does is record its last owner and stop the kernel when
an unlock finds another. The runs say exactly when that happens: only when two
threads were inside together, never through nesting (`PanicsOnlyOnOverlap`, with
the depth that the recursive mutex keeps). `overlapped` is a history variable. `lock_times` wraps at `SIZE_MOD`; 4 is enough for two threads that nest two
deep, and shows the wrap to the maximum after a lost update.

The reader/writer mutex uses atomic exchanges and does exclude a second writer,
by stopping the kernel. A reader can meet a writer through the
window between its test of `is_writing` and its count: `OverlapOnlyInWindow` says
there is no other way. `early` is a history variable for it.

* Run `locks`: `MCLocks` lets the threads share one lock of the three kinds. Two
  threads on a plain or a recursive mutex, nesting two deep; four threads on the
  reader/writer mutex, as two readers in the window, one inside and one writer are
  the largest case that differs from smaller ones.

### Red-black tree: `RBTree`

`trace` is the memory before the last call and after each of its stores, in source
order, so the invariants look at every intermediate state too. A node is its key.
Run `containers`, part "tree": all sequences of insertions, removals and clearings of seven keys, enough for every case of the
removal loop. Between calls the tree is ordered, balanced and doubly linked,
`find_max_lteq` and loops of all four kinds of iterators agree with the set of keys, and
clearing deletes each node once (`TreesOrdered`). Between any two stores the walk of the timer
interrupt gets to a node of the tree (`InterruptWalks`). The module uses recursive operators and is therefore not
one that theorems are stated about.

### Process table: `ProcTable`

A PCB is free, loading, loaded (its main thread exists) or live. Its PID reads 0
until `ps_create_proc`. The sections under the write lock are single steps, which
`RwMutex` justifies: a second writer never enters. Failing `ps_alloc_pcb`, and running out of PIDs, end in a double free, which
the heap's assertion refuses: `panic` stops the model. A failing load destroys the PCB.

* Run `proc_table`, part "processes": four PCBs, three PIDs, so that PIDs run out and are reused:
  `OnlyPidZeroLost`, and the lowest free PID is given out (`LowestPid`).
* Run `proc_table_lost` (violation): the comment at `proc.cc:48` says a PCB is
  removed only when it is in the tree; a failing load removes the process with PID 0.
  `OnlyPidZeroLost` says that no other process is ever lost.

### Scheduler: `Sched`

The process table is `ProcTable`, included by `INSTANCE` with its own variables;
`Sched` adds who loads what, threads, the current process and thread, the
scheduled flags, and the timer. `hn_isr_timer` is the whole handler: choosing the
next thread, switching, re-arming. Without a next thread the handler's assertion, or the
access to a null process when the tree is empty, stops the kernel (`fault`).
Saved registers are left out. The loop in `kh_yield_cur_thread` reads a flag that the
interrupt may write without synchronisation, so the build may fold it or spin: a
thread that spins takes no step until the interrupt changes the current thread.

* Run `sched`: two PCBs, two PIDs, up to three threads each, under `Fairness`: only live processes get the CPU,
  every thread of a process in the tree runs again and again (`EveryThreadRuns`), and what never runs again is a process taken out of the tree,
  and everything but the thread whose yield stopped the timer (`CpuLostForGood`).

Fairness: weak fairness of `Expire` and `hn_isr_timer`, because the timer is periodic
and interrupts are enabled in every thread, and of `kh_enter_sched`, to which
`kernel_main` goes on. Nothing is assumed of the threads themselves.

### Memory regions: `Vmr`

Addresses are page numbers. That is exact: the code uses an argument only through
`PGFLOOR(ptr)` and `PGCEIL(size)`, and ranges that lie in a page behave like the
page. First a loader maps segments page by page, merges, and, through
the kernel interface, splits and changes access; then the threads of the process make
system calls, each of which probes and locks two ranges (`sysent_open`, `sysent_read`, `sysent_exec_child`) or one (`sysent_write`, which
never unlocks) and unlocks them in reverse order. A turn of the walk of `mm_probe_and_lock_pages` is
a step; a mutex operation is one, following the mutex modules: it never waits, and
unlocking stops the kernel when the owner is another.
`mm_unmmap` rejects every user range (`misc.cc:147`) and so has no action.

* Run `memory`, part "regions": two symmetric threads, three user pages. Two regions side by side, a gap
  and a range across both need three. It shows that regions never overlap (`Disjoint`), that a probe succeeds
  exactly when the pages are covered with the access asked for (`ProbeDecides`), and that the kernel stops in
  a probe or unlock only when two threads met or a range was empty (`PanicCause`), so that the loader, whose
  merges, splits and removals come first, never stops it.

### Address spaces: `AddrSpace`

`mem` is physical memory as far as it holds tables: frame, index, entry. The walks of
`vm.cc` are operators on a record of memory, reference counts and free frames, so that an action is a whole
call with every table it allocates and every early return. Above them are the users: the
heap's pages, the context of a new process, its user and kernel stack, and the segments
an ELF load maps page by page through a window in the context that is current, with
`ki_destroy_proc` after any failure. Loads of two processes interleave page by page.

Facts about the code that the model shows at work:

* `kh_unmmap` visits the PML4 entries before the one of its limit
  (`pml4x < PML4X(addr_limit)`). A range within one entry, which is every call but
  `mm_free_context`, unmaps nothing: freed pages stay mapped.
* In `mm_free_context` the walk reads the PDPT in place of the tables below it. It frees
  the directories the PDPT names, then page 0 (`vm.cc:532`), then what the entry behind the last one of the PDPT
  names (`vm.cc:544` indexes the PDPT with `pdx`, which is `PDX_MAX` there), then the PDPT.
  The word behind a PDPT is the first entry of the next frame: of a table, or of a page whose bits the model does not
  know, where it is any member of `Words`. That takes
  a reference that is not the walk's, or meets a frame without a descriptor (`kh_get_mad` panics), only when a process goes that had the last
  page of a PML4 entry, which is what `InUseBacked` and `StopsExplained` say: the next frame is then an empty or a foreign one, elsewhere it is the directory made right after the PDPT.
* Backing a reserved page frees the null frame it was mapped to. Where page 0 has no
  descriptor (no area of the memory map covers it, `init.cc:240`, `264`), the first page of the heap stops the kernel.
* A `kh_mmap` that fails unmaps its range on return (`vm.cc:230`), with the effects above.
* A frame whose count goes to 0 does not come back (`page_list_leak`). This is why the
  two facts above do no harm: `FramesExclusive` rests on it.
* A segment's frames lose their reference when the window moves on. They stay mapped.

The layout is shrunk to four PML4 entries, three for the user half (a first, one that a teardown visits with
content, and the last, which it leaves alone) and one for the area of
`mm_kvmalloc` (entries 384 to 511 in the kernel, of which only the first is ever reached);
tables have 2, 2 and 5 entries. A heap call within another call is served from blocks the heap
has; one that takes a page is the action `mm_kalloc`. PIDs do not run out here, that is in `ProcTable`.
All memory is in the direct map, so `hn_tmpmap_post` (`TmpMap`) is not reached.

* Run `addr_space`: two symmetric processes, one segment of two pages each, one heap page, machines
  with 20 frames (memory runs out in every handler) and 37 (both processes get to run), with and without a descriptor of page 0; segments
  next to the stack and across the end of the first PML4 entry; the unknown word is no frame, the directory of the kernel half, a table
  of the first process or a frame there is no memory for. It shows that no frame is in two
  places, that the kernel half is the same in all contexts, that what is in use keeps its translation, has a counted frame (`InUseBacked`)
  but for the stray frames of such a teardown, and that the kernel stops only when memory is used up or in it (`StopsExplained`), although
  `kh_vmalloc` counts free pages that need not be adjacent.

### Kernel heap: `Kima`

A pool is the two trees of blocks and page descriptors, as functions on addresses, and the slots both live in. `Place` is the
loop over addresses, `Found` the loop over descriptors, `AllocPages` and `ReallocPages` the paths to
new pages with their guards. Pages come from above, as nothing is ever unmapped; `mm_kvmalloc` stands for another user of the area,
so that pages of a pool need not be adjacent. The calls are atomic steps; what happens when the
pool's mutex lets two threads in is the subject of `Mutex` and `page_alloc_race`.
`list` is the two lists of slot pages. A page that is the head stays the head when it is given back, and the next page pushed writes its
link (`ublk.cc:30`, `66`); it is still mapped and nobody else's, so nothing breaks, and every page in use stays on its list (`SlotsCounted`).
`num_allocated_pages` is read by nobody and left out.

* Run `memory`, part "heap": pages of two units, slot pages of two slots, memory for six pages, two
  calls that reallocate or spill; requests below a page, of a page and across two, and one whose size is no multiple of its alignment (like
  the TSS storage, `mp/init.cc:112`). `BlocksSound` says that blocks stay apart, that counts are exact and that neither allocating nor freeing stops the kernel, through
  every sequence of calls but the three kinds below, and that only a block whose size is no multiple of its alignment spills. `FailedAllocUndone`: an allocation that fails leaves no descriptor.

Three calls end these guarantees, and the histories `resized` and `spilled` record them. A block of such a size *spills*: the limit at `malloc.cc:37` is
tested before the address is aligned, so the block may leave the pages it was found on and is counted for; later pages at its address
run into `insert_unwrap`. A reallocation to a place next above the block it moves, or within it, *hides* the blocks below it from the search, so that the new place may
overlap one of them. One that takes new *pages* describes them wrongly: there is a descriptor for every byte of the first page
(`malloc.cc:232`) and none for the others, so that freeing such a block across pages stops
the kernel. Its old pages keep their references and the contents are not copied; when the slot page of the
old block empties and memory is out, the old block is gone although the call fails. In place, a block that
does not begin a page has no descriptor to start from, and shrinking by a page runs into the assertion; after a success counts are
no longer exact, but never too small.

### Files and descriptors: `Vfs`

Boot runs first, as one actor: the root, the archive's directory, one entry after the other, and the first program, which is
opened by its path. Then the system calls of the processes interleave at every component of a path, at the
opening and at the descriptor. The size of the archive, which the code keeps in 32 bits (`initcar/init.cc:116`), is below 4 GiB.
`frame` is what `fs_resolve_path` and `fs_open` hold in counted pointers; giving up the
last reference destroys a node, which panics for every type of node.

* Run `vfs`: a good archive, one that ends early, one with a name twice, one without the first program; two symmetric
  processes, five paths (empty, the root, relative, with a trailing and a double slash), two descriptors each, three FCBs.
  `RefsCounted` says that a node's count is the number of references there are, those of calls under
  way included. `ArchiveMounted`: only a whole archive gets mounted, and no two files share a byte. `ResolveAgrees`
  compares the result of a path, reached step by step, with what the path means. `DescriptorsStable`: a descriptor keeps its
  file until it is closed, and its number is never given again.

Facts: `sysent_close` leaves the FCB open for ever, and it counts as a holder of its file; a descriptor is spent when opening fails; an empty path, reading a
directory and, from a program's image, reading past its end fault; `fs_create_fcb` of the root file system
has an empty body, so opening a directory of it fails or faults on a pointer that was never set.

### Kernel modules: `Kmod`

The list of modules, their sections, and the registry of symbols, which is a `HashMap` used as `Dict` allows. A
module's set of names holds views of names that the symbols own, so a view of a destroyed symbol may read anything.

No lock guards the registry: the timer may interrupt an unregistration after the symbol is destroyed and before its entry is
removed (`kmod.cc:190`), and other threads make calls in between. `cut` is that symbol, `dangling` the entries whose name and symbol are
destroyed, `reused` the ones during whose window another call was made, so that the memory of the name may read otherwise.

* Run `proc_table`, part "modules": two symmetric modules, two names, three registrations. `SymbolsLive`: a name that is looked up
  leads to a symbol that exists and has that name, and no symbol outlives its module; a destroyed symbol is found only within such a window, or later if another
  call came into it. The list is linked both ways.

Facts: nothing is put into the tree that is searched for overlapping addresses, so that test never refuses; a known name
is answered with success, its old symbol stays and the new one leaks; a name twice in one module is answered with "no memory" and
removes the first; no file loads, as a loadable segment runs into the case that refuses an interpreter, and without one
the loop does not end. All calls but an unregistration are atomic in the model; an entry that stayed behind makes a later
call free its symbol twice.

### Containers: `HashSet`, `DynArray`, `List`, `SetMap`, `KfRBTree`

Every allocation may fail. Run `containers` has a part for each:

* "map": four keys with hash codes that meet in one bucket at every size or part when the array grows, two values. It implements `Dict`
  (`ImplementsDict`), a finite map in which the first insertion wins, and lookups and loops over the map agree with what is stored (`FindAgrees`).
* "array": up to four elements with symmetric values, trivial ones, objects, and objects with a default constructor. `ElementsKept`: inserting shifts,
  erasing and popping keep the rest, as far as nothing has to move down over itself; a failed call changes nothing, with three exceptions it names; only
  a failed `erase_range_and_shrink` leaves destroyed elements below the length, and destructors run twice only after that and in shrinking objects.
* "list": two lists and three nodes that go from one to the other. `WalksAgree`: walks from either end give the order callers meant; this fails
  exactly when a detached node is linked beside a pointer it kept, then in its list only and in the direction of that pointer.
* "set": three containers of two nodes, moved, assigned and cleared. `NodesOwned`: a node has one owner that exists, or `remove` gave it up.
* "c_tree": six keys in the tree of `rbtree.c`; `TreesOrdered` as for `RBTree`, whose definition of balance it uses.

Facts, all of them in the models. *Hash map*: `find()` returns an iterator whose bucket index is not set (`_get` never
sets it); the constant iterator's `!=` of `HashSet` answers as `==`, that of `HashMap` does not; `begin_reversed` and `--` from the end panic;
inserting a known key may, when the bucket array cannot grow, cost the map an element. *Array*: what moves down over itself moves
backwards, so `erase`, `pop_front` and `extract` lose elements when more follows than the gap holds; `mm_krealloc` to new pages does not
copy; the first growth of objects with a default constructor asserts; `*_and_shrink` on objects destroys the tail twice
or asserts; `extract_range_and_shrink` ignores where the range starts; `shrink_to_fit` never shrinks; a failing `erase_range_and_shrink`
leaves destroyed elements below the length. *List*: linking sets one pointer of a node that was linked before; comparing an iterator with
a node compares the node with itself; a list that was assigned from has no allocator, so that it can neither allocate nor release. *Sets*: `remove` releases no node; an insertion without memory hands a null node to the
tree; a container that was moved to has no allocator; `Map::remove` by iterator and `replace_allocator` would not compile. *C tree*: `node_num` misses the first node of an
empty tree and wraps; `kf_rbtree_free` leaves root and count.

### Text: `Printf`, `Bytes`, `Vga`, `Terminal`

Run `text`:

* "format": every shape of directive (flag, width, precision, length, kind, unknown, cut off) in the three copies of the loop, with arguments at
  the edges of an int of 8 bits and a pointer of 16. `PrintsArgument`: the text reads back as the argument and the count
  counts it, except in the cases it names, where it says exactly what is printed instead: the least int; zero, which `vsprintf` loses and the screen does not
  count; pointers above an int; the `0x` of a pointer. `%llu` is parsed as a string, `%lld` and `%%` as nothing.
* "memory": every content of eight bytes. `LibraryAgrees`: functions do what their names say, within these limits:
  `memmove` copies backwards also when the destination is below an overlapping source; `memset` of a byte other than 0 stores only the low
  byte of a unit of 4 or 2; `strncpy` writes one byte behind the field and must not get a longer
  string; `strncmp` goes on behind the terminators.
* "screen": two lines of eight columns, four printed characters and any number of control characters, so that a character wraps at the end of a line; colours are
  symmetric. `ImplementsTerminal`: offsets and copies do what lines and columns promise; scrolling
  takes in the line behind the screen.

## 3. What is proved

TLAPS checks these for every value of the constants that the named assumptions
allow. The runs check the conjuncts of each `Inv` that matter to a caller; TLC was used on the whole of it before the proof.

* `MemoryProofs` (assumptions: pages and regions are numbers, `NULL` is not). `PageList`:
  `Inv` is inductive. `ListedUnused` alone is not: a step needs to know that the links of a
  page in use are empty (`UsedUnlinked`), that links are mutual (`LinksMutual`), which
  pages can stand in front of the head (`BackListed`), that a list has no cycle (`Ascending`), and that a stale link
  never leads into a list (`NoStaleForward`). Theorems `ListedPagesAreUnused`,
  `ListsAreWellLinked`, `UsedPagesAreUnlinked`, `HeadAdvance`.
  `TmpMap` (hypothesis of the theorem: the number of slots is a number): `HeldReadable`, which `BootSound` of run `pages` contains, needs that a slot
  that is held has both flags (`HeldMarked`), since the early functions look at one of them and the later ones at the other. Theorem `HeldPagesAreReadable`.
  `SetMap` (hypothesis: `NULL` is no key): `NodesOwned` is inductive with the types alone; each call reduces to an insertion, a removal, an emptying or a move of
  one container's nodes. Theorem `NodesAreOwned`. `Vga` (hypothesis `ScreenSize`: the width is a multiple of 4, so that tabs fill a line; lines and columns are below 256, as they pass through `uint8_t`, and all offsets fit the
  16 bits of the cursor; no letter is a control character): an offset determines its line and column (`OffsetUnique`), hence writing a cell changes one
  cell of one line and scrolling moves lines; the invariant is that the cursor stays on the screen. Theorem `ScreenIsTerminal`, that `Spec` of `Vga` implies `ImplementsTerminal`.
* `LocksProofs` (assumption: finitely many threads at the reader/writer mutex; none for the other two).
  Reader/writer: the count needs the cardinality of the reading threads, the window needs `early`. Theorems
  `ReadersAreCounted`, `WritersExclude`, `OverlapIsBounded`. Plain: a thread that entered alone and has stayed alone is the one
  `lock_thread` names (`AloneIsOwner`); the spinlock itself excludes nobody, so being alone is all that the checks rest on.
  Recursive: besides, `lock_times` is at each label of such a thread what its depth and the label make it (`Nested`), for every `SIZE_MOD`, as long as the depth stays
  below it. Theorem `PanicsNeedOverlap` for both.
* `PsProofs` (assumptions: at least one PID; `NULL` is no PCB). `ProcTable`: `HintExact` needs unique PIDs and that a PCB
  being loaded has PID 0; `MaxExact` needs the greatest element of a finite set of PIDs.
  Theorems `HintIsExact`, `TreeHasLiveNodes`, `LossIsBounded`, `NewPidIsLowest`.
  `Sched`: the invariant joins what is current with the life of its process
  and with the threads that a load leaves. Theorems `CpuRunsLiveProcess`,
  `RegisteredProcessesHaveThreads` and `CpuIsLostForGood`. `TableKeptUnderSchedule`: under every interleaving with the timer the
  process table keeps its invariant. `MCSched` names the properties of both over one set of variables.
* `VmrProofs` (assumptions: at least one user page; `NULL` is no thread, number or walk). That regions are disjoint is not inductive
  alone: merging needs to know that the segment so far is one region that ends where the new
  page begins, which is a region of one page (`SegmentMapped`), and the calls of threads must not run while the
  loader works (`Quiet`). That `find_max_lteq` finds the region below an address
  needs the greatest element of a bounded set, from well-foundedness of `<`. Theorems `RegionsDisjoint`,
  `LoaderMerges`.
* `VmrCallProofs` (same assumptions). The system calls keep `CallInv`: a walk has behind it a chain of regions without a gap, each with
  the access asked for (`Walking`); the regions under a held range lie end to end (`Laid`), so that unlocking meets all of them;
  while no two threads have met, the mutex of every region that a thread has locked names it (`NamesFound`), and the thread
  in the tree is alone there (`TreeAlone`). Theorems `PanicsHaveCause` and `ProbesDecide`, the latter an action property: it needs the chain from the first step
  of the walk when the last one answers.
* `VfsCallProofs`, `VfsProcProofs`, `VfsProofs` (assumptions: finitely many processes; what lies behind an archive's entries is an entry named END at some point; a path
  has at least one component, which may be empty; limits are numbers). `RefsCounted` is not inductive. Besides types (`Typed`: every pointer is to a node there is), `Inv` has the tree that the entries mounted so far
  make (`Tree`), what the frame of a call holds at each of its steps (`Frame`), that there is no process before boot
  ends (`Alone`), and descriptors below the next one (`Descriptors`). With the tree known, the references from it to a node are a constant, and the count is that plus
  four cardinalities (`Counted`: FCBs, current directories, and the two pointers of every call under way), of which
  a step moves one element at a time (lemma `CountMoves`). That no count falls to 0 (`NoneDestroyed`) follows and is in turn needed,
  because a step that destroyed a node would stop the kernel. The lemmas take what they need of finite sets as a hypothesis,
  `FiniteSetFacts`; lemma `Finiteness` of `VfsProofs` derives it from the library, so no theorem depends on it.
  Theorems `CountsAreExact`, `NodesSurvive`, `MountIsComplete`, `DescriptorsAreStable`.

The arguments have one step per action and, below it, one per conjunct that the action
can disturb; the final step of each theorem is propositional temporal logic.

`HeadAdvance`, `UsedPagesAreUnlinked`, `HintIsExact`, `TreeHasLiveNodes`,
`RegisteredProcessesHaveThreads`, `TableKeptUnderSchedule`, `LoaderMerges`, `NodesSurvive` and the theorems of invariance state properties that no
run lists, because they follow from the invariants proved; the others are also checked by the runs.

Only model-checked, and why:

* `EveryThreadRuns`: liveness under fairness is outside the prover's reach.
* `RBTree`, `KfRBTree` and `Kmod` (`SymbolsLive`, `InterruptWalks`, `TreesOrdered`): recursive operators.
* What a loop in one step computes for every length is an induction over data, which the installed provers cannot do: the folds over
  a path (`ResolveAgrees`), over the remaining statements of a call (`ImplementsPageList`, `CountsHolders`), over levels and entries of page
  tables (`AddrSpace`), over entries of the memory map and the firmware's tables (`BootMap`, `Topology`), over buckets, elements and links
  (`HashSet`, `DynArray`, `List`), over blocks (`Kima`), digits and bytes (`Printf`, `Bytes`).

## 4. Not modelled

* Devices and buses (`kernel/dm/`): nothing calls them, and their first call is undefined: `dm_register_bus` uses a pointer that
  `ki_dm_alloc_bus` never sets, and a device's bus is never set.
* Binary prototypes and the cache of read-only pages (`exec.cc`): the registries are never filled, taking or giving up a
  reference panics, and registering a cached page stores nothing.
* `fs_mount_file` and the rest of `kernel/fs` that only kernel modules could call: no module loads, and
  mounting would insert a directory into itself.
* Interrupt controllers, descriptor tables, timer chips: hardware set-up without state that later code reads. The timer's
  handler is in `Sched`.
* Panic and stack traces: output only; a panic is a variable of the modules that reach one.
* Hash functions (constants of `HashSet`), allocators (calls of `Kima`) and scope guards (part of the actions that hold them).
* The formatter library, which no build file compiles and which is a near copy of the parser in `Printf`; `strchr` and `strrchr`, without callers.
* The 32-bit port, an older copy which the current kernel interfaces no longer match.
* Fallible comparators and hashes, which no container of the kernel is given.
* Abstracted everywhere: contents, log messages, result codes that only differ in wording, saved registers.

## 5. What could follow

1. Abstract specifications: a function from pages to frames that `AddrSpace` implements; a set of
   blocks that `Kima` implements while no reallocation hides a block or takes pages and no block spills.
2. Proofs: `KernelShared` of `AddrSpace`, once its folds are steps.
3. The result of `BootMap` as the initial state of `PageList`; system calls across `Vfs`, `Vmr` and `ProcTable`.

Runs are shared between modules that answer one question, so that their number stays small.
