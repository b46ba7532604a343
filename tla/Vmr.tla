-------------------------------- MODULE Vmr ---------------------------------
(***************************************************************************)
(* The virtual memory regions of one process (kernel/mm/misc.cc): the      *)
(* loader maps the process's segments page by page and merges the pages    *)
(* into regions; then the threads of the process make system calls         *)
(* (kernel/syscall/pbcore.cc) that probe and lock the regions of their     *)
(* arguments and unlock them on the way out.                               *)
(*                                                                         *)
(* Addresses are page numbers: regions are whole pages, and a buffer is    *)
(* the page it starts in and PGCEIL(size) in pages, all the code looks at. *)
(* Pages from UserPages on are kernel space.                               *)
(***************************************************************************)
EXTENDS Integers, Sequences

CONSTANTS Thread, UserPages, NULL,
          SegAccess,  \* the access that program headers ask for
          Ins, Outs   \* the ranges system calls are given to read and to write

Page == 0 .. UserPages - 1

Access == SUBSET {"r", "w"}
Buffer == [page : Nat, n : Nat]
WalkType == [initial : Page \cup {NULL}, vmr : Page \cup {NULL}, end : Page \cup {NULL},
             last : Page \cup {NULL}, loops : BOOLEAN]

ASSUME VmrAssumption == /\ UserPages \in Nat \ {0}
                        /\ NULL \notin Thread /\ NULL \notin Int /\ NULL \notin WalkType
                        /\ SegAccess \subseteq Access /\ Ins \cup Outs \subseteq Buffer

VARIABLES phase,       \* loading, running, or the exec failed
          seg,         \* the segment the loader is mapping
          vmrs,        \* vmr_tree: first page -> [size, access]
          locker,      \* lock_thread of the region that starts at a page
          vmr_mutex,   \* lock_thread and lock_times of vmr_mutex
          todo,        \* the probes a thread's system call has still to make
          walk,        \* the locals of mm_probe_and_lock_pages
          unlocking,   \* the threads inside mm_unlock_pages
          held,        \* the ranges the call's guards will unlock
          overlapped,  \* two threads met in the tree or on a region (history)
          panicked

loadVars == <<phase, seg, vmrs>>
callVars == <<locker, vmr_mutex, todo, walk, unlocking, held, overlapped>>
vars == <<loadVars, callVars, panicked>>

Starts == DOMAIN vmrs
End(x) == x + vmrs[x].size

IsMaxLteq(x, a) == x \in Starts /\ x <= a /\ \A y \in Starts : y <= a => y <= x

find_max_lteq(a) ==
    IF \E x \in Starts : x <= a THEN CHOOSE x \in Starts : IsMaxLteq(x, a) ELSE NULL

IsNext(y, x) == y \in Starts /\ y > x /\ \A z \in Starts : z > x => y <= z

\* The next region up to and including `last'; NULL after it.
get_next(x, last) ==
    IF x # last /\ \E y \in Starts : y > x
    THEN CHOOSE y \in Starts : IsNext(y, x) ELSE NULL

Without(x) == [y \in Starts \ {x} |-> vmrs[y]]
With(x, r) == [y \in Starts \cup {x} |-> IF y = x THEN r ELSE vmrs[y]]

Init == /\ phase = "loading" /\ seg = NULL
        /\ vmrs = [x \in {} |-> NULL]
        /\ locker = [x \in Page |-> NULL]
        /\ vmr_mutex = [thread |-> NULL, times |-> 0]
        /\ todo = [t \in Thread |-> <<>>] /\ walk = [t \in Thread |-> NULL]
        /\ unlocking = {} /\ held = [t \in Thread |-> <<>>]
        /\ overlapped = FALSE /\ panicked = FALSE

-----------------------------------------------------------------------------
(* Loading: ki_elf_load_exec and ps_thread_alloc_stack, one thread on a    *)
(* context nobody else uses.                                               *)

\* The stack, or the next PT_LOAD header.
BeginSegment(v, n, access) ==
    /\ phase = "loading" /\ seg = NULL
    /\ v + n <= UserPages
    /\ seg' = [start |-> v, next |-> v, top |-> v + n, access |-> access, mapped |-> FALSE]
    /\ UNCHANGED <<phase, vmrs, callVars, panicked>>

\* Mutant: the end of the region found is taken for its last page.
CoveredOffByOne(v, limit) ==
    \E x \in {find_max_lteq(v)} \ {NULL} : End(x) > v + 1

\* The overlap test of mm_mmap on the pages v .. limit.
Covered(v, limit) ==
    \/ \E x \in {find_max_lteq(v)} \ {NULL} : End(x) > v
    \/ \E x \in {find_max_lteq(limit)} \ {NULL} : End(x) > limit

\* Mutant: the loader goes on when a page is mapped already.
MmapGoesOn ==
    /\ phase = "loading" /\ seg # NULL /\ ~seg.mapped
    /\ vmrs' = IF Covered(seg.next, seg.next) THEN Without(seg.next)
               ELSE With(seg.next, [size |-> 1, access |-> seg.access])
    /\ seg' = [seg EXCEPT !.mapped = TRUE]
    /\ UNCHANGED <<phase, panicked, callVars>>

\* mm_mmap of one page.  Failures run remove_vmr_guard, which takes whatever
\* region starts at v out of the tree; the exec then fails.
mm_mmap ==
    /\ phase = "loading" /\ seg # NULL /\ ~seg.mapped
    /\ LET v == seg.next IN
       \/ /\ ~Covered(v, v)
          /\ vmrs' = With(v, [size |-> 1, access |-> seg.access])
          /\ seg' = [seg EXCEPT !.mapped = TRUE]
          /\ UNCHANGED <<phase, panicked>>
       \/ \* covered, or no memory for the region or for the page table
          /\ phase' = "failed"
          /\ vmrs' = Without(v)
          /\ UNCHANGED <<seg, panicked>>
    /\ UNCHANGED callVars

\* mm_merge_mapped_area of the segment so far with its new page; the loader
\* panics when it fails.
mm_merge_mapped_area ==
    /\ phase = "loading" /\ seg # NULL /\ seg.mapped
    /\ LET a == seg.start  b == seg.next
           ok == a \in Starts /\ b \in Starts /\ End(a) = b
       IN  IF a = b
           THEN UNCHANGED <<vmrs, panicked>>
           ELSE /\ vmrs' = IF ok THEN [Without(b) EXCEPT ![a].size = @ + vmrs[b].size]
                           ELSE vmrs
                /\ panicked' = ~ok
    /\ seg' = IF seg.next + 1 = seg.top THEN NULL
              ELSE [seg EXCEPT !.next = @ + 1, !.mapped = FALSE]
    /\ UNCHANGED <<phase, callVars>>

mm_split_mapped_area(a, s) ==
    /\ phase = "loading" /\ seg = NULL
    /\ a < s /\ a \in Starts /\ End(a) > s
    /\ vmrs' = [With(s, [size |-> End(a) - s, access |-> vmrs[a].access])
                   EXCEPT ![a].size = s - a]
    /\ UNCHANGED <<phase, seg, callVars, panicked>>

mm_set_page_access(a, access) ==
    /\ phase = "loading" /\ seg = NULL
    /\ a \in Starts
    /\ vmrs' = [vmrs EXCEPT ![a].access = access]
    /\ UNCHANGED <<phase, seg, callVars, panicked>>

\* ps_add_thread, and from now on the scheduler runs the process.
StartThreads ==
    /\ phase = "loading" /\ seg = NULL
    /\ phase' = "running"
    /\ UNCHANGED <<seg, vmrs, callVars, panicked>>

\* Every other error return of the loader: the process never runs.
LoadFails ==
    /\ phase = "loading"
    /\ phase' = "failed"
    /\ UNCHANGED <<seg, vmrs, callVars, panicked>>

-----------------------------------------------------------------------------
(* System calls.  A probe is a range, the access it needs, and whether a   *)
(* guard of the call unlocks it afterwards.                                *)
(*                                                                         *)
(* The mutexes are those of Mutex and RecMutex, taken and given up in one  *)
(* step here: over the spinlock, taking one never waits; it names the new  *)
(* owner.  Giving one up panics when another thread has taken it since.    *)

Probe(r, need, unlocks) == [range |-> r, need |-> need, unlocks |-> unlocks]

Idle(t) == todo[t] = <<>> /\ walk[t] = NULL /\ held[t] = <<>>

InTree(t) == walk[t] # NULL \/ t \in unlocking

\* A call that reads one buffer and writes its result to another place.
TwoProbes(t, in, out) ==
    /\ phase = "running" /\ Idle(t)
    /\ todo' = [todo EXCEPT ![t] = <<Probe(in, {"r"}, TRUE), Probe(out, {"w"}, TRUE)>>]
    /\ UNCHANGED <<loadVars, locker, vmr_mutex, walk, unlocking, held, overlapped, panicked>>

sysent_open(t, path, ufd_out) == TwoProbes(t, path, ufd_out)
sysent_read(t, buf, bytes_read_out) == TwoProbes(t, buf, bytes_read_out)
sysent_exec_child(t, args, proc_id_out) == TwoProbes(t, args, proc_id_out)

\* sysent_write ends after its probe and unlocks nothing.
sysent_write(t, in) ==
    /\ phase = "running" /\ Idle(t)
    /\ todo' = [todo EXCEPT ![t] = <<Probe(in, {"r"}, FALSE)>>]
    /\ UNCHANGED <<loadVars, locker, vmr_mutex, walk, unlocking, held, overlapped, panicked>>

IsUser(r) == r.page < UserPages
LimitIsUser(r) == r.page + r.n > 0 /\ r.page + r.n - 1 < UserPages

\* KM_RETURN_IF_FAILED: the call makes no more probes; its guards unlock.
Fail(t) == /\ todo' = [todo EXCEPT ![t] = <<>>]
           /\ UNCHANGED held

Grant(t) == LET p == Head(todo[t]) IN
            /\ todo' = [todo EXCEPT ![t] = Tail(@)]
            /\ held' = IF p.unlocks THEN [held EXCEPT ![t] = Append(@, p)] ELSE held

\* A range that crosses the border of user space.
ProbeCrosses(t) ==
    /\ todo[t] # <<>> /\ walk[t] = NULL
    /\ IsUser(Head(todo[t]).range) # LimitIsUser(Head(todo[t]).range)
    /\ Fail(t)
    /\ UNCHANGED <<loadVars, locker, vmr_mutex, walk, unlocking, overlapped, panicked>>

\* A kernel range: tested against the page table, after a test of the
\* uninitialised pg_access, so either answer is possible; nothing is locked.
ProbeKernel(t) ==
    /\ todo[t] # <<>> /\ walk[t] = NULL
    /\ ~IsUser(Head(todo[t]).range) /\ ~LimitIsUser(Head(todo[t]).range)
    /\ Fail(t) \/ Grant(t)
    /\ UNCHANGED <<loadVars, locker, vmr_mutex, walk, unlocking, overlapped, panicked>>

ki_mm_lock_vmr(t) ==
    /\ vmr_mutex' = [thread |-> t, times |-> vmr_mutex.times + 1]
    /\ overlapped' = (overlapped \/ \E u \in Thread \ {t} : InTree(u))

VmrReleased == [thread |-> IF vmr_mutex.times = 1 THEN NULL ELSE vmr_mutex.thread,
                times |-> vmr_mutex.times - 1]

\* The checks of ps_unlock_rec_mutex.
VmrCheckFails(t) == vmr_mutex.thread # t \/ vmr_mutex.times = 0

ki_mm_unlock_vmr(t) == vmr_mutex' = VmrReleased /\ panicked' = VmrCheckFails(t)

\* A user range: lock the tree and look up the first and the last region.
ProbeUser(t) ==
    /\ todo[t] # <<>> /\ walk[t] = NULL
    /\ LET r == Head(todo[t]).range
           initial == find_max_lteq(r.page)
           vmr_end == find_max_lteq(r.page + r.n - 1)
       IN  /\ IsUser(r) /\ LimitIsUser(r)
           /\ ki_mm_lock_vmr(t)
           /\ walk' = [walk EXCEPT ![t] = [initial |-> initial, vmr |-> initial, end |-> vmr_end,
                                           last |-> NULL, loops |-> FALSE]]
           /\ panicked' = (initial # NULL /\ vmr_end = NULL)   \* kd_assert(vmr_end)
    /\ UNCHANGED <<loadVars, locker, todo, unlocking, held>>

Leave(t) == walk' = [walk EXCEPT ![t] = NULL] /\ ki_mm_unlock_vmr(t)

\* No region starts at or below the range.
WalkEmpty(t) ==
    /\ walk[t] # NULL /\ walk[t].initial = NULL
    /\ Fail(t) /\ Leave(t)
    /\ UNCHANGED <<loadVars, locker, unlocking, overlapped>>

\* The regions that mm_unlock_pages visits for a range.
Visited(r) ==
    LET initial == find_max_lteq(r.page)
        vmr_end == find_max_lteq(r.page + r.n - 1)
    IN  {x \in Starts : initial <= x /\ (initial <= vmr_end => x <= vmr_end)}

\* u counts on finding its name in region x.
Needs(u, x) ==
    \/ walk[u] # NULL /\ walk[u].last # NULL /\ walk[u].initial <= x /\ x <= walk[u].last
    \/ \E i \in DOMAIN held[u] : IsUser(held[u][i].range) /\ x \in Visited(held[u][i].range)

ki_mm_lock_area(t, x) ==
    /\ locker' = [locker EXCEPT ![x] = t]
    /\ overlapped' = (overlapped \/ \E u \in Thread \ {t} : Needs(u, x))

\* Mutant: neighbours are not compared.
ExtendsAnywhere(w, need) == need \subseteq vmrs[w.vmr].access

\* The tests a region of the walk must pass.
Extends(w, need) == /\ w.last # NULL => End(w.last) = w.vmr
                    /\ need \subseteq vmrs[w.vmr].access

Turn(t) == walk[t] # NULL /\ walk[t].initial # NULL /\ ~walk[t].loops

\* The first region fails the test: restore_guard unlocks it.
TurnFails(t) ==
    /\ Turn(t) /\ walk[t].vmr = walk[t].initial /\ ~Extends(walk[t], Head(todo[t]).need)
    /\ ki_mm_lock_area(t, walk[t].vmr)
    /\ Fail(t) /\ Leave(t)
    /\ UNCHANGED <<loadVars, unlocking>>

\* A later region fails it: restore_guard unlocks that region and then the one
\* before it, again and again, as its loop does not advance.
TurnLoops(t) ==
    /\ Turn(t) /\ walk[t].vmr # walk[t].initial /\ ~Extends(walk[t], Head(todo[t]).need)
    /\ ki_mm_lock_area(t, walk[t].vmr)
    /\ walk' = [walk EXCEPT ![t].loops = TRUE]
    /\ UNCHANGED <<loadVars, vmr_mutex, todo, unlocking, held, panicked>>

\* The loop notices when another thread locks that region.
LoopPanics(t) ==
    /\ walk[t] # NULL /\ walk[t].loops
    /\ locker[walk[t].last] # t
    /\ panicked' = TRUE
    /\ UNCHANGED <<loadVars, callVars>>

TurnOn(t) ==
    LET w == walk[t]  next == get_next(w.vmr, w.end) IN
    /\ Turn(t) /\ Extends(w, Head(todo[t]).need) /\ next # NULL
    /\ ki_mm_lock_area(t, w.vmr)
    /\ walk' = [walk EXCEPT ![t].vmr = next, ![t].last = w.vmr]
    /\ UNCHANGED <<loadVars, vmr_mutex, todo, unlocking, held, panicked>>

\* The last turn, and the test of where the walk ended.  By then vmr is null
\* and restore_guard finds nothing to unlock.
TurnLast(t) ==
    LET w == walk[t]  r == Head(todo[t]).range IN
    /\ Turn(t) /\ Extends(w, Head(todo[t]).need) /\ get_next(w.vmr, w.end) = NULL
    /\ ki_mm_lock_area(t, w.vmr)
    /\ IF End(w.vmr) < r.page + r.n THEN Fail(t) ELSE Grant(t)
    /\ Leave(t)
    /\ UNCHANGED <<loadVars, unlocking>>

Walks(t) == WalkEmpty(t) \/ TurnFails(t) \/ TurnLoops(t) \/ LoopPanics(t) \/ TurnOn(t) \/ TurnLast(t)

Probes(t) == ProbeCrosses(t) \/ ProbeKernel(t) \/ ProbeUser(t) \/ Walks(t)

-----------------------------------------------------------------------------
(* The call's guards, last probe first.                                    *)

LastHeld(t) == held[t][Len(held[t])]

DropGuard(t) == held' = [held EXCEPT ![t] = SubSeq(@, 1, Len(@) - 1)]

\* mm_unlock_pages up to the tree's lock; a kernel range is left alone.
UnlockBegin(t) ==
    /\ todo[t] = <<>> /\ walk[t] = NULL /\ held[t] # <<>> /\ t \notin unlocking
    /\ IF IsUser(LastHeld(t).range)
       THEN /\ ki_mm_lock_vmr(t) /\ unlocking' = unlocking \cup {t}
            /\ UNCHANGED held
       ELSE /\ DropGuard(t)
            /\ UNCHANGED <<vmr_mutex, overlapped, unlocking>>
    /\ UNCHANGED <<loadVars, locker, todo, walk, panicked>>

\* Its walk, which panics at a gap and at a region that names another thread.
UnlockEnd(t) ==
    LET r == LastHeld(t).range
        V == Visited(r)
        sound == /\ \A x \in V : locker[x] = t
                 /\ \A x \in V : x <= r.page \/ \E y \in V : End(y) = x
                 /\ \E x \in V : End(x) >= r.page + r.n
    IN  /\ t \in unlocking
        /\ unlocking' = unlocking \ {t}
        /\ vmr_mutex' = VmrReleased
        /\ panicked' = (~sound \/ VmrCheckFails(t))
        /\ DropGuard(t)
        /\ UNCHANGED <<loadVars, locker, todo, walk, overlapped>>

Calls(t) == Probes(t) \/ UnlockBegin(t) \/ UnlockEnd(t)

Next == /\ ~panicked
        /\ \/ \E v \in Page, n \in 1 .. UserPages, access \in SegAccess : BeginSegment(v, n, access)
           \/ mm_mmap \/ mm_merge_mapped_area
           \/ \E a, s \in Page : mm_split_mapped_area(a, s)
           \/ \E a \in Page, access \in SegAccess : mm_set_page_access(a, access)
           \/ StartThreads \/ LoadFails
           \/ \E t \in Thread :
                 \/ \E in \in Ins, out \in Outs : \/ sysent_open(t, in, out)
                                                 \/ sysent_read(t, in, out)
                                                 \/ sysent_exec_child(t, in, out)
                 \/ \E in \in Ins : sysent_write(t, in)
                 \/ Calls(t)

Spec == Init /\ [][Next]_vars

-----------------------------------------------------------------------------
(* Properties.                                                             *)

ProbeType == [range : Buffer, need : Access, unlocks : BOOLEAN]

\* The values of the variables.
TypeOK ==
    /\ phase \in {"loading", "running", "failed"}
    /\ seg = NULL \/ /\ seg.start \in Page /\ seg.top \in 1 .. UserPages
                     /\ seg.next \in seg.start .. seg.top - 1
                     /\ seg.access \in Access /\ seg.mapped \in BOOLEAN
    /\ Starts \subseteq Page
    /\ \A x \in Starts : vmrs[x].size \in 1 .. UserPages - x /\ vmrs[x].access \in Access
    /\ locker \in [Page -> Thread \cup {NULL}]
    /\ vmr_mutex \in [thread : Thread \cup {NULL}, times : Int]
    /\ todo \in [Thread -> Seq(ProbeType)] /\ held \in [Thread -> Seq(ProbeType)]
    /\ walk \in [Thread -> WalkType \cup {NULL}] /\ unlocking \subseteq Thread
    /\ overlapped \in BOOLEAN /\ panicked \in BOOLEAN

\* Mapping page by page, merging and splitting (misc.cc:21-252) keep the
\* regions of a process apart from each other.
Disjoint == \A x, y \in Starts : x < y => End(x) <= y

\* Every page of the range is in a region that allows the access.
Valid(p) == \A q \in p.range.page .. p.range.page + p.range.n - 1 :
                \E x \in Starts : x <= q /\ q < End(x) /\ p.need \subseteq vmrs[x].access

Loops(t) == walk[t] # NULL /\ walk[t].loops

\* The walk of mm_probe_and_lock_pages over neighbouring regions
\* (misc.cc:426-448) grants a range of user pages when each page of it is in
\* a region that allows the access, and otherwise fails or never ends.
ProbeDecides ==
    [][\A t \in Thread :
          todo[t] # <<>> =>
             LET p == Head(todo[t]) IN
             IsUser(p.range) /\ LimitIsUser(p.range) /\ p.range.n > 0 =>
                /\ todo'[t] # todo[t] /\ p.unlocks => (held'[t] # held[t] <=> Valid(p))
                /\ Loops(t)' => ~Valid(p)]_vars

\* Where no two threads of the process meet in these functions, the loader's
\* merges (elf.cc:156), the mutexes' checks and the layout tests of
\* mm_unlock_pages never panic; only the assertion of misc.cc:412 can, on an
\* empty range.
PanicCause ==
    panicked => \/ overlapped
                \/ \E t \in Thread : todo[t] # <<>> /\ Head(todo[t]).range.n = 0
=============================================================================
