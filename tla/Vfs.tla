-------------------------------- MODULE Vfs ---------------------------------
(***************************************************************************)
(* The file system: file nodes with their reference counts, path           *)
(* resolution, FCBs (kernel/fs), the initial archive that fills the tree   *)
(* (hal/x86_64/initcar), and the descriptors of the processes that use it  *)
(* (kernel/syscall/pbcore.cc, kernel/ps/proc.cc).  The kernel boots as one *)
(* actor; afterwards the system calls of the processes interleave at the   *)
(* components of a path, at the opening and at the descriptor.  A path is  *)
(* the sequence of the strings between its slashes.                        *)
(***************************************************************************)
EXTENDS Integers, FiniteSets, Sequences

CONSTANTS Proc, KERNEL,
          Archives,          \* [chain |-> the entries along p_cur, size |-> bytes]
          HEADER,            \* sizeof(pbcar_fentry_t)
          InitPath, Paths,   \* "/initcar/pbinit", and what processes open
          Offsets, Dirs,     \* where a read begins, what a current directory may be
          MaxFd, MaxFcb      \* bounds: descriptors of a process, FCBs

VARIABLES archive, p_cur,    \* hn_initcar_ptr, and the offset of the next entry
          fnodes,            \* the file nodes, in the order they were made
          fcbs,              \* fcb -> its fnode, NULL once it is closed
          pc,                \* where an actor is
          frame,             \* its locals of fs_resolve_path and fs_open
          cur_dir, ufcb_set, last_fd,   \* of a process
          used,              \* history: the descriptors it was ever given
          stop               \* "none", or why the kernel stopped

\* An archive without a last entry is one whose chain has it behind the size,
\* where it is not read.
ASSUME VfsAssumption ==
    /\ KERNEL \notin Proc /\ IsFiniteSet(Proc)
    /\ HEADER \in Nat /\ MaxFd \in Nat /\ MaxFcb \in Nat /\ Offsets \subseteq Nat
    /\ \A ar \in Archives : /\ ar \in [chain : Seq([name : STRING, size : Nat]), size : Nat]
                            /\ \E i \in DOMAIN ar.chain : ar.chain[i].name = "END"
    /\ \A path \in Paths \cup {InitPath} : path \in Seq(STRING) /\ path # << >>

proc == <<cur_dir, ufcb_set, last_fd, used>>
vars == <<archive, p_cur, fnodes, fcbs, pc, frame, proc, stop>>

Actor == Proc \cup {KERNEL}
NULL == 0
ROOT == 1   \* fs_abs_root_dir
CAR == 2    \* kh_initcar_dir

Node == DOMAIN fnodes
IsDir(n) == fnodes[n].type = "dir"
Idle == [path |-> << >>, i |-> 0, base |-> NULL, file |-> NULL, new_file |-> NULL, fd |-> 0, fcb |-> 0]

Init == /\ archive \in Archives /\ p_cur = 0
        /\ fnodes = << >> /\ fcbs = << >>
        /\ pc = [a \in Actor |-> IF a = KERNEL THEN "ki_fs_init" ELSE "none"]
        /\ frame = [a \in Actor |-> Idle]
        /\ cur_dir = [p \in Proc |-> NULL] /\ ufcb_set = [p \in Proc |-> << >>]
        /\ last_fd = [p \in Proc |-> 0] /\ used = [p \in Proc |-> {}]
        /\ stop = "none"

-----------------------------------------------------------------------------
(* Reference counts.  A node whose last reference goes is destroyed, which *)
(* ends in a panic for every type of node.                                 *)

Ref(N, n) == [N EXCEPT ![n].ref_count = @ + 1]
Unref(N, n) == IF n = NULL THEN N
               ELSE [N EXCEPT ![n].ref_count = @ - 1, ![n].destroyed = @ \/ N[n].ref_count = 1]

Running == stop = "none" /\ \A n \in Node : ~fnodes[n].destroyed
At(a, label) == Running /\ pc[a] = label
Goto(a, label) == pc' = [pc EXCEPT ![a] = label]
Stop(why) == stop' = why /\ UNCHANGED <<archive, p_cur, fnodes, fcbs, pc, frame, proc>>

-----------------------------------------------------------------------------
(* Boot: the root directory, the archive's directory, then its entries.    *)

NewNode(type, fs, exdata, refs) ==
    [type |-> type, fs |-> fs, exdata |-> exdata, subnodes |-> << >>, ref_count |-> refs, destroyed |-> FALSE]

ki_fs_init ==
    /\ At(KERNEL, "ki_fs_init")
    /\ \/ Stop("panic")
       \/ /\ fnodes' = <<NewNode("dir", "rootfs", << >>, 1)>>
          /\ Goto(KERNEL, "kh_initcar_init")
          /\ UNCHANGED <<archive, p_cur, fcbs, frame, proc, stop>>

\* fs_link_subnode: the directory takes a reference of its own.
Bind(subnodes, name, n) == [x \in DOMAIN subnodes \cup {name} |-> IF x = name THEN n ELSE subnodes[x]]
Linked(N, dir, name, n) == Ref([N EXCEPT ![dir].subnodes = Bind(@, name, n)], n)

\* The file system is registered and its directory made and linked; the
\* reference of kh_initcar_dir is kept.  No memory, or a bad header, is a panic.
kh_initcar_init ==
    /\ At(KERNEL, "kh_initcar_init")
    /\ \/ Stop("panic")
       \/ /\ fnodes' = Linked(Append(fnodes, NewNode("dir", "initcar", << >>, 1)), ROOT, "initcar", CAR)
          /\ Goto(KERNEL, "entries")
          /\ UNCHANGED <<archive, p_cur, fcbs, frame, proc, stop>>

\* The frame of a path to resolve: file = cur_dir takes a reference.
Start(base, path, fd) == [Idle EXCEPT !.path = path, !.i = 1, !.base = base, !.file = base, !.fd = fd]
RefDir(N, n) == IF n = NULL THEN N ELSE Ref(N, n)

Entry == archive.chain[Len(fnodes) - CAR + 1]

\* The size is kept in 32 bits (initcar/init.cc:116); archives are below 4 GiB here.
Premature == p_cur + HEADER > archive.size

\* Mutant: a name that is there is bound again.
LinkEntryAgain ==
    /\ ~Premature /\ Entry.name # "END"
    /\ fnodes' = Linked(Append(fnodes, NewNode("file", "initcar", <<p_cur + HEADER, Entry.size>>, 0)),
                        CAR, Entry.name, Len(fnodes) + 1)
    /\ p_cur' = p_cur + HEADER + Entry.size
    /\ UNCHANGED <<archive, fcbs, pc, frame, proc, stop>>

\* The file's data follow its entry.  Its first reference goes with the local
\* pointer, the directory's stays.
LinkEntry ==
    /\ ~Premature /\ Entry.name \notin {"END"} \cup DOMAIN fnodes[CAR].subnodes
    /\ fnodes' = Linked(Append(fnodes, NewNode("file", "initcar", <<p_cur + HEADER, Entry.size>>, 0)),
                        CAR, Entry.name, Len(fnodes) + 1)
    /\ p_cur' = p_cur + HEADER + Entry.size
    /\ UNCHANGED <<archive, fcbs, pc, frame, proc, stop>>

\* After the last entry kernel_main opens the first program.
LastEntry ==
    /\ ~Premature /\ Entry.name = "END"
    /\ fnodes' = Ref(fnodes, ROOT)
    /\ Goto(KERNEL, "resolve")
    /\ frame' = [frame EXCEPT ![KERNEL] = Start(ROOT, InitPath, 0)]
    /\ UNCHANGED <<archive, p_cur, fcbs, proc, stop>>

\* One entry of the archive: it ends early, there is no memory or the name is
\* there already, which are panics; or it is linked; or it is the last.
initcar_entry ==
    /\ At(KERNEL, "entries")
    /\ Stop("panic") \/ LinkEntry \/ LastEntry

-----------------------------------------------------------------------------
(* fs_resolve_path, one component a step.                                  *)

\* The child of a directory; neither file system adds to what is linked.
Child(n, name) == IF n # NULL /\ IsDir(n) /\ name \in DOMAIN fnodes[n].subnodes
                  THEN fnodes[n].subnodes[name] ELSE NULL

\* Mutant: the child is returned without a reference.
ChildUncounted(N, old, child) == Unref(N, old)

\* new_file gives up what it held and takes the child with a reference.
fs_child_of(N, old, child) == Ref(Unref(N, old), child)

\* The path cannot be resolved or opened: the pointers give up what they hold.
Fails(a, N) ==
    /\ fnodes' = N
    /\ frame' = [frame EXCEPT ![a] = Idle]
    /\ IF a = KERNEL THEN stop' = "panic" /\ UNCHANGED pc ELSE Goto(a, "idle") /\ UNCHANGED stop
    /\ UNCHANGED <<archive, p_cur, fcbs, proc>>

\* file = new_file, and on to the next component.
Descend(a, N, f, n) ==
    /\ fnodes' = Ref(Unref(N, f.file), n)
    /\ frame' = [frame EXCEPT ![a].new_file = n, ![a].file = n, ![a].i = @ + 1]
    /\ UNCHANGED <<archive, p_cur, fcbs, pc, proc, stop>>

\* Behind the last component: file goes, new_file is handed out.
Resolved(a, N, f, n) ==
    /\ fnodes' = Unref(N, f.file)
    /\ frame' = [frame EXCEPT ![a].new_file = n, ![a].file = NULL]
    /\ Goto(a, "open")
    /\ UNCHANGED <<archive, p_cur, fcbs, proc, stop>>

\* Mutant: every empty component names the root.
EmptyIsRoot(a, f, last) ==
    IF last THEN Resolved(a, fnodes, f, f.new_file)
    ELSE Descend(a, Ref(Unref(fnodes, f.new_file), ROOT), f, ROOT)

\* An empty component names the root at the start of a path with a slash and
\* leaves new_file alone anywhere else.
EmptyComponent(a, f, last) ==
    IF last THEN Resolved(a, fnodes, f, f.new_file)
    ELSE IF f.i = 1 THEN Descend(a, Ref(fnodes, ROOT), f, ROOT)
    ELSE Descend(a, fnodes, f, f.new_file)

NamedComponent(a, f, last, child) ==
    IF child = NULL THEN Fails(a, Unref(Unref(fnodes, f.new_file), f.file))
    ELSE IF last THEN Resolved(a, fs_child_of(fnodes, f.new_file, child), f, child)
    ELSE Descend(a, fs_child_of(fnodes, f.new_file, child), f, child)

fs_resolve_path(a) ==
    /\ At(a, "resolve")
    /\ \E f \in {frame[a]} : \E last \in {f.i = Len(f.path)} :
          IF f.path[f.i] = "" THEN EmptyComponent(a, f, last)
          ELSE NamedComponent(a, f, last, Child(f.file, f.path[f.i]))

-----------------------------------------------------------------------------
(* Opening, and the descriptors of a process.                              *)

\* The FCB takes over the reference of the path's file.  Without a file (an
\* empty path) the kernel faults.  fs_create_fcb of the root file system has an
\* empty body (file.cc:271), so its caller sees any result: a failure, which is
\* Fails, or a success with a pointer that was never set, which faults.
fs_open(a) ==
    /\ At(a, "open")
    /\ \E n \in {frame[a].new_file} :
       \/ n = NULL /\ Stop("fault")
       \/ n # NULL /\ fnodes[n].fs = "rootfs" /\ Stop("fault")
       \/ n # NULL /\ Fails(a, Unref(fnodes, n))
       \/ /\ n # NULL /\ fnodes[n].fs = "initcar" /\ Len(fcbs) < MaxFcb
          /\ fcbs' = Append(fcbs, n)
          /\ frame' = [frame EXCEPT ![a] = [Idle EXCEPT !.fd = frame[a].fd, !.fcb = Len(fcbs) + 1]]
          /\ Goto(a, IF a = KERNEL THEN "exec" ELSE "ufcb")
          /\ UNCHANGED <<archive, p_cur, fnodes, proc, stop>>

\* kernel_main starts the first program and closes its file: the FCB gives up
\* its reference.
kernel_exec(q) ==
    /\ At(KERNEL, "exec") /\ pc[q] = "none"
    /\ \/ Stop("panic")
       \/ /\ fnodes' = Unref(fnodes, fcbs[frame[KERNEL].fcb])
          /\ fcbs' = [fcbs EXCEPT ![frame[KERNEL].fcb] = NULL]
          /\ frame' = [frame EXCEPT ![KERNEL] = Idle]
          /\ pc' = [pc EXCEPT ![KERNEL] = "sched", ![q] = "idle"]
          /\ UNCHANGED <<archive, p_cur, proc, stop>>

\* Mutant: the descriptor is the number of open ones.
AllocFdCounts(p) == Cardinality(DOMAIN ufcb_set[p])

ps_alloc_fd(p) == last_fd[p]

\* The descriptor is taken before the path is looked at, and lost if it fails.
sysent_open(p, path) ==
    /\ At(p, "idle") /\ last_fd[p] < MaxFd
    /\ last_fd' = [last_fd EXCEPT ![p] = @ + 1]
    /\ fnodes' = RefDir(fnodes, cur_dir[p])
    /\ frame' = [frame EXCEPT ![p] = Start(cur_dir[p], path, ps_alloc_fd(p))]
    /\ Goto(p, "resolve")
    /\ UNCHANGED <<archive, p_cur, fcbs, cur_dir, ufcb_set, used, stop>>

\* The UFCB is constructed before the allocation is tested.
ps_alloc_ufcb(p) ==
    /\ At(p, "ufcb")
    /\ \/ Stop("fault")
       \/ /\ ufcb_set' = [ufcb_set EXCEPT ![p] = Bind(@, frame[p].fd, frame[p].fcb)]
          /\ used' = [used EXCEPT ![p] = @ \cup {frame[p].fd}]
          /\ frame' = [frame EXCEPT ![p] = Idle]
          /\ Goto(p, "idle")
          /\ UNCHANGED <<archive, p_cur, fnodes, fcbs, cur_dir, last_fd, stop>>

\* The descriptor goes, its FCB stays open for ever.
sysent_close(p, fd) ==
    /\ At(p, "idle") /\ fd \in DOMAIN ufcb_set[p]
    /\ ufcb_set' = [ufcb_set EXCEPT ![p] = [x \in DOMAIN @ \ {fd} |-> @[x]]]
    /\ UNCHANGED <<archive, p_cur, fnodes, fcbs, pc, frame, cur_dir, last_fd, used, stop>>

\* kh_initcar_read holds its own reference while it copies.  A directory has no
\* data to read.
sysent_read(p, fd) ==
    /\ At(p, "idle") /\ fd \in DOMAIN ufcb_set[p]
    /\ \E n \in {fcbs[ufcb_set[p][fd]]} :
       \/ IsDir(n) /\ Stop("fault")
       \/ /\ ~IsDir(n)
          /\ fnodes' = Ref(fnodes, n)
          /\ frame' = [frame EXCEPT ![p].file = n]
          /\ Goto(p, "read")
          /\ UNCHANGED <<archive, p_cur, fcbs, proc, stop>>

\* A read that begins behind the end of the file copies what is not in it.
kh_initcar_read(p, off) ==
    /\ At(p, "read")
    /\ \E n \in {frame[p].file} :
       \/ off > fnodes[n].exdata[2] /\ Stop("fault")
       \/ /\ off <= fnodes[n].exdata[2]
          /\ fnodes' = Unref(fnodes, n)
          /\ frame' = [frame EXCEPT ![p] = Idle]
          /\ Goto(p, "idle")
          /\ UNCHANGED <<archive, p_cur, fcbs, proc, stop>>

\* The child has no descriptors and no current directory.  A load that fails
\* leaves nothing here; reading a directory, or behind the end of the file,
\* faults.
sysent_exec_child(p, fd, q) ==
    /\ At(p, "idle") /\ fd \in DOMAIN ufcb_set[p] /\ pc[q] = "none"
    /\ \/ Stop("fault")
       \/ /\ ~IsDir(fcbs[ufcb_set[p][fd]])
          /\ Goto(q, "idle")
          /\ UNCHANGED <<archive, p_cur, fnodes, fcbs, frame, proc, stop>>

\* Called by kernel modules, with a node they know.
ps_set_cwd(p, n) ==
    /\ Running /\ pc[p] # "none" /\ n # cur_dir[p]
    /\ fnodes' = Ref(Unref(fnodes, cur_dir[p]), n)
    /\ cur_dir' = [cur_dir EXCEPT ![p] = n]
    /\ UNCHANGED <<archive, p_cur, fcbs, pc, frame, ufcb_set, last_fd, used, stop>>

ps_unset_cwd(p) ==
    /\ Running /\ pc[p] # "none" /\ cur_dir[p] # NULL
    /\ fnodes' = Unref(fnodes, cur_dir[p])
    /\ cur_dir' = [cur_dir EXCEPT ![p] = NULL]
    /\ UNCHANGED <<archive, p_cur, fcbs, pc, frame, ufcb_set, last_fd, used, stop>>

Call(a) == \/ fs_resolve_path(a) \/ fs_open(a)
           \/ a \in Proc /\ ps_alloc_ufcb(a)
           \/ a \in Proc /\ \E off \in Offsets : kh_initcar_read(a, off)

Boot == ki_fs_init \/ kh_initcar_init \/ initcar_entry \/ \E q \in Proc : kernel_exec(q)

Next == \/ Boot
        \/ \E a \in Actor : Call(a)
        \/ \E p \in Proc : \/ \E path \in Paths : sysent_open(p, path)
                           \/ \E fd \in 0 .. MaxFd - 1 : sysent_close(p, fd) \/ sysent_read(p, fd)
                           \/ \E fd \in 0 .. MaxFd - 1, q \in Proc : sysent_exec_child(p, fd, q)
                           \/ \E n \in Dirs \cap Node : ps_set_cwd(p, n)
                           \/ ps_unset_cwd(p)

Spec == Init /\ [][Next]_vars

-----------------------------------------------------------------------------
(* Properties.                                                             *)

\* Every reference to a file node is counted, and nothing else is: those of
\* the directory it is linked in, of open FCBs, of current directories, of the
\* pointers of calls under way, and the two the kernel keeps.  So no call of a
\* process can destroy a node that another one has in its hands.
References(n) ==
    LET holders == {<<"dir", d, x>> : d \in Node, x \in UNION {DOMAIN fnodes[d].subnodes : d \in Node}}
    IN  (IF n \in {ROOT, CAR} THEN 1 ELSE 0)
        + Cardinality({h \in holders : h[3] \in DOMAIN fnodes[h[2]].subnodes /\ fnodes[h[2]].subnodes[h[3]] = n})
        + Cardinality({i \in DOMAIN fcbs : fcbs[i] = n})
        + Cardinality({p \in Proc : cur_dir[p] = n})
        + Cardinality({a \in Actor : frame[a].file = n})
        + Cardinality({a \in Actor : frame[a].new_file = n})

RefsCounted == \A n \in Node : fnodes[n].ref_count = References(n)

\* When the kernel opens the first program, the directory of the archive has
\* every entry before the last one under its name, no entry twice, with data
\* inside the archive that no two files share: an archive that is cut short,
\* or has a name twice, does not get here.
Mounted == pc[KERNEL] \notin {"ki_fs_init", "kh_initcar_init", "entries"}
DataOf(n) == fnodes[n].exdata[1] .. fnodes[n].exdata[1] + fnodes[n].exdata[2] - 1
Files == Node \ {ROOT, CAR}
ArchiveMounted ==
    Mounted =>
        /\ Entry.name = "END"
        /\ \A n \in Files : /\ Child(CAR, archive.chain[n - CAR].name) = n
                            /\ Cardinality(DataOf(n)) = archive.chain[n - CAR].size
                            /\ DataOf(n) \subseteq 0 .. archive.size - 1
        /\ \A m, n \in Files : m # n => DataOf(m) \cap DataOf(n) = {}

\* A descriptor keeps its FCB until its process closes it, and its number is
\* never given out again.
DescriptorsStable ==
    [][\A p \in Proc :
         /\ \A fd \in DOMAIN ufcb_set[p] \cap DOMAIN ufcb_set'[p] : ufcb_set'[p][fd] = ufcb_set[p][fd]
         /\ (DOMAIN ufcb_set'[p] \ DOMAIN ufcb_set[p]) \cap used[p] = {}]_vars
=============================================================================
