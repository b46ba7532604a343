--------------------------- MODULE VfsProcProofs ----------------------------
(***************************************************************************)
(* The system calls of a process, the start of the first one, and the boot *)
(* as far as the directory of the archive keep the inductive invariant of  *)
(* Vfs.                                                                    *)
(***************************************************************************)
EXTENDS VfsCallProofs

\* A step of a process that touches none but its own descriptors and frame.
LEMMA ProcStep ==
    ASSUME FiniteSetFacts, Inv, NEW p \in Proc, Running, pc[p] # "none",
           UNCHANGED <<archive, p_cur, fcbs, cur_dir, stop>>,
           fnodes' \in Seq(NodeRec), SameShape(fnodes, fnodes'),
           \A k \in Node : /\ ~fnodes'[k].destroyed
                           /\ fnodes'[k].ref_count
                                = fnodes[k].ref_count - Is(frame[p].file, k) - Is(frame[p].new_file, k)
                                  + Is(frame'[p].file, k) + Is(frame'[p].new_file, k),
           NEW g \in FrameRec, frame' = [frame EXCEPT ![p] = g],
           g.base \in Ptr, g.file \in Ptr, g.new_file \in Ptr,
           NEW l \in ProcLabel, pc' = [pc EXCEPT ![p] = l],
           ufcb_set' \in [Proc -> Table], last_fd' \in [Proc -> Nat], used' \in [Proc -> SUBSET Nat],
           \A q \in Proc \ {p} : ufcb_set'[q] = ufcb_set[q] /\ last_fd'[q] = last_fd[q] /\ used'[q] = used[q],
           Frame(p)', Descriptors(p)'
    PROVE  Inv'
<1>1. p \in Actor /\ p # KERNEL
  BY VfsAssumption DEF Actor
<1>2. /\ pc[p] \notin Booting \cup {"none", "sched"} /\ stop' \in {"none", "panic", "fault"}
      /\ (stop' = "none" => stop = "none")
  BY Zenon DEF Inv, Typed, ProcLabel, Booting
<1>3. /\ frame' \in [Actor -> FrameRec] /\ frame'[p] = g /\ \A b \in Actor \ {p} : frame'[b] = frame[b]
      /\ frame'[p].base \in Ptr /\ frame'[p].file \in Ptr /\ frame'[p].new_file \in Ptr
  BY <1>1 DEF Inv, Typed
<1>4. /\ pc' \in [Actor -> KernelLabel \cup ProcLabel] /\ pc'[p] \in ProcLabel
      /\ \A b \in Actor \ {p} : pc'[b] = pc[b]
  BY <1>1 DEF Inv, Typed
<1>5. (p = KERNEL => pc'[p] \in {"resolve", "open"}) /\ (p # KERNEL => pc'[p] \in ProcLabel)
      /\ (p \in Proc => Descriptors(p)') /\ UNCHANGED <<archive, p_cur, fcbs, cur_dir>>
  BY <1>1, <1>4
<1> QED BY <1>1, <1>2, <1>3, <1>4, <1>5, CallStep, Zenon

\* What is typed about a process.
LEMMA ProcTyped ==
    ASSUME Inv, NEW p \in Proc
    PROVE  /\ p \in Actor /\ frame[p] \in FrameRec /\ pc[p] \in ProcLabel /\ ufcb_set[p] \in Table
           /\ last_fd[p] \in Nat /\ used[p] \in SUBSET Nat /\ cur_dir[p] \in Ptr /\ Frame(p) /\ Descriptors(p)
           /\ ufcb_set \in [Proc -> Table] /\ last_fd \in [Proc -> Nat] /\ used \in [Proc -> SUBSET Nat]
           /\ frame[p].file \in Ptr /\ frame[p].new_file \in Ptr /\ frame[p].base \in Ptr
           /\ pc \in [Actor -> KernelLabel \cup ProcLabel] /\ frame \in [Actor -> FrameRec]
BY DEF Inv, Typed, Actor

\* Nodes that no step touches.
LEMMA NodesKept ==
    ASSUME Inv, fnodes' = fnodes
    PROVE  /\ fnodes' \in Seq(NodeRec) /\ SameShape(fnodes, fnodes')
           /\ \A k \in Node : ~fnodes'[k].destroyed /\ fnodes[k].ref_count \in Int /\ k # NULL
BY NodeTyped DEF Inv, Typed, SameShape, NoneDestroyed

\* A table of descriptors with one more.
LEMMA TableBind ==
    ASSUME NEW T \in Table, NEW fd \in 0 .. MaxFd, NEW n \in Nat
    PROVE  /\ Bind(T, fd, n) \in Table /\ DOMAIN Bind(T, fd, n) = DOMAIN T \cup {fd}
           /\ Bind(T, fd, n)[fd] = n /\ \A x \in DOMAIN T : x # fd => Bind(T, fd, n)[x] = T[x]
<1>1. PICK X \in SUBSET (0 .. MaxFd) : T \in [X -> Nat]
  BY DEF Table
<1>2. Bind(T, fd, n) \in [X \cup {fd} -> Nat] /\ X \cup {fd} \in SUBSET (0 .. MaxFd)
  BY <1>1 DEF Bind
<1>3. Bind(T, fd, n) \in Table
  BY <1>2, Zenon DEF Table
<1> QED BY <1>1, <1>3 DEF Bind

\* A table of descriptors with one less.
LEMMA TableDrop ==
    ASSUME NEW T \in Table, NEW fd
    PROVE  LET D == [x \in DOMAIN T \ {fd} |-> T[x]] IN
           D \in Table /\ DOMAIN D = DOMAIN T \ {fd} /\ \A x \in DOMAIN D : D[x] = T[x]
<1>1. PICK X \in SUBSET (0 .. MaxFd) : T \in [X -> Nat]
  BY DEF Table
<1>2. [x \in DOMAIN T \ {fd} |-> T[x]] \in [X \ {fd} -> Nat] /\ X \ {fd} \in SUBSET (0 .. MaxFd)
  BY <1>1, Zenon
<1> QED BY <1>2, Zenon DEF Table

\* A descriptor is bound to its FCB.
LEMMA UfcbInv == ASSUME FiniteSetFacts, Inv, NEW p \in Proc, ps_alloc_ufcb(p) PROVE Inv'
<1>1. Running /\ pc[p] = "ufcb" /\ pc[p] # "none" /\ stop = "none"
  BY DEF ps_alloc_ufcb, At, Running
<1>2. CASE Stop("fault")
  BY <1>2, StopInv
<1>3. CASE /\ ufcb_set' = [ufcb_set EXCEPT ![p] = Bind(@, frame[p].fd, frame[p].fcb)]
           /\ used' = [used EXCEPT ![p] = @ \cup {frame[p].fd}]
           /\ frame' = [frame EXCEPT ![p] = Idle] /\ pc' = [pc EXCEPT ![p] = "idle"]
           /\ UNCHANGED <<archive, p_cur, fnodes, fcbs, cur_dir, last_fd, stop>>
  <2> DEFINE T == Bind(ufcb_set[p], frame[p].fd, frame[p].fcb)
  <2>1. /\ frame[p].file = NULL /\ frame[p].new_file = NULL /\ frame[p].fcb \in DOMAIN fcbs
        /\ fcbs[frame[p].fcb] # NULL
    BY <1>1, ProcTyped, Zenon DEF Frame
  <2>2. /\ frame[p].fd \in Nat /\ frame[p].fcb \in Nat /\ frame[p].fd < last_fd[p]
        /\ last_fd[p] <= MaxFd /\ last_fd[p] \in Nat
    BY <1>1, ProcTyped DEF FrameRec, Descriptors
  <2>3. frame[p].fd \in 0 .. MaxFd
    BY ONLY <2>2, VfsAssumption, SMTT(60)
  <2>4. /\ T \in Table /\ DOMAIN T = DOMAIN ufcb_set[p] \cup {frame[p].fd} /\ T[frame[p].fd] = frame[p].fcb
        /\ \A x \in DOMAIN ufcb_set[p] : x # frame[p].fd => T[x] = ufcb_set[p][x]
    <3>1. ufcb_set[p] \in Table
      BY ProcTyped
    <3>2. frame[p].fcb \in Nat
      BY <2>2
    <3> DEFINE B(y, m) == Bind(ufcb_set[p], y, m)
               Bound(y, m) == /\ B(y, m) \in Table /\ DOMAIN B(y, m) = DOMAIN ufcb_set[p] \cup {y}
                              /\ B(y, m)[y] = m
                              /\ \A x \in DOMAIN ufcb_set[p] : x # y => B(y, m)[x] = ufcb_set[p][x]
    <3>3. ASSUME NEW y \in 0 .. MaxFd, NEW m \in Nat PROVE Bound(y, m)
      BY ONLY <3>1, <3>3, TableBind
    <3> HIDE DEF Bound
    <3>4. Bound(frame[p].fd, frame[p].fcb)
      BY <2>3, <3>2, <3>3
    <3> QED BY <3>4 DEF Bound
  <2> HIDE DEF T
  <2>5. ufcb_set' = [ufcb_set EXCEPT ![p] = T]
    BY <1>3, Zenon DEF T
  <2>6. /\ ufcb_set' \in [Proc -> Table] /\ used' \in [Proc -> SUBSET Nat] /\ last_fd' \in [Proc -> Nat]
        /\ ufcb_set'[p] = T /\ used'[p] = used[p] \cup {frame[p].fd}
        /\ \A q \in Proc \ {p} : ufcb_set'[q] = ufcb_set[q] /\ last_fd'[q] = last_fd[q] /\ used'[q] = used[q]
    BY <1>3, <2>2, <2>4, <2>5, ProcTyped, SMTT(60)
  <2>7. frame'[p] = Idle /\ pc'[p] = "idle" /\ "idle" \in ProcLabel
    BY <1>3, ProcTyped DEF ProcLabel
  <2>8. Frame(p)'
    BY <2>7, Zenon DEF Frame
  <2>9. Descriptors(p)'
    <3>1. fcbs' = fcbs /\ last_fd'[p] = last_fd[p]
      BY <1>3, Zenon
    <3>2. \A fd \in DOMAIN T : fd \in used[p] \cup {frame[p].fd} /\ T[fd] \in DOMAIN fcbs /\ fcbs[T[fd]] # NULL
      BY <2>1, <2>4, ProcTyped, SMTT(60) DEF Descriptors
    <3>3. \A fd \in used[p] \cup {frame[p].fd} : fd < last_fd[p]
      BY <2>2, ProcTyped, Zenon DEF Descriptors
    <3> QED BY <2>2, <2>6, <2>7, <3>1, <3>2, <3>3, Zenon DEF Descriptors
  <2>10. \A k \in Node : /\ ~fnodes'[k].destroyed
                         /\ fnodes'[k].ref_count
                              = fnodes[k].ref_count - Is(frame[p].file, k) - Is(frame[p].new_file, k)
                                + Is(frame'[p].file, k) + Is(frame'[p].new_file, k)
    <3> SUFFICES ASSUME NEW k \in Node
                 PROVE  fnodes'[k].ref_count
                              = fnodes[k].ref_count - Is(frame[p].file, k) - Is(frame[p].new_file, k)
                                + Is(frame'[p].file, k) + Is(frame'[p].new_file, k)
      BY <1>3, NodesKept
    <3>1. Is(NULL, k) \in 0 .. 1
      BY IsInt
    <3> QED BY <1>3, <2>1, <2>7, <3>1, IdleTyped, NodesKept, SMTT(60)
  <2>11. fnodes' \in Seq(NodeRec) /\ SameShape(fnodes, fnodes')
    BY <1>3, NodesKept
  <2>12. Idle \in FrameRec /\ Idle.base \in Ptr /\ Idle.file \in Ptr /\ Idle.new_file \in Ptr
    BY IdleTyped DEF Ptr
  <2>13. UNCHANGED <<archive, p_cur, fcbs, cur_dir, stop>>
    BY <1>3
  <2> QED BY <1>1, <1>3, <2>6, <2>7, <2>8, <2>9, <2>10, <2>11, <2>12, <2>13, ProcStep, Zenon
<1> QED BY <1>2, <1>3 DEF ps_alloc_ufcb, Goto

\* A descriptor is closed, its FCB stays.
LEMMA CloseInv == ASSUME FiniteSetFacts, Inv, NEW p \in Proc, NEW fd, sysent_close(p, fd) PROVE Inv'
<1> DEFINE T == [x \in DOMAIN ufcb_set[p] \ {fd} |-> ufcb_set[p][x]]
<1>1. /\ Running /\ pc[p] = "idle" /\ pc[p] # "none" /\ ufcb_set' = [ufcb_set EXCEPT ![p] = T]
      /\ UNCHANGED <<archive, p_cur, fnodes, fcbs, pc, frame, cur_dir, last_fd, used, stop>>
  BY DEF sysent_close, At
<1>2. T \in Table /\ DOMAIN T = DOMAIN ufcb_set[p] \ {fd} /\ \A x \in DOMAIN T : T[x] = ufcb_set[p][x]
  BY ProcTyped, TableDrop, Zenon
<1> HIDE DEF T
<1>3. /\ ufcb_set' \in [Proc -> Table] /\ used' \in [Proc -> SUBSET Nat] /\ last_fd' \in [Proc -> Nat]
      /\ ufcb_set'[p] = T
      /\ \A q \in Proc \ {p} : ufcb_set'[q] = ufcb_set[q] /\ last_fd'[q] = last_fd[q] /\ used'[q] = used[q]
  BY <1>1, <1>2, ProcTyped, Zenon
<1>4. Descriptors(p)'
  BY <1>1, <1>2, <1>3, ProcTyped, SMTT(60) DEF Descriptors
<1>5. Frame(p)'
  BY <1>1, ProcTyped DEF Frame
<1>6. \A k \in Node : /\ ~fnodes'[k].destroyed
                      /\ fnodes'[k].ref_count
                            = fnodes[k].ref_count - Is(frame[p].file, k) - Is(frame[p].new_file, k)
                              + Is(frame'[p].file, k) + Is(frame'[p].new_file, k)
  BY <1>1, IsInt, NodesKept
<1>7. fnodes' \in Seq(NodeRec) /\ SameShape(fnodes, fnodes')
  BY <1>1, NodesKept, Zenon
<1>8. frame' = [frame EXCEPT ![p] = frame[p]] /\ pc' = [pc EXCEPT ![p] = "idle"] /\ "idle" \in ProcLabel
  BY <1>1, ProcTyped DEF ProcLabel
<1>9. UNCHANGED <<archive, p_cur, fcbs, cur_dir, stop>>
  BY <1>1, Zenon
<1>10. frame[p] \in FrameRec /\ frame[p].base \in Ptr /\ frame[p].file \in Ptr /\ frame[p].new_file \in Ptr
  BY ProcTyped
<1> QED BY <1>1, <1>3, <1>4, <1>5, <1>6, <1>7, <1>8, <1>9, <1>10, ProcStep, Zenon

\* A read begins and takes a reference.
LEMMA ReadInv == ASSUME FiniteSetFacts, Inv, NEW p \in Proc, NEW fd, sysent_read(p, fd) PROVE Inv'
<1> DEFINE n == fcbs[ufcb_set[p][fd]]  g == [frame[p] EXCEPT !.file = n]
<1>1. Running /\ pc[p] = "idle" /\ pc[p] # "none" /\ fd \in DOMAIN ufcb_set[p]
  BY DEF sysent_read, At
<1>2. CASE Stop("fault")
  BY <1>2, StopInv
<1>3. CASE /\ ~IsDir(n) /\ fnodes' = Ref(fnodes, n) /\ frame' = [frame EXCEPT ![p].file = n]
           /\ pc' = [pc EXCEPT ![p] = "read"]
           /\ UNCHANGED <<archive, p_cur, fcbs, cur_dir, ufcb_set, last_fd, used, stop>>
  <2>1. n \in Node /\ n \in Nat /\ n \in Ptr /\ n # NULL
    <3>1. ufcb_set[p][fd] \in DOMAIN fcbs /\ n # NULL
      BY <1>1, ProcTyped, Zenon DEF Descriptors
    <3>2. n \in Ptr
      BY <3>1 DEF Inv, Typed
    <3>3. n \in Node
      BY <3>1, <3>2, Zenon DEF Ptr
    <3> QED BY <3>1, <3>2, <3>3, NodeNumbers, SMTT(60) DEF Inv
  <2> HIDE DEF n
  <2>2. frame[p] = Idle
    BY <1>1, ProcTyped DEF Frame
  <2>3. g \in FrameRec /\ g.file = n /\ g.new_file = NULL /\ g.base = NULL
    BY <2>1, <2>2, IdleTyped, Zenon DEF FrameRec
  <2>4. frame' = [frame EXCEPT ![p] = g] /\ frame'[p] = g /\ pc'[p] = "read" /\ "read" \in ProcLabel
    BY <1>3, ProcTyped DEF ProcLabel
  <2> HIDE DEF g
  <2>5. /\ fnodes' \in Seq(NodeRec) /\ SameShape(fnodes, fnodes')
        /\ \A k \in Node : /\ fnodes'[k].ref_count = fnodes[k].ref_count + Is(n, k)
                           /\ fnodes'[k].destroyed = fnodes[k].destroyed
    BY <1>3, <2>1, RefFacts, Zenon DEF Inv, Typed, Node
  <2>6. \A k \in Node : /\ ~fnodes'[k].destroyed
                        /\ fnodes'[k].ref_count
                              = fnodes[k].ref_count - Is(frame[p].file, k) - Is(frame[p].new_file, k)
                                + Is(frame'[p].file, k) + Is(frame'[p].new_file, k)
    <3> SUFFICES ASSUME NEW k \in Node
                 PROVE  fnodes'[k].ref_count
                              = fnodes[k].ref_count - Is(frame[p].file, k) - Is(frame[p].new_file, k)
                                + Is(frame'[p].file, k) + Is(frame'[p].new_file, k)
      BY <2>5 DEF Inv, NoneDestroyed
    <3>1. Is(NULL, k) = 0 /\ Is(n, k) \in 0 .. 1 /\ fnodes[k].ref_count \in Int
      BY IsInt, NodeTyped, Zenon DEF Inv
    <3>2. frame[p].file = NULL /\ frame[p].new_file = NULL /\ frame'[p].file = n /\ frame'[p].new_file = NULL
      BY <2>2, <2>3, <2>4, IdleTyped, Zenon
    <3>3. fnodes'[k].ref_count = fnodes[k].ref_count + Is(n, k)
      BY <2>5, Zenon
    <3> QED BY ONLY <3>1, <3>2, <3>3, SMTT(60)
  <2>7. Frame(p)'
    <3>1. fnodes'[n].type = "file"
      BY <1>3, <2>1, <2>5, NodeTyped, Zenon DEF Inv, IsDir, SameShape, Node
    <3> QED BY <2>1, <2>3, <2>4, <3>1, Zenon DEF Frame, Booting
  <2>8. Descriptors(p)'
    BY <1>3, <2>4, ProcTyped, Zenon DEF Descriptors
  <2>9. /\ ufcb_set' \in [Proc -> Table] /\ last_fd' \in [Proc -> Nat] /\ used' \in [Proc -> SUBSET Nat]
        /\ \A q \in Proc \ {p} : ufcb_set'[q] = ufcb_set[q] /\ last_fd'[q] = last_fd[q] /\ used'[q] = used[q]
    BY <1>3, ProcTyped
  <2>10. UNCHANGED <<archive, p_cur, fcbs, cur_dir, stop>> /\ g.base \in Ptr /\ g.file \in Ptr /\ g.new_file \in Ptr
    BY <1>3, <2>1, <2>3, Zenon DEF Ptr
  <2> QED BY <1>1, <1>3, <2>3, <2>4, <2>5, <2>6, <2>7, <2>8, <2>9, <2>10, ProcStep, ZenonT(60)
<1> QED BY <1>2, <1>3 DEF sysent_read, Goto, proc

\* A read ends and gives it up.
LEMMA InitcarReadInv == ASSUME FiniteSetFacts, Inv, NEW p \in Proc, NEW off, kh_initcar_read(p, off) PROVE Inv'
<1> DEFINE n == frame[p].file
<1>1. Running /\ pc[p] = "read" /\ pc[p] # "none"
  BY DEF kh_initcar_read, At
<1>2. CASE Stop("fault")
  BY <1>2, StopInv
<1>3. CASE /\ fnodes' = Unref(fnodes, n) /\ frame' = [frame EXCEPT ![p] = Idle]
           /\ pc' = [pc EXCEPT ![p] = "idle"]
           /\ UNCHANGED <<archive, p_cur, fcbs, cur_dir, ufcb_set, last_fd, used, stop>>
  <2>1. n \in Node /\ frame[p].new_file = NULL
    BY <1>1, ProcTyped DEF Frame, Running, Ptr
  <2>2. frame'[p] = Idle /\ pc'[p] = "idle" /\ "idle" \in ProcLabel
    BY <1>3, ProcTyped, Zenon DEF ProcLabel
  <2>3. LET N == Unref(fnodes, n) IN
        /\ N \in Seq(NodeRec) /\ SameShape(fnodes, N)
        /\ \A k \in Node : /\ ~N[k].destroyed
                           /\ N[k].ref_count = fnodes[k].ref_count
                                               - Is(frame[p].file, k) - Is(frame[p].new_file, k)
    BY <2>1, OneDropped, ProcTyped, Zenon
  <2>4. /\ fnodes' \in Seq(NodeRec) /\ SameShape(fnodes, fnodes')
        /\ \A k \in Node : /\ ~fnodes'[k].destroyed
                           /\ fnodes'[k].ref_count = fnodes[k].ref_count
                                               - Is(frame[p].file, k) - Is(frame[p].new_file, k)
    BY <1>3, <2>3, Zenon
  <2>5. \A k \in Node : /\ ~fnodes'[k].destroyed
                        /\ fnodes'[k].ref_count
                              = fnodes[k].ref_count - Is(frame[p].file, k) - Is(frame[p].new_file, k)
                                + Is(frame'[p].file, k) + Is(frame'[p].new_file, k)
    <3> SUFFICES ASSUME NEW k \in Node
                 PROVE  fnodes'[k].ref_count
                              = fnodes[k].ref_count - Is(frame[p].file, k) - Is(frame[p].new_file, k)
                                + Is(frame'[p].file, k) + Is(frame'[p].new_file, k)
      BY <2>4, Zenon
    <3>1. Is(NULL, k) = 0 /\ fnodes[k].ref_count \in Int
      BY IsInt, NodeTyped, Zenon DEF Inv
    <3>2. Is(frame[p].file, k) \in 0 .. 1 /\ Is(frame[p].new_file, k) \in 0 .. 1
      BY IsInt
    <3>3. frame'[p].file = NULL /\ frame'[p].new_file = NULL
      BY <2>2, IdleTyped
    <3>4. fnodes'[k].ref_count = fnodes[k].ref_count - Is(frame[p].file, k) - Is(frame[p].new_file, k)
      BY <2>4, ZenonT(60)
    <3> QED BY ONLY <3>1, <3>2, <3>3, <3>4, SMTT(60)
  <2>6. Frame(p)' /\ Descriptors(p)'
    BY <1>3, <2>2, ProcTyped, Zenon DEF Frame, Descriptors
  <2>7. /\ ufcb_set' \in [Proc -> Table] /\ last_fd' \in [Proc -> Nat] /\ used' \in [Proc -> SUBSET Nat]
        /\ \A q \in Proc \ {p} : ufcb_set'[q] = ufcb_set[q] /\ last_fd'[q] = last_fd[q] /\ used'[q] = used[q]
    BY <1>3, ProcTyped, Zenon
  <2>8. Idle \in FrameRec /\ Idle.base \in Ptr /\ Idle.file \in Ptr /\ Idle.new_file \in Ptr
    BY IdleTyped DEF Ptr
  <2>9. UNCHANGED <<archive, p_cur, fcbs, cur_dir, stop>>
    BY <1>3
  <2> QED BY <1>1, <1>3, <2>2, <2>4, <2>5, <2>6, <2>7, <2>8, <2>9, ProcStep, ZenonT(60)
<1> QED BY <1>2, <1>3, Zenon DEF kh_initcar_read, Goto, proc

\* The frame of a path to resolve.
LEMMA StartTyped ==
    ASSUME NEW base \in Nat, NEW path \in Seq(STRING), path # << >>, NEW fd \in Nat
    PROVE  LET g == Start(base, path, fd) IN
           /\ g \in FrameRec /\ g.path = path /\ g.i = 1 /\ g.base = base /\ g.file = base /\ g.new_file = NULL
           /\ g.fd = fd /\ g.i \in 1 .. Len(g.path)
<1> DEFINE g == Start(base, path, fd)
<1>2. 1 \in Nat /\ 1 \in 1 .. Len(path)
  <2>1. Len(path) \in Nat /\ Len(path) # 0
    OBVIOUS
  <2>2. \A m \in Nat : m # 0 => 1 \in 1 .. m
    OBVIOUS
  <2> QED BY <2>1, <2>2
<1>3. /\ g.path = path /\ g.i = 1 /\ g.base = base /\ g.file = base /\ g.new_file = NULL /\ g.fd = fd
  BY DEF Start, Idle
<1>4. g \in FrameRec
  BY <1>2, IdleTyped, Zenon DEF FrameRec, Start
<1> HIDE DEF g
<1> QED BY <1>2, <1>3, <1>4, Zenon DEF g

\* A process takes a descriptor and begins with a path.
LEMMA SysOpenInv == ASSUME FiniteSetFacts, Inv, NEW p \in Proc, NEW path \in Paths, sysent_open(p, path) PROVE Inv'
<1> DEFINE d == cur_dir[p]  g == Start(d, path, last_fd[p])
<1>1. /\ Running /\ pc[p] = "idle" /\ pc[p] # "none" /\ last_fd[p] < MaxFd
      /\ last_fd' = [last_fd EXCEPT ![p] = @ + 1] /\ fnodes' = RefDir(fnodes, d)
      /\ frame' = [frame EXCEPT ![p] = g] /\ pc' = [pc EXCEPT ![p] = "resolve"]
      /\ UNCHANGED <<archive, p_cur, fcbs, cur_dir, ufcb_set, used, stop>>
  BY Zenon DEF sysent_open, At, Goto, ps_alloc_fd
<1>2. /\ d \in Ptr /\ d \in Nat /\ last_fd[p] \in Nat /\ MaxFd \in Nat /\ path \in Seq(STRING) /\ path # << >>
  BY ProcTyped, NodeNumbers, VfsAssumption, SMTT(60) DEF Inv, Ptr, NULL
<1>3. /\ g \in FrameRec /\ g.i = 1 /\ g.base = d /\ g.file = d /\ g.new_file = NULL
      /\ g.fd = last_fd[p] /\ g.i \in 1 .. Len(g.path)
  BY ONLY <1>2, StartTyped, SMTT(60)
<1>4. frame[p] = Idle
  BY <1>1, ProcTyped, Zenon DEF Frame
<1> HIDE DEF d, g
<1>5. frame'[p] = g /\ pc'[p] = "resolve" /\ "resolve" \in ProcLabel
  BY <1>1, ProcTyped, Zenon DEF ProcLabel
<1>6. /\ fnodes' \in Seq(NodeRec) /\ SameShape(fnodes, fnodes')
      /\ \A k \in Node : /\ fnodes'[k].ref_count = fnodes[k].ref_count + Is(d, k)
                         /\ fnodes'[k].destroyed = fnodes[k].destroyed
  <2>1. CASE d = NULL
    <3>1. fnodes' = fnodes
      BY <1>1, <2>1 DEF RefDir
    <3>2. \A k \in Node : fnodes[k].ref_count \in Int /\ Is(d, k) = 0
      BY <2>1, IsInt, NodeTyped, ZenonT(60) DEF Inv
    <3> QED BY <3>1, <3>2, NodesKept, SMTT(60)
  <2>2. CASE d # NULL
    <3>1. d \in Node /\ fnodes' = Ref(fnodes, d)
      BY <1>1, <1>2, <2>2 DEF RefDir, Ptr
    <3> QED BY <3>1, RefFacts, Zenon DEF Inv, Typed, Node
  <2> QED BY <2>1, <2>2, Zenon
<1>7. \A k \in Node : /\ ~fnodes'[k].destroyed
                      /\ fnodes'[k].ref_count
                            = fnodes[k].ref_count - Is(frame[p].file, k) - Is(frame[p].new_file, k)
                              + Is(frame'[p].file, k) + Is(frame'[p].new_file, k)
  <2> SUFFICES ASSUME NEW k \in Node
               PROVE  fnodes'[k].ref_count
                            = fnodes[k].ref_count - Is(frame[p].file, k) - Is(frame[p].new_file, k)
                              + Is(frame'[p].file, k) + Is(frame'[p].new_file, k)
    BY <1>6, Zenon DEF Inv, NoneDestroyed
  <2>1. Is(NULL, k) = 0 /\ Is(d, k) \in 0 .. 1 /\ fnodes[k].ref_count \in Int
    BY IsInt, NodeTyped, Zenon DEF Inv
  <2>2. frame[p].file = NULL /\ frame[p].new_file = NULL /\ frame'[p].file = d /\ frame'[p].new_file = NULL
    BY <1>3, <1>4, <1>5, IdleTyped, Zenon
  <2>3. fnodes'[k].ref_count = fnodes[k].ref_count + Is(d, k)
    BY <1>6
  <2> QED BY ONLY <2>1, <2>2, <2>3, SMTT(60)
<1>8. Frame(p)'
  BY <1>3, <1>5, Zenon DEF Frame, Booting
<1>9. last_fd' \in [Proc -> Nat] /\ last_fd'[p] = last_fd[p] + 1
  BY <1>1, <1>2, ProcTyped, SMTT(60)
<1>10. Descriptors(p)'
  <2>1. /\ DOMAIN ufcb_set[p] \subseteq used[p] /\ \A fd \in used[p] : fd < last_fd[p] /\ fd \in Nat
        /\ \A fd \in DOMAIN ufcb_set[p] : ufcb_set[p][fd] \in DOMAIN fcbs /\ fcbs[ufcb_set[p][fd]] # NULL
    BY ProcTyped, Zenon DEF Descriptors
  <2>2. last_fd'[p] <= MaxFd /\ last_fd[p] < last_fd'[p] /\ last_fd[p] \notin used[p]
    BY ONLY <1>1, <1>2, <1>9, <2>1, SMTT(60)
  <2>3. \A fd \in used[p] : fd < last_fd'[p]
    BY ONLY <1>2, <1>9, <2>1, SMTT(60)
  <2>4. frame'[p].fd = last_fd[p]
    BY <1>3, <1>5, Zenon
  <2> QED BY <1>1, <2>1, <2>2, <2>3, <2>4, Zenon DEF Descriptors
<1>11. /\ ufcb_set' \in [Proc -> Table] /\ used' \in [Proc -> SUBSET Nat]
       /\ \A q \in Proc \ {p} : ufcb_set'[q] = ufcb_set[q] /\ last_fd'[q] = last_fd[q] /\ used'[q] = used[q]
  BY <1>1, ProcTyped
<1>12. UNCHANGED <<archive, p_cur, fcbs, cur_dir, stop>> /\ g.base \in Ptr /\ g.file \in Ptr /\ g.new_file \in Ptr
  BY <1>1, <1>2, <1>3, ZenonT(60) DEF Ptr
<1> QED BY <1>1, <1>3, <1>5, <1>6, <1>7, <1>8, <1>9, <1>10, <1>11, <1>12, ProcStep, ZenonT(60)

\* A new process: it has no descriptors and no current directory.
LEMMA ExecChildInv ==
    ASSUME Inv, NEW p \in Proc, NEW fd, NEW q \in Proc, sysent_exec_child(p, fd, q) PROVE Inv'
<1>1. Running /\ pc[p] = "idle" /\ pc[q] = "none"
  BY DEF sysent_exec_child, At
<1>2. CASE Stop("fault")
  BY <1>2, StopInv
<1>3. CASE /\ pc' = [pc EXCEPT ![q] = "idle"]
           /\ UNCHANGED <<archive, p_cur, fnodes, fcbs, frame, cur_dir, ufcb_set, last_fd, used, stop>>
  <2>1. KERNEL \in Actor /\ Proc \subseteq Actor /\ KERNEL \notin Proc /\ q \in Actor /\ p \in Actor
    BY VfsAssumption DEF Actor
  <2>2. pc[KERNEL] = "sched" /\ Mounted
    BY <1>1, <2>1, Booted, Zenon DEF Booting
  <2>3. pc' \in [Actor -> KernelLabel \cup ProcLabel] /\ pc'[q] = "idle" /\ \A b \in Actor \ {q} : pc'[b] = pc[b]
    BY <1>3, <2>1, ProcTyped, Zenon DEF ProcLabel
  <2>4. pc'[KERNEL] = pc[KERNEL]
    BY <2>1, <2>3
  <2>5. Node' = Node /\ Ptr' = Ptr
    BY <1>3, Zenon DEF Node, Ptr
  <2>6. Typed'
    <3>1. \A b \in Proc : pc'[b] \in ProcLabel
      BY <2>1, <2>3, Zenon DEF Inv, Typed, ProcLabel
    <3> QED BY <1>3, <2>3, <2>4, <2>5, <3>1, Zenon DEF Inv, Typed
  <2>7. SameShape(fnodes, fnodes') /\ Mounted'
    BY <1>3, <2>2, <2>4, Zenon DEF SameShape, Mounted
  <2>8. Tree'
    BY <1>3, <2>2, <2>7, TreeKept, Zenon DEF Inv
  <2>9. Alone'
    BY <2>2, <2>4, ZenonT(60) DEF Alone, Booting
  <2>10. Counted' /\ NoneDestroyed'
    BY <1>3, <2>5 DEF Inv, Counted, NoneDestroyed, Held, FileOf, NewOf
  <2>11. \A b \in Actor : Frame(b)'
    <3>1. Frame(q)'
      <4>1. frame[q] = Idle
        BY <1>1, ProcTyped, Zenon DEF Frame
      <4> QED BY <1>3, <2>3, <4>1, ZenonT(60) DEF Frame
    <3>2. ASSUME NEW b \in Actor, b # q PROVE Frame(b)'
      BY <1>3, <2>3, <2>7, <3>2, FrameKept, Zenon DEF Inv
    <3> QED BY <3>1, <3>2, Zenon
  <2>12. \A b \in Proc : Descriptors(b)'
    <3>1. Descriptors(q)'
      BY <1>3, <2>3, ProcTyped DEF Descriptors
    <3>2. ASSUME NEW b \in Proc, b # q PROVE Descriptors(b)'
      BY <1>3, <2>1, <2>3, <3>2, DescriptorsKept, Zenon DEF Inv
    <3> QED BY <3>1, <3>2, ZenonT(60)
  <2> QED BY <2>6, <2>8, <2>9, <2>10, <2>11, <2>12, Zenon DEF Inv
<1> QED BY <1>2, <1>3, Zenon DEF sysent_exec_child, Goto, proc

\* The current directory of a process moves, counted at both ends.
LEMMA CwdInv ==
    ASSUME FiniteSetFacts, Inv, NEW p \in Proc, pc[p] # "none", NEW n \in Ptr, cur_dir' = [cur_dir EXCEPT ![p] = n],
           fnodes' \in Seq(NodeRec), SameShape(fnodes, fnodes'),
           \A k \in Node : /\ ~fnodes'[k].destroyed
                           /\ fnodes'[k].ref_count = fnodes[k].ref_count - Is(cur_dir[p], k) + Is(n, k),
           UNCHANGED <<archive, p_cur, fcbs, pc, frame, ufcb_set, last_fd, used, stop>>
    PROVE  Inv'
<1>1. Node' = Node /\ Ptr' = Ptr
  BY Zenon DEF SameShape, Node, Ptr
<1>2. KERNEL \in Actor /\ Proc \subseteq Actor /\ n \in Nat
  <2>1. KERNEL \in Actor /\ Proc \subseteq Actor
    BY Zenon DEF Actor
  <2>2. Node \subseteq Nat
    <3>1. Typed
      BY Zenon DEF Inv
    <3>2. \A x : x \in Node <=> x \in Int /\ 1 <= x /\ x <= Len(fnodes)
      BY ONLY <3>1, NodeNumbers, ZenonT(60)
    <3> QED BY ONLY <3>2
  <2>3. NULL \in Nat
    BY Zenon DEF NULL
  <2> QED BY <2>1, <2>2, <2>3, Zenon DEF Ptr
<1>3. pc[KERNEL] = "sched" /\ Mounted /\ Mounted'
  BY Zenon DEF Inv, Alone, Mounted
<1>4. cur_dir \in [Proc -> Nat] /\ cur_dir' \in [Proc -> Nat] /\ cur_dir'[p] = n
      /\ \A q \in Proc \ {p} : cur_dir'[q] = cur_dir[q]
  BY <1>2, Zenon DEF Inv, Typed
<1>5. Typed'
  <2>1. \A q \in Proc : cur_dir'[q] \in Ptr'
    BY <1>1, <1>4, Zenon DEF Inv, Typed
  <2> QED BY <1>1, <1>4, <2>1, ZenonT(60) DEF Inv, Typed
<1>6. Tree'
  BY <1>3, TreeKept DEF Inv
<1>7. Alone'
  BY <1>3, Zenon DEF Alone, Booting
<1>8. Counted'
  <2> SUFFICES ASSUME NEW k \in Node PROVE fnodes'[k].ref_count = Held(k)'
    BY <1>1, Zenon DEF Counted
  <2> DEFINE C1 == Count(DOMAIN fcbs, fcbs, k)  C2 == Count(Proc, cur_dir, k)
             C3 == Count(Actor, FileOf, k)  C4 == Count(Actor, NewOf, k)
             o == Is(cur_dir[p], k)  m == Is(n, k)  c == Is(k, CAR)
  <2>1. C1 \in Nat /\ C2 \in Nat /\ C3 \in Nat /\ C4 \in Nat /\ o \in 0 .. 1 /\ m \in 0 .. 1 /\ c \in 0 .. 1
    BY Finite, CountNat, IsInt DEF Inv
  <2>2. Count(Proc, cur_dir', k) = C2 - o + m
    <3>1. IsFiniteSet(Proc)
      BY VfsAssumption, Zenon
    <3>2. Moved(Proc, cur_dir, cur_dir', p, k)
      BY <1>4, <3>1, CountMoves, ZenonT(60)
    <3> QED BY <1>4, <3>2, Zenon DEF Moved
  <2>3. FileOf' = FileOf /\ NewOf' = NewOf
    BY DEF FileOf, NewOf
  <2>4. Held(k)' = 1 + c + C1 + (C2 - o + m) + C3 + C4
    BY <2>2, <2>3, Zenon DEF Held
  <2>5. fnodes[k].ref_count = 1 + c + C1 + C2 + C3 + C4 /\ fnodes'[k].ref_count = fnodes[k].ref_count - o + m
    BY DEF Inv, Counted, Held
  <2> HIDE DEF C1, C2, C3, C4, o, m, c
  <2>6. 1 + c + C1 + (C2 - o + m) + C3 + C4 = (1 + c + C1 + C2 + C3 + C4) - o + m
    BY ONLY <2>1, SMTT(60)
  <2> QED BY <2>4, <2>5, <2>6, Zenon
<1>9. NoneDestroyed'
  BY <1>1 DEF NoneDestroyed
<1>10. \A b \in Actor : Frame(b)'
  BY FrameKept, Zenon DEF Inv
<1>11. \A q \in Proc : Descriptors(q)'
  BY DescriptorsKept, Zenon DEF Inv
<1> QED BY <1>5, <1>6, <1>7, <1>8, <1>9, <1>10, <1>11, Zenon DEF Inv

\* A current directory is counted on top of what the tree holds.
LEMMA CwdDropped ==
    ASSUME FiniteSetFacts, Inv, NEW p \in Proc
    PROVE  LET N == Unref(fnodes, cur_dir[p]) IN
           /\ N \in Seq(NodeRec) /\ SameShape(fnodes, N)
           /\ \A k \in Node : ~N[k].destroyed /\ N[k].ref_count = fnodes[k].ref_count - Is(cur_dir[p], k)
<1> DEFINE d == cur_dir[p]  N == Unref(fnodes, d)
<1>1. fnodes \in Seq(NodeRec) /\ d \in DOMAIN fnodes \cup {NULL} /\ Node = DOMAIN fnodes
  BY Zenon DEF Inv, Typed, Ptr, Node
<1>2. /\ N \in Seq(NodeRec) /\ SameShape(fnodes, N)
      /\ \A k \in Node : /\ N[k].ref_count = fnodes[k].ref_count - Is(d, k)
                         /\ k # d \/ fnodes[k].ref_count # 1 => N[k].destroyed = fnodes[k].destroyed
  BY <1>1, UnrefFacts
<1> HIDE DEF N, d
<1>3. ASSUME NEW k \in Node PROVE ~N[k].destroyed
  <2>1. /\ fnodes[k].ref_count = Held(k) /\ Held(k) \in Nat /\ Held(k) >= 1 + Is(d, k)
        /\ Is(d, k) \in 0 .. 1 /\ (k = d => Is(d, k) = 1)
    BY HeldBounds, IsInt, Zenon DEF Inv, Counted, d
  <2>2. k = d => fnodes[k].ref_count # 1
    BY <2>1
  <2> QED BY <1>2, <2>2, Zenon DEF Inv, NoneDestroyed
<1> QED BY <1>2, <1>3, Zenon DEF N, d

\* A current directory is set.
LEMMA SetCwdInv == ASSUME FiniteSetFacts, Inv, NEW p \in Proc, NEW n \in Node, ps_set_cwd(p, n) PROVE Inv'
<1> DEFINE d == cur_dir[p]  N == Unref(fnodes, d)
<1>1. /\ pc[p] # "none" /\ fnodes' = Ref(N, n) /\ cur_dir' = [cur_dir EXCEPT ![p] = n]
      /\ UNCHANGED <<archive, p_cur, fcbs, pc, frame, ufcb_set, last_fd, used, stop>>
  BY Zenon DEF ps_set_cwd
<1>2. /\ N \in Seq(NodeRec) /\ SameShape(fnodes, N)
      /\ \A k \in Node : ~N[k].destroyed /\ N[k].ref_count = fnodes[k].ref_count - Is(d, k)
  BY CwdDropped, Zenon
<1>3. DOMAIN N = Node
  BY <1>2, Zenon DEF SameShape, Node
<1> HIDE DEF N
<1>4. /\ fnodes' \in Seq(NodeRec) /\ SameShape(N, fnodes')
      /\ \A k \in Node : fnodes'[k].ref_count = N[k].ref_count + Is(n, k) /\ fnodes'[k].destroyed = N[k].destroyed
  BY <1>1, <1>2, <1>3, RefFacts, Zenon
<1>5. SameShape(fnodes, fnodes')
  BY <1>2, <1>4, ShapeTrans, Zenon
<1>6. \A k \in Node : ~fnodes'[k].destroyed /\ fnodes'[k].ref_count = fnodes[k].ref_count - Is(d, k) + Is(n, k)
  BY <1>2, <1>4
<1>7. n \in Ptr
  BY DEF Ptr
<1> QED BY <1>1, <1>4, <1>5, <1>6, <1>7, CwdInv, Zenon

\* A current directory is given up.
LEMMA UnsetCwdInv == ASSUME FiniteSetFacts, Inv, NEW p \in Proc, ps_unset_cwd(p) PROVE Inv'
<1> DEFINE d == cur_dir[p]  N == Unref(fnodes, d)
<1>1. /\ pc[p] # "none" /\ fnodes' = N /\ cur_dir' = [cur_dir EXCEPT ![p] = NULL]
      /\ UNCHANGED <<archive, p_cur, fcbs, pc, frame, ufcb_set, last_fd, used, stop>>
  BY Zenon DEF ps_unset_cwd
<1>2. /\ N \in Seq(NodeRec) /\ SameShape(fnodes, N)
      /\ \A k \in Node : ~N[k].destroyed /\ N[k].ref_count = fnodes[k].ref_count - Is(d, k)
  BY CwdDropped, Zenon
<1> HIDE DEF N
<1>3. \A k \in Node : ~fnodes'[k].destroyed /\ fnodes'[k].ref_count = fnodes[k].ref_count - Is(d, k) + Is(NULL, k)
  <2> SUFFICES ASSUME NEW k \in Node
               PROVE  ~N[k].destroyed /\ N[k].ref_count = fnodes[k].ref_count - Is(d, k) + Is(NULL, k)
    BY <1>1, Zenon
  <2>1. Is(NULL, k) = 0 /\ Is(d, k) \in 0 .. 1 /\ fnodes[k].ref_count \in Int
    BY IsInt, NodeTyped, Zenon DEF Inv
  <2> QED BY ONLY <1>2, <2>1, SMTT(60)
<1>4. NULL \in Ptr /\ fnodes' \in Seq(NodeRec) /\ SameShape(fnodes, fnodes')
  BY <1>1, <1>2, Zenon DEF Ptr
<1> QED BY <1>1, <1>3, <1>4, CwdInv, Zenon

\* kernel_main closes the FCB of the first program and starts it.
LEMMA KernelExecInv == ASSUME FiniteSetFacts, Inv, NEW q \in Proc, kernel_exec(q) PROVE Inv'
<1> DEFINE i == frame[KERNEL].fcb  n == fcbs[i]
<1>0. /\ KERNEL \in Actor /\ Proc \subseteq Actor /\ KERNEL \notin Proc /\ q \in Actor
      /\ Running /\ pc[KERNEL] = "exec" /\ stop = "none"
  BY VfsAssumption DEF Actor, kernel_exec, At, Running
<1>1. CASE Stop("panic")
  BY <1>1, StopInv
<1>2. CASE /\ fnodes' = Unref(fnodes, n) /\ fcbs' = [fcbs EXCEPT ![i] = NULL]
           /\ frame' = [frame EXCEPT ![KERNEL] = Idle]
           /\ pc' = [pc EXCEPT ![KERNEL] = "sched", ![q] = "idle"]
           /\ UNCHANGED <<archive, p_cur, cur_dir, ufcb_set, last_fd, used, stop>>
  <2>1. /\ i \in DOMAIN fcbs /\ frame[KERNEL].file = NULL /\ frame[KERNEL].new_file = NULL
        /\ \A p \in Proc : pc[p] = "none" /\ cur_dir[p] = NULL /\ ufcb_set[p] = << >> /\ frame[p] = Idle
    BY <1>0, Zenon DEF Inv, Frame, Alone
  <2>2. n \in Ptr /\ fcbs \in Seq(Nat) /\ fnodes \in Seq(NodeRec) /\ Node = DOMAIN fnodes
    BY <2>1, Zenon DEF Inv, Typed, Node
  <2>3. /\ fnodes' \in Seq(NodeRec) /\ SameShape(fnodes, fnodes')
        /\ \A k \in Node : /\ fnodes'[k].ref_count = fnodes[k].ref_count - Is(n, k)
                           /\ k # n \/ fnodes[k].ref_count # 1 => fnodes'[k].destroyed = fnodes[k].destroyed
    BY <1>2, <2>2, UnrefFacts, Zenon DEF Ptr
  <2>4. /\ fcbs' \in Seq(Nat) /\ DOMAIN fcbs' = DOMAIN fcbs /\ fcbs'[i] = NULL
        /\ \A j \in DOMAIN fcbs \ {i} : fcbs'[j] = fcbs[j]
    BY ONLY <1>2, <2>1, <2>2, SMTT(60) DEF NULL
  <2> HIDE DEF i, n
  <2>5. Node' = Node /\ Ptr' = Ptr
    BY <2>3, Zenon DEF SameShape, Node, Ptr
  <2>6. /\ frame' \in [Actor -> FrameRec] /\ frame'[KERNEL] = Idle
        /\ \A b \in Actor \ {KERNEL} : frame'[b] = frame[b]
    BY <1>0, <1>2, IdleTyped, Zenon DEF Inv, Typed
  <2>7. \A b \in Actor : frame'[b] = Idle
    BY <1>0, <2>1, <2>6, Zenon DEF Actor
  <2>8. /\ pc' \in [Actor -> KernelLabel \cup ProcLabel] /\ pc'[KERNEL] = "sched"
        /\ \A p \in Proc : pc'[p] \in {"none", "idle"}
    BY <1>0, <1>2, <2>1, Zenon DEF Inv, Typed, KernelLabel, ProcLabel
  <2>9. Typed'
    <3>1. pc'[KERNEL] \in KernelLabel /\ \A p \in Proc : pc'[p] \in ProcLabel
      BY <2>8, Zenon DEF KernelLabel, ProcLabel
    <3>2. \A b \in Actor : frame'[b].base \in Ptr' /\ frame'[b].file \in Ptr' /\ frame'[b].new_file \in Ptr'
      BY <2>7, IdleTyped DEF Ptr
    <3>3. \A j \in DOMAIN fcbs' : fcbs'[j] \in Ptr'
      BY <2>4, <2>5, Zenon DEF Inv, Typed, Ptr
    <3> QED BY <1>2, <2>3, <2>4, <2>5, <2>6, <2>8, <3>1, <3>2, <3>3, ZenonT(60) DEF Inv, Typed
  <2>10. Tree'
    <3>1. Mounted /\ Mounted'
      BY <1>0, <2>8 DEF Mounted
    <3> QED BY <1>2, <2>3, <3>1, TreeKept, Zenon DEF Inv
  <2>11. Alone'
    BY <2>8, Zenon DEF Alone, Booting
  <2>12. Counted'
    <3> SUFFICES ASSUME NEW k \in Node PROVE fnodes'[k].ref_count = Held(k)'
      BY <2>5 DEF Counted
    <3> DEFINE C1 == Count(DOMAIN fcbs, fcbs, k)  C2 == Count(Proc, cur_dir, k)
               C3 == Count(Actor, FileOf, k)  C4 == Count(Actor, NewOf, k)
               m == Is(n, k)  c == Is(k, CAR)
    <3>1. C1 \in Nat /\ C2 \in Nat /\ C3 \in Nat /\ C4 \in Nat /\ m \in 0 .. 1 /\ c \in 0 .. 1
      BY Finite, CountNat, IsInt, Zenon DEF Inv
    <3>2. k # NULL /\ Is(NULL, k) = 0
      BY IsInt, NodeTyped, Zenon DEF Inv
    <3>3. Count(DOMAIN fcbs', fcbs', k) = C1 - m + 0
      <4>1. IsFiniteSet(DOMAIN fcbs)
        BY Finite, Zenon DEF Inv
      <4>2. i \in DOMAIN fcbs /\ DOMAIN fcbs' = DOMAIN fcbs /\ \A y \in DOMAIN fcbs \ {i} : fcbs'[y] = fcbs[y]
        BY <2>1, <2>4, Zenon
      <4>3. Moved(DOMAIN fcbs, fcbs, fcbs', i, k)
        BY <4>1, <4>2, CountMoves, Zenon
      <4> QED BY <2>4, <3>2, <4>2, <4>3, Zenon DEF Moved, n
    <3>4. Count(Actor, FileOf', k) = C3 - 0 + 0 /\ Count(Actor, NewOf', k) = C4 - 0 + 0
      <4>1. frame'[KERNEL].file = NULL /\ frame'[KERNEL].new_file = NULL
        BY <2>6, IdleTyped
      <4> QED BY <1>0, <2>1, <2>6, <3>2, <4>1, FrameMoves, ZenonT(60) DEF Inv
    <3>5. Held(k)' = 1 + c + (C1 - m + 0) + C2 + (C3 - 0 + 0) + (C4 - 0 + 0)
      BY <1>2, <3>3, <3>4, ZenonT(60) DEF Held
    <3>6. fnodes[k].ref_count = 1 + c + C1 + C2 + C3 + C4 /\ fnodes'[k].ref_count = fnodes[k].ref_count - m
      BY <2>3 DEF Inv, Counted, Held
    <3> HIDE DEF C1, C2, C3, C4, m, c
    <3>7. 1 + c + (C1 - m + 0) + C2 + (C3 - 0 + 0) + (C4 - 0 + 0) = (1 + c + C1 + C2 + C3 + C4) - m
      BY ONLY <3>1
    <3> QED BY <3>5, <3>6, <3>7, Zenon
  <2>13. NoneDestroyed'
    <3> SUFFICES ASSUME NEW k \in Node PROVE ~fnodes'[k].destroyed
      BY <2>5, ZenonT(60) DEF NoneDestroyed
    <3>1. /\ fnodes[k].ref_count = Held(k) /\ Held(k) \in Nat /\ Held(k) >= 1 + Is(n, k)
          /\ Is(n, k) \in 0 .. 1 /\ (k = n => Is(n, k) = 1)
      BY <2>1, HeldBounds, IsInt, Zenon DEF Inv, Counted, n
    <3>2. k = n => fnodes[k].ref_count # 1
      BY ONLY <3>1, SMTT(60)
    <3> QED BY <2>3, <3>2, Zenon DEF Inv, NoneDestroyed
  <2>14. \A b \in Actor : Frame(b)'
    <3>1. \A b \in Actor : pc'[b] \in {"none", "idle", "sched"}
      BY <2>8, ZenonT(60) DEF Actor
    <3> QED BY <2>7, <3>1 DEF Frame
  <2>15. \A p \in Proc : Descriptors(p)'
    <3> SUFFICES ASSUME NEW p \in Proc PROVE Descriptors(p)'
      OBVIOUS
    <3>1. DOMAIN << >> = {}
      OBVIOUS
    <3>2. ufcb_set'[p] = << >> /\ used'[p] = used[p] /\ last_fd'[p] = last_fd[p] /\ pc'[p] \in {"none", "idle"}
      BY <1>2, <2>1, <2>8, Zenon
    <3> QED BY <3>1, <3>2, Zenon DEF Inv, Descriptors
  <2> QED BY <2>9, <2>10, <2>11, <2>12, <2>13, <2>14, <2>15, Zenon DEF Inv
<1> QED BY <1>1, <1>2, Zenon DEF kernel_exec, proc

-----------------------------------------------------------------------------
(* The boot until the entries of the archive.                             *)

\* Where no pointer is to the node, the count is zero.
LEMMA CountNone ==
    ASSUME FiniteSetFacts, NEW S, NEW f, NEW n, \A y \in S : f[y] # n
    PROVE  Count(S, f, n) = 0
<1>1. {y \in S : f[y] = n} = {}
  OBVIOUS
<1>2. IsFiniteSet({})
  <2>1. 1 .. 0 = {}
    OBVIOUS
  <2> QED BY <2>1, IntervalFinite, Zenon
<1>3. Cardinality({}) = 0
  BY <1>2, CardinalityFacts, Zenon
<1> QED BY <1>1, <1>3, Zenon DEF Count

\* Nothing but the tree holds a node.
LEMMA BootHeld ==
    ASSUME FiniteSetFacts, Inv, pc[KERNEL] \in Booting
    PROVE  /\ \A a \in Actor : frame[a] = Idle
           /\ \A k : k # NULL => Held(k) = 1 + Is(k, CAR)
           /\ KERNEL \in Actor /\ Proc \subseteq Actor /\ KERNEL \notin Proc
           /\ fcbs = << >> /\ \A p \in Proc : pc[p] = "none" /\ cur_dir[p] = NULL /\ ufcb_set[p] = << >>
<1>1. KERNEL \in Actor /\ Proc \subseteq Actor /\ KERNEL \notin Proc
  BY VfsAssumption, Zenon DEF Actor
<1>2. fcbs = << >> /\ \A p \in Proc : pc[p] = "none" /\ cur_dir[p] = NULL /\ ufcb_set[p] = << >>
  BY ZenonT(60) DEF Inv, Alone, Booting
<1>3. \A a \in Actor : frame[a] = Idle
  BY <1>1, <1>2, Zenon DEF Inv, Frame, Actor
<1>4. ASSUME NEW k, k # NULL PROVE Held(k) = 1 + Is(k, CAR)
  <2>1. Count(DOMAIN fcbs, fcbs, k) = 0
    <3>1. DOMAIN fcbs = {}
      BY <1>2
    <3> QED BY <3>1, CountNone, Zenon
  <2>2. Count(Proc, cur_dir, k) = 0
    BY <1>2, <1>4, CountNone, Zenon
  <2>3. \A a \in Actor : FileOf[a] = NULL /\ NewOf[a] = NULL
    BY <1>3, IdleTyped, Zenon DEF FileOf, NewOf
  <2>4. Count(Actor, FileOf, k) = 0 /\ Count(Actor, NewOf, k) = 0
    BY <1>4, <2>3, CountNone, Zenon
  <2>5. Is(k, CAR) \in 0 .. 1
    BY IsInt
  <2>6. Held(k) = 1 + Is(k, CAR) + 0 + 0 + 0 + 0
    BY <2>1, <2>2, <2>4, Zenon DEF Held
  <2> QED BY ONLY <2>5, <2>6, SMTT(60)
<1> QED BY <1>1, <1>2, <1>3, <1>4, Zenon

\* A step of the boot keeps the invariant if the tree is in order after it and
\* every node has the references of the tree.
LEMMA BootStep ==
    ASSUME FiniteSetFacts, Inv, pc[KERNEL] \in Booting, NEW l \in Booting, pc' = [pc EXCEPT ![KERNEL] = l],
           UNCHANGED <<archive, fcbs, frame, cur_dir, ufcb_set, last_fd, used, stop>>,
           p_cur' \in Nat, fnodes' \in Seq(NodeRec), Tree',
           \A k \in DOMAIN fnodes' : ~fnodes'[k].destroyed /\ fnodes'[k].ref_count = 1 + Is(k, CAR)
    PROVE  Inv'
<1>1. /\ KERNEL \in Actor /\ Proc \subseteq Actor /\ KERNEL \notin Proc
      /\ fcbs = << >> /\ \A p \in Proc : pc[p] = "none" /\ cur_dir[p] = NULL /\ ufcb_set[p] = << >>
      /\ \A a \in Actor : frame[a] = Idle
  BY BootHeld, Zenon
<1>2. /\ pc' \in [Actor -> KernelLabel \cup ProcLabel] /\ pc'[KERNEL] = l
      /\ \A p \in Proc : pc'[p] = "none"
  BY <1>1, ZenonT(60) DEF Inv, Typed, KernelLabel
<1>3. NULL \in Ptr' /\ Idle.base = NULL /\ Idle.file = NULL /\ Idle.new_file = NULL /\ DOMAIN << >> = {}
  BY ONLY IdleTyped, SMTT(60) DEF Ptr
<1>4. Typed'
  <2>1. pc'[KERNEL] \in KernelLabel /\ \A p \in Proc : pc'[p] \in ProcLabel
    BY <1>2 DEF KernelLabel, ProcLabel
  <2>2. \A b \in Actor : frame'[b].base \in Ptr' /\ frame'[b].file \in Ptr' /\ frame'[b].new_file \in Ptr'
    BY <1>1, <1>3, Zenon
  <2>3. \A p \in Proc : cur_dir'[p] \in Ptr'
    BY <1>1, <1>3, Zenon
  <2>4. \A i \in DOMAIN fcbs' : fcbs'[i] \in Ptr'
    BY <1>1, <1>3, Zenon
  <2> QED BY <1>2, <2>1, <2>2, <2>3, <2>4, ZenonT(60) DEF Inv, Typed
<1>5. Alone'
  BY <1>1, <1>2, Zenon DEF Alone
<1>6. Counted' /\ NoneDestroyed'
  <2> SUFFICES ASSUME NEW k \in Node' PROVE ~fnodes'[k].destroyed /\ fnodes'[k].ref_count = Held(k)'
    BY Zenon DEF Counted, NoneDestroyed
  <2>1. k \in DOMAIN fnodes' /\ k # NULL
    BY ONLY <1>4, NodeNumbers, SMTT(60) DEF Node, NULL
  <2>2. Held(k)' = Held(k)
    BY Zenon DEF Held, FileOf, NewOf
  <2> QED BY <2>1, <2>2, BootHeld, Zenon
<1>7. \A a \in Actor : Frame(a)'
  <2>1. \A a \in Actor : pc'[a] \in Booting \cup {"none"}
    BY <1>2, Zenon DEF Actor
  <2> QED BY <1>1, <2>1, Zenon DEF Frame, Booting
<1>8. \A p \in Proc : Descriptors(p)'
  BY <1>1, <1>2, <1>3, ZenonT(60) DEF Inv, Descriptors
<1> QED BY <1>4, <1>5, <1>6, <1>7, <1>8, Zenon DEF Inv

\* L is N with one more node, n, in the directory d: it has a reference of its
\* own and nothing else changes.
Made(N, d, name, exdata, type, refs, n, L) ==
    /\ L \in Seq(NodeRec) /\ Len(L) = n /\ DOMAIN L = DOMAIN N \cup {n} /\ n \notin DOMAIN N
    /\ L[n].type = type /\ L[n].exdata = exdata /\ L[n].subnodes = << >>
    /\ L[n].ref_count = refs + 1 /\ ~L[n].destroyed
    /\ \A k \in DOMAIN N : /\ L[k].type = N[k].type /\ L[k].exdata = N[k].exdata
                           /\ L[k].ref_count = N[k].ref_count /\ L[k].destroyed = N[k].destroyed
                           /\ k # d => L[k].subnodes = N[k].subnodes
    /\ L[d].subnodes = Bind(N[d].subnodes, name, n)

\* That is what Linked does with a new node.
LEMMA LinkedFacts ==
    ASSUME NEW N \in Seq(NodeRec), NEW d \in DOMAIN N, NEW name \in Names, NEW exdata \in Seq(Nat),
           NEW type \in {"dir", "file"}, NEW refs \in Nat, NEW n, n = Len(N) + 1,
           NEW L, L = Linked(Append(N, NewNode(type, "initcar", exdata, refs)), d, name, n)
    PROVE  Made(N, d, name, exdata, type, refs, n, L)
<1> DEFINE v == NewNode(type, "initcar", exdata, refs)
           A == Append(N, v)
           r == [A[d] EXCEPT !.subnodes = Bind(@, name, n)]
           B == [A EXCEPT ![d] = r]
<1>1. n \in Nat /\ n \notin DOMAIN N /\ d \in DOMAIN N /\ d # n
  BY SMTT(60)
<1>2. /\ v \in NodeRec /\ v.type = type /\ v.exdata = exdata /\ v.subnodes = << >> /\ v.ref_count = refs
      /\ v.destroyed = FALSE
  <2>1. << >> \in [{} -> Nat] /\ {} \in SUBSET Names
    OBVIOUS
  <2>2. << >> \in Subnodes
    BY <2>1, Zenon DEF Subnodes
  <2>3. refs \in Int
    OBVIOUS
  <2> QED BY <2>2, <2>3, Zenon DEF NewNode, NodeRec
<1> HIDE DEF v
<1>3. /\ A \in Seq(NodeRec) /\ Len(A) = n /\ DOMAIN A = DOMAIN N \cup {n} /\ A[n] = v
      /\ \A k \in DOMAIN N : A[k] = N[k]
  <2>1. v \in NodeRec
    BY <1>2, Zenon
  <2> QED BY ONLY <2>1, N \in Seq(NodeRec), n = Len(N) + 1, SMTT(60) DEF A
<1> HIDE DEF A
<1>4. A[d] = N[d] /\ N[d] \in NodeRec
  BY ONLY <1>3, SMTT(60)
<1>5. Bind(N[d].subnodes, name, n) \in Subnodes
  <2>1. PICK X \in SUBSET Names : N[d].subnodes \in [X -> Nat]
    BY <1>4, Zenon DEF NodeRec, Subnodes
  <2>2. Bind(N[d].subnodes, name, n) \in [X \cup {name} -> Nat] /\ X \cup {name} \in SUBSET Names
    BY <1>1, <2>1 DEF Bind
  <2> QED BY <2>2, Zenon DEF Subnodes
<1>6. /\ r \in NodeRec /\ r.subnodes = Bind(N[d].subnodes, name, n) /\ r.type = N[d].type
      /\ r.exdata = N[d].exdata /\ r.ref_count = N[d].ref_count /\ r.destroyed = N[d].destroyed
  BY <1>4, <1>5, ZenonT(60) DEF NodeRec
<1> HIDE DEF r
<1>7. /\ B \in Seq(NodeRec) /\ Len(B) = n /\ DOMAIN B = DOMAIN N \cup {n} /\ B[n] = v /\ B[d] = r
      /\ \A k \in DOMAIN N : k # d => B[k] = N[k]
  BY <1>1, <1>3, <1>6, SMTT(60)
<1>8. Linked(A, d, name, n) = Ref(B, n)
  BY DEF Linked, B, r
<1> HIDE DEF B
<1>9. L = Ref(B, n)
  BY <1>8, Zenon DEF A, v
<1>10. /\ L \in Seq(NodeRec) /\ SameShape(B, L)
      /\ \A k \in DOMAIN B : /\ L[k].ref_count = B[k].ref_count + Is(n, k)
                             /\ L[k].destroyed = B[k].destroyed
  <2>1. n \in DOMAIN B /\ B \in Seq(NodeRec)
    BY <1>7, Zenon
  <2> QED BY ONLY <1>9, <2>1, RefFacts, Zenon
<1>11. Len(L) = n /\ DOMAIN L = DOMAIN N \cup {n}
  BY <1>7, <1>10, Zenon DEF SameShape
<1>12. /\ L[n].type = type /\ L[n].exdata = exdata /\ L[n].subnodes = << >>
       /\ L[n].ref_count = refs + 1 /\ ~L[n].destroyed
  <2>1. n \in DOMAIN B /\ Is(n, n) = 1
    BY <1>7, IsInt, Zenon
  <2>2. /\ L[n].type = v.type /\ L[n].exdata = v.exdata /\ L[n].subnodes = v.subnodes
        /\ L[n].ref_count = v.ref_count + 1 /\ L[n].destroyed = v.destroyed
    BY <1>7, <1>10, <2>1, ZenonT(60) DEF SameShape
  <2> QED BY <1>2, <2>2, Zenon
<1>13. ASSUME NEW k \in DOMAIN N
       PROVE  /\ L[k].type = N[k].type /\ L[k].exdata = N[k].exdata
              /\ L[k].ref_count = N[k].ref_count /\ L[k].destroyed = N[k].destroyed
              /\ k # d => L[k].subnodes = N[k].subnodes
              /\ k = d => L[k].subnodes = Bind(N[d].subnodes, name, n)
  <2>1. k # n /\ Is(n, k) = 0 /\ k \in DOMAIN B
    BY ONLY <1>1, <1>7, IsInt, SMTT(60)
  <2>2. N[k].ref_count \in Int
    <3>1. N[k] \in NodeRec
      BY SMTT(60)
    <3> QED BY ONLY <3>1 DEF NodeRec
  <2>3. /\ B[k].type = N[k].type /\ B[k].exdata = N[k].exdata
        /\ B[k].ref_count = N[k].ref_count /\ B[k].destroyed = N[k].destroyed
        /\ k # d => B[k].subnodes = N[k].subnodes
        /\ k = d => B[k].subnodes = Bind(N[d].subnodes, name, n)
    BY <1>6, <1>7, ZenonT(60)
  <2>4. L[k].ref_count = N[k].ref_count + 0
    BY <1>10, <2>1, <2>3, Zenon
  <2>5. L[k].type = B[k].type /\ L[k].exdata = B[k].exdata /\ L[k].subnodes = B[k].subnodes
    BY <1>10, <2>1, Zenon DEF SameShape
  <2>6. L[k].destroyed = B[k].destroyed
    BY <1>10, <2>1, Zenon
  <2>7. L[k].ref_count = N[k].ref_count
    BY ONLY <2>2, <2>4, SMTT(60)
  <2> QED BY <2>3, <2>5, <2>6, <2>7, ZenonT(60)
<1>14. L[d].subnodes = Bind(N[d].subnodes, name, n)
  BY <1>13, ZenonT(60)
<1>15. \A k \in DOMAIN N : /\ L[k].type = N[k].type /\ L[k].exdata = N[k].exdata
                           /\ L[k].ref_count = N[k].ref_count /\ L[k].destroyed = N[k].destroyed
                           /\ k # d => L[k].subnodes = N[k].subnodes
  BY <1>13, Zenon
<1> QED BY <1>1, <1>10, <1>11, <1>12, <1>14, <1>15, ZenonT(60) DEF Made

\* The root directory.
LEMMA FsInitInv == ASSUME FiniteSetFacts, Inv, ki_fs_init PROVE Inv'
<1>1. pc[KERNEL] = "ki_fs_init"
  BY DEF ki_fs_init, At
<1>2. CASE Stop("panic")
  BY <1>2, StopInv, Zenon
<1> DEFINE v == NewNode("dir", "rootfs", << >>, 1)
<1>3. CASE /\ fnodes' = <<v>> /\ pc' = [pc EXCEPT ![KERNEL] = "kh_initcar_init"]
           /\ UNCHANGED <<archive, p_cur, fcbs, frame, cur_dir, ufcb_set, last_fd, used, stop>>
  <2>1. /\ v \in NodeRec /\ v.type = "dir" /\ v.subnodes = << >> /\ v.ref_count = 1 /\ ~v.destroyed
    <3>1. << >> \in [{} -> Nat] /\ {} \in SUBSET Names /\ << >> \in Seq(Nat)
      OBVIOUS
    <3>2. << >> \in Subnodes
      BY <3>1, Zenon DEF Subnodes
    <3> QED BY <3>1, <3>2 DEF NewNode, NodeRec
  <2> HIDE DEF v
  <2>2. fnodes' \in Seq(NodeRec) /\ Len(fnodes') = 1 /\ DOMAIN fnodes' = {1} /\ fnodes'[1] = v
    BY ONLY <1>3, <2>1, SMTT(60)
  <2>3. pc'[KERNEL] = "kh_initcar_init"
    BY <1>3, BootHeld, <1>1, Zenon DEF Inv, Typed, Booting
  <2>4. Tree'
    <3>1. Node' = {1} /\ Files' = {}
      BY <2>2 DEF Node, Files, ROOT
    <3>2. ROOT = 1 /\ CAR \notin Node'
      BY <3>1 DEF ROOT, CAR
    <3>3. Len(fnodes') = 1 /\ Len(fnodes') # 0 /\ ~Mounted'
      BY <2>2, <2>3 DEF Mounted
    <3>4. fnodes'[ROOT].type = "dir" /\ fnodes'[ROOT].subnodes = << >>
      BY <2>1, <2>2, <3>2, Zenon
    <3> QED BY <2>3, <3>1, <3>2, <3>3, <3>4, Zenon DEF Tree
  <2>5. \A k \in DOMAIN fnodes' : ~fnodes'[k].destroyed /\ fnodes'[k].ref_count = 1 + Is(k, CAR)
    BY ONLY <2>1, <2>2, SMTT(60) DEF Is, CAR
  <2>6. p_cur' \in Nat
    BY <1>3, Zenon DEF Inv, Typed
  <2> QED BY <1>1, <1>3, <2>2, <2>4, <2>5, <2>6, BootStep, ZenonT(60) DEF Booting
<1> QED BY <1>2, <1>3, Zenon DEF ki_fs_init, Goto, proc

\* The directory of the archive.
LEMMA InitcarInitInv == ASSUME FiniteSetFacts, Inv, kh_initcar_init PROVE Inv'
<1>1. pc[KERNEL] = "kh_initcar_init"
  BY Zenon DEF kh_initcar_init, At
<1>2. CASE Stop("panic")
  BY <1>2, StopInv
<1>3. CASE /\ fnodes' = Linked(Append(fnodes, NewNode("dir", "initcar", << >>, 1)), ROOT, "initcar", CAR)
           /\ pc' = [pc EXCEPT ![KERNEL] = "entries"]
           /\ UNCHANGED <<archive, p_cur, fcbs, frame, cur_dir, ufcb_set, last_fd, used, stop>>
  <2>1. /\ Len(fnodes) = 1 /\ fnodes \in Seq(NodeRec) /\ fnodes[ROOT].subnodes = << >> /\ DOMAIN fnodes = {ROOT}
        /\ fnodes[ROOT].type = "dir" /\ ROOT \in Node /\ p_cur' \in Nat
    <3>1. Len(fnodes) = 1 /\ fnodes \in Seq(NodeRec) /\ p_cur' \in Nat
      BY <1>1, <1>3, ZenonT(60) DEF Inv, Tree, Typed
    <3>2. DOMAIN fnodes = {ROOT}
      BY ONLY <3>1, SMTT(60) DEF ROOT
    <3> QED BY <3>1, <3>2, Zenon DEF Inv, Tree, Node
  <2>2. << >> \in Seq(Nat) /\ ROOT \in DOMAIN fnodes /\ CAR = Len(fnodes) + 1 /\ "initcar" \in Names
    <3>1. 1 + 1 = CAR /\ "initcar" \in Names
      BY SMTT(60) DEF CAR, Names
    <3> QED BY <2>1, <3>1
  <2> DEFINE L == fnodes'
  <2>3. /\ L \in Seq(NodeRec) /\ Len(L) = CAR /\ DOMAIN L = {ROOT, CAR} /\ CAR # ROOT
        /\ L[CAR].type = "dir" /\ L[CAR].subnodes = << >> /\ L[CAR].ref_count = 2 /\ ~L[CAR].destroyed
        /\ L[ROOT].type = "dir" /\ L[ROOT].ref_count = fnodes[ROOT].ref_count
        /\ L[ROOT].destroyed = fnodes[ROOT].destroyed
        /\ L[ROOT].subnodes = Bind(<< >>, "initcar", CAR)
    <3>1. "dir" \in {"dir", "file"} /\ 1 \in Nat /\ fnodes \in Seq(NodeRec)
      BY <2>1
    <3>2. Made(fnodes, ROOT, "initcar", << >>, "dir", 1, CAR, L)
      BY <1>3, <2>2, <3>1, LinkedFacts, ZenonT(60)
    <3>3. /\ L \in Seq(NodeRec) /\ Len(L) = CAR /\ DOMAIN L = DOMAIN fnodes \cup {CAR} /\ CAR \notin DOMAIN fnodes
          /\ L[CAR].type = "dir" /\ L[CAR].subnodes = << >> /\ L[CAR].ref_count = 2 /\ ~L[CAR].destroyed
      BY ONLY <3>2, SMTT(60) DEF Made
    <3>4. /\ L[ROOT].type = fnodes[ROOT].type /\ L[ROOT].ref_count = fnodes[ROOT].ref_count
          /\ L[ROOT].destroyed = fnodes[ROOT].destroyed
          /\ L[ROOT].subnodes = Bind(fnodes[ROOT].subnodes, "initcar", CAR)
      BY ONLY <2>2, <3>2, Zenon DEF Made
    <3> QED BY <2>1, <3>3, <3>4, Zenon
  <2> HIDE DEF L
  <2>4. pc'[KERNEL] = "entries"
    BY <1>3, BootHeld, <1>1, Zenon DEF Inv, Typed, Booting
  <2>5. Bind(<< >>, "initcar", CAR) = [x \in {"initcar"} |-> CAR]
    <3>1. DOMAIN << >> = {}
      BY SMTT(60)
    <3> QED BY <3>1 DEF Bind
  <2>6. Node' = {ROOT, CAR} /\ Files' = {} /\ DOMAIN << >> = {}
    <3>1. Node' = {ROOT, CAR}
      BY <2>3, Zenon DEF Node, L
    <3>2. Files' = {}
      BY ONLY <3>1, Zenon DEF Files
    <3>3. DOMAIN << >> = {}
      BY ONLY TRUE
    <3> QED BY <3>1, <3>2, <3>3, Zenon
  <2>7. Tree'
    <3>0. CAR # 0 /\ CAR # 1
      BY ONLY TRUE DEF CAR
    <3>1. Len(fnodes') # 0 /\ Len(fnodes') # 1
      BY <2>3, <3>0, Zenon DEF L
    <3>2. fnodes'[ROOT].type = "dir" /\ fnodes'[CAR].type = "dir" /\ fnodes'[CAR].subnodes = << >>
      BY <2>3, Zenon DEF L
    <3>3. fnodes'[ROOT].subnodes = [x \in {"initcar"} |-> CAR]
      BY <2>3, <2>5, Zenon DEF L
    <3>4. ~Mounted'
      BY <2>4, Zenon DEF Mounted
    <3>5. DOMAIN fnodes'[CAR].subnodes = {Name(k) : k \in Files}'
      BY <2>6, <3>2, Zenon
    <3> QED BY <2>4, <2>6, <3>1, <3>2, <3>3, <3>4, <3>5, Zenon DEF Tree
  <2>8. fnodes[ROOT].ref_count = 1 + Is(ROOT, CAR) /\ ~fnodes[ROOT].destroyed
    <3>1. Counted /\ NoneDestroyed
      BY Zenon DEF Inv
    <3>2. ROOT \in Node /\ pc[KERNEL] \in Booting
      BY <1>1, <2>2, Zenon DEF Node, Booting
    <3>3. ROOT # NULL
      BY ONLY TRUE DEF ROOT, NULL
    <3>4. Held(ROOT) = 1 + Is(ROOT, CAR)
      BY <3>2, <3>3, BootHeld, ZenonT(60)
    <3> QED BY ONLY <3>1, <3>2, <3>4, Zenon DEF Counted, NoneDestroyed
  <2>9. \A k \in DOMAIN fnodes' : ~fnodes'[k].destroyed /\ fnodes'[k].ref_count = 1 + Is(k, CAR)
    BY <2>3, <2>8, IsInt DEF L
  <2> QED BY <1>1, <1>3, <2>1, <2>3, <2>7, <2>9, BootStep, Zenon DEF Booting, L
<1> QED BY <1>2, <1>3 DEF kh_initcar_init, Goto, proc
=============================================================================
