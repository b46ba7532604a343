------------------------------ MODULE PsProofs ------------------------------
(***************************************************************************)
(* The process table is consistent for any number of PCBs and of PIDs, and *)
(* the scheduler over it runs live processes only, for any number of       *)
(* threads.                                                                *)
(***************************************************************************)
EXTENDS MCSched, WellFoundedInduction, TLAPS

\* A nonempty set of naturals has a least element.
LEMMA LeastProps ==
    ASSUME NEW Q \in SUBSET Nat, Q # {}
    PROVE  Least(Q) \in Q /\ \A j \in Q : Least(Q) <= j
<1>1. \E i \in Q : \A j \in Q : ~(<<j, i>> \in OpToRel(<, Nat))
  BY WFMin, NatLessThanWellFounded, Zenon
<1>2. \A i, j \in Nat : <<j, i>> \in OpToRel(<, Nat) <=> j < i
  BY DEF OpToRel
<1>3. \E i \in Q : \A j \in Q : ~(j < i)
  BY <1>1, <1>2, Zenon
<1>4. \E i \in Q : \A j \in Q : i <= j
  BY <1>3
<1> QED BY <1>4, ZenonT(60) DEF Least

\* A nonempty set of naturals up to n has a greatest element: the one whose
\* distance to n is least.
LEMMA GreatestProps ==
    ASSUME NEW n \in Nat, NEW Q \in SUBSET (0 .. n), Q # {}
    PROVE  Greatest(Q) \in Q /\ \A j \in Q : Greatest(Q) >= j
<1> DEFINE D == {n - i : i \in Q}
<1>1. D \in SUBSET Nat /\ D # {}
  <2>1. \A i \in Q : n - i \in Nat
    OBVIOUS
  <2> QED BY <2>1, ZenonT(60)
<1>2. PICK i \in Q : Least(D) = n - i
  BY <1>1, LeastProps, ZenonT(60)
<1>3. ASSUME NEW j \in Q PROVE n - i <= n - j
  <2>1. n - j \in D
    OBVIOUS
  <2>2. Least(D) <= n - j
    <3> HIDE DEF D
    <3> QED BY <1>1, <2>1, LeastProps
  <2> QED BY <1>2, <2>2, Zenon
<1>4. ASSUME NEW j \in Q PROVE i >= j
  <2>1. i \in Int /\ j \in Int
    OBVIOUS
  <2> QED BY ONLY <1>3, <2>1, n \in Nat, j \in Q
<1> QED BY <1>4, ZenonT(60) DEF Greatest

\* The PIDs are the naturals below PS_PROC_ID_MAX.
LEMMA PidFacts ==
    /\ PS_PROC_ID_MAX \in Nat /\ 0 \in Pid
    /\ \A i \in Pid : i \in Nat /\ i < PS_PROC_ID_MAX /\ i + 1 \in Pid \cup {PS_PROC_ID_MAX}
    /\ \A i \in Nat : i < PS_PROC_ID_MAX => i \in Pid
    /\ \A i \in Pid \cup {PS_PROC_ID_MAX} : i \in Nat /\ i <= PS_PROC_ID_MAX
BY PidAssumption DEF Pid

\* In a tree with unique PIDs, find returns the node that has the PID, or none.
LEMMA FindProps ==
    ASSUME PidsUnique, NEW pid
    PROVE  /\ find(pid) \subseteq ps_global_proc_set
           /\ \A q \in ps_global_proc_set : q \in find(pid) <=> rb_value[q] = pid
           /\ \A q \in find(pid) : find(pid) = {q}
BY DEF find, PidsUnique

\* Init establishes the invariant.
LEMMA InitInv == Init => Inv
BY PidAssumption DEF Init, Inv, TypeOK, NoDangling, PidsUnique, LoadingPidZero, HintExact,
   MaxExact, InsertSucceeds, OnlyPidZeroLost, Pid

\* Steps that leave the tree, its keys, the hint and the maximum alone keep
\* what the invariant says of them.
LEMMA TableUnchanged ==
    ASSUME Inv, UNCHANGED <<ps_global_proc_set, ki_min_free_pid, ki_cur_max_pid>>,
           \A q \in ps_global_proc_set : rb_value'[q] = rb_value[q]
    PROVE  PidsUnique' /\ HintExact' /\ MaxExact'
<1>1. \A i : find(i)' = find(i)
  BY DEF find
<1> QED BY <1>1 DEF Inv, PidsUnique, HintExact, MaxExact

\* The steps of ps_exec before ps_create_proc do not touch the tree: a PCB that
\* is free or loading is not in it.
LEMMA LoadingInv ==
    ASSUME Inv, NEW p \in Pcb, ps_alloc_pcb(p) \/ AllocFails(p) \/ Loaded(p) \/ NoSlot(p)
    PROVE  Inv'
<1>1. st[p] # "live" /\ p \notin ps_global_proc_set
  BY ZenonT(60) DEF Inv, TypeOK, NoDangling, ps_alloc_pcb, AllocFails, Loaded, NoSlot
<1>2. rb_value' \in [Pcb -> Pid \cup {PS_PROC_ID_MAX}] /\ \A q \in Pcb \ {p} : rb_value'[q] = rb_value[q]
  BY PidFacts, ZenonT(60) DEF Inv, TypeOK, ps_alloc_pcb, AllocFails, Loaded, NoSlot, table
<1>3. UNCHANGED <<ps_global_proc_set, ki_min_free_pid, ki_cur_max_pid>>
  BY ZenonT(60) DEF ps_alloc_pcb, AllocFails, Loaded, NoSlot, table
<1>4. PidsUnique' /\ HintExact' /\ MaxExact'
  BY <1>1, <1>2, <1>3, TableUnchanged, ZenonT(60) DEF Inv, TypeOK
<1>5. /\ st' \in [Pcb -> {"free", "loading", "loaded", "live"}]
      /\ \A q \in Pcb \ {p} : st'[q] = st[q]
      /\ st'[p] # "live"
      /\ st'[p] \in {"loading", "loaded"} => rb_value'[p] = 0
  BY <1>1, ZenonT(60) DEF Inv, TypeOK, LoadingPidZero, ps_alloc_pcb, AllocFails, Loaded, NoSlot, table
<1>6. panic' \in {"none", "double free"} \/ panic' = panic
  BY ZenonT(60) DEF ps_alloc_pcb, AllocFails, Loaded, NoSlot
<1>7. TypeOK'
  BY <1>2, <1>3, <1>5, <1>6, ZenonT(60) DEF Inv, TypeOK
<1>8. NoDangling' /\ OnlyPidZeroLost'
  BY <1>1, <1>2, <1>3, <1>5, ZenonT(60) DEF Inv, TypeOK, NoDangling, OnlyPidZeroLost
<1>9. LoadingPidZero'
  BY <1>2, <1>5 DEF Inv, LoadingPidZero
<1>10. InsertSucceeds'
  BY <1>6, ZenonT(60) DEF Inv, InsertSucceeds
<1> QED BY <1>4, <1>7, <1>8, <1>9, <1>10 DEF Inv

\* Creating a process registers it under the lowest PID that is free: the hint
\* has every lower one taken.
LEMMA CreateProps ==
    ASSUME Inv, NEW p \in Pcb, ps_create_proc(p)
    PROVE  /\ rb_value'[p] \in Pid /\ find(rb_value'[p]) = {}
           /\ \A i \in 0 .. rb_value'[p] - 1 : find(i) # {}
           /\ ps_global_proc_set' = ps_global_proc_set \cup {p}
           /\ st' = [st EXCEPT ![p] = "live"] /\ UNCHANGED panic
<1> DEFINE ahead == Unused(ki_min_free_pid, PS_PROC_ID_MAX)
           pid == Least(IF ahead # {} THEN ahead ELSE Unused(0, ki_min_free_pid))
<1>0. /\ PS_PROC_ID_MAX \in Nat /\ ki_min_free_pid \in Nat
      /\ ki_min_free_pid <= PS_PROC_ID_MAX /\ rb_value \in [Pcb -> Pid \cup {PS_PROC_ID_MAX}]
  BY PidFacts, ZenonT(60) DEF Inv, TypeOK
<1>1. Unused(0, ki_min_free_pid) = {}
  BY <1>0 DEF Inv, HintExact, Unused
<1>2. ahead # {}
  BY <1>0, <1>1 DEF ps_create_proc, Unused
<1>3. ahead \in SUBSET Nat
  BY <1>0 DEF Unused
<1>4. pid \in ahead /\ \A j \in ahead : pid <= j
  BY <1>2, <1>3, LeastProps
<1>5. pid \in Pid /\ pid >= ki_min_free_pid /\ find(pid) = {}
  <2>1. pid \in ki_min_free_pid .. PS_PROC_ID_MAX - 1 /\ find(pid) = {}
    BY <1>4, ZenonT(60) DEF Unused
  <2>2. pid \in Nat /\ pid < PS_PROC_ID_MAX
    BY <1>0, <2>1
  <2> QED BY <1>0, <2>1, <2>2, PidFacts
<1>6. \A i \in 0 .. pid - 1 : find(i) # {}
  <2> SUFFICES ASSUME NEW i \in 0 .. pid - 1, find(i) = {} PROVE FALSE
    OBVIOUS
  <2>1. i < pid /\ i < PS_PROC_ID_MAX /\ i \in Nat
    BY <1>0, <1>5 DEF Pid
  <2>2. CASE i < ki_min_free_pid
    BY <1>0, <2>1, <2>2 DEF Inv, HintExact
  <2>3. CASE i >= ki_min_free_pid
    <3>1. i \in ahead
      BY <1>0, <2>1, <2>3 DEF Unused
    <3> QED BY <1>0, <1>4, <1>5, <2>1, <3>1 DEF Pid
  <2> QED BY <1>0, <2>1, <2>2, <2>3
<1>7. rb_value'[p] = pid
  BY <1>0 DEF ps_create_proc
<1> QED BY <1>5, <1>6, <1>7 DEF ps_create_proc

\* Creating a process keeps the invariant.
LEMMA CreateInv ==
    ASSUME Inv, NEW p \in Pcb, ps_create_proc(p)
    PROVE  Inv'
<1> DEFINE pid == rb_value'[p]
<1>0. /\ PS_PROC_ID_MAX \in Nat /\ rb_value \in [Pcb -> Pid \cup {PS_PROC_ID_MAX}]
      /\ ki_cur_max_pid \in Nat /\ ps_global_proc_set \subseteq Pcb
      /\ st \in [Pcb -> {"free", "loading", "loaded", "live"}]
  BY PidFacts, ZenonT(60) DEF Inv, TypeOK
<1>1. /\ pid \in Pid /\ pid \in Nat /\ find(pid) = {}
      /\ \A i \in 0 .. pid - 1 : find(i) # {}
      /\ ps_global_proc_set' = ps_global_proc_set \cup {p}
      /\ st' = [st EXCEPT ![p] = "live"] /\ UNCHANGED panic
  BY <1>0, CreateProps DEF Pid
<1>2. /\ p \notin ps_global_proc_set /\ \A q \in Pcb \ {p} : rb_value'[q] = rb_value[q]
      /\ rb_value' \in [Pcb -> Pid \cup {PS_PROC_ID_MAX}]
      /\ ki_min_free_pid' = pid + 1
      /\ ki_cur_max_pid' = IF pid >= ki_cur_max_pid THEN pid ELSE ki_cur_max_pid
  <2>1. p \notin ps_global_proc_set
    BY DEF ps_create_proc, Inv, NoDangling
  <2>2. /\ rb_value' = [rb_value EXCEPT ![p] = pid]
        /\ ki_min_free_pid' = pid + 1
        /\ ki_cur_max_pid' = IF pid >= ki_cur_max_pid THEN pid ELSE ki_cur_max_pid
    BY <1>0 DEF ps_create_proc
  <2> QED BY <1>0, <1>1, <2>1, <2>2
<1>3. TypeOK'
  <2>1. ki_min_free_pid' \in Pid \cup {PS_PROC_ID_MAX} /\ ki_cur_max_pid' \in Pid
    BY <1>1, <1>2, PidFacts, ZenonT(60) DEF Inv, TypeOK
  <2> QED BY <1>0, <1>1, <1>2, <2>1, ZenonT(60) DEF Inv, TypeOK
<1>4. NoDangling'
  BY <1>0, <1>1, <1>2 DEF Inv, NoDangling
<1>5. PidsUnique'
  BY <1>0, <1>1, <1>2 DEF Inv, PidsUnique, find
<1>6. LoadingPidZero'
  BY <1>0, <1>1, <1>2 DEF Inv, LoadingPidZero
<1>7. HintExact'
  <2> SUFFICES ASSUME NEW i \in 0 .. pid PROVE find(i)' # {}
    BY <1>1, <1>2 DEF HintExact
  <2>1. CASE i = pid
    BY <1>1, <2>1 DEF find
  <2>2. CASE i # pid
    <3>1. PICK q \in ps_global_proc_set : rb_value[q] = i
      BY <1>1, <2>2 DEF find
    <3> QED BY <1>0, <1>1, <1>2, <3>1 DEF find
  <2> QED BY <2>1, <2>2
<1>8. MaxExact'
  <2>1. \A q \in ps_global_proc_set : rb_value[q] \in Nat /\ rb_value'[q] = rb_value[q]
    BY <1>0, <1>2 DEF Inv, PidsUnique, Pid
  <2>2. \A q \in ps_global_proc_set : rb_value[q] <= ki_cur_max_pid
    BY DEF Inv, MaxExact
  <2>3. CASE pid >= ki_cur_max_pid
    BY ONLY <1>0, <1>1, <1>2, <2>1, <2>2, <2>3, SMTT(60) DEF MaxExact
  <2>4. CASE ~(pid >= ki_cur_max_pid)
    <3>1. \E q \in ps_global_proc_set : rb_value[q] = ki_cur_max_pid
      BY <1>0, <1>1, <2>4 DEF Inv, MaxExact
    <3> QED BY <1>0, <1>1, <1>2, <2>1, <2>2, <2>4, <3>1 DEF MaxExact
  <2> QED BY <2>3, <2>4
<1>9. InsertSucceeds'
  BY <1>1 DEF Inv, InsertSucceeds
<1>10. OnlyPidZeroLost'
  BY <1>0, <1>1, <1>2, Zenon DEF Inv, OnlyPidZeroLost
<1> QED BY <1>3, <1>4, <1>5, <1>6, <1>7, <1>8, <1>9, <1>10 DEF Inv

\* Destroying a PCB takes at most the node with its PID out of the tree, and
\* that node is the PCB itself whenever the PCB is in the tree.
LEMMA DestroyInv ==
    ASSUME Inv, NEW p \in Pcb, LoadFails(p)
    PROVE  Inv'
<1> DEFINE node == find(rb_value[p])
           kept == ps_global_proc_set \ node
           left == {rb_value[q] : q \in kept}
           below == {i \in left : i <= ki_cur_max_pid}
<1>0. /\ rb_value \in [Pcb -> Pid \cup {PS_PROC_ID_MAX}] /\ ps_global_proc_set \subseteq Pcb
      /\ st \in [Pcb -> {"free", "loading", "loaded", "live"}]
      /\ ki_cur_max_pid \in Pid /\ ki_cur_max_pid \in Nat
      /\ ki_min_free_pid \in Nat /\ rb_value[p] \in Nat
      /\ ki_min_free_pid \in Pid \cup {PS_PROC_ID_MAX}
  BY PidFacts, ZenonT(60) DEF Inv, TypeOK
<1>1. /\ st[p] = "loading" /\ UNCHANGED rb_value
      /\ ps_global_proc_set' = kept
      /\ ki_min_free_pid' = IF node # {} /\ rb_value[p] < ki_min_free_pid
                             THEN rb_value[p] ELSE ki_min_free_pid
      /\ ki_cur_max_pid' = IF node # {} /\ rb_value[p] = ki_cur_max_pid
                            THEN IF below = {} THEN 0 ELSE Greatest(below) ELSE ki_cur_max_pid
      /\ st' = [st EXCEPT ![p] = "free"]
      /\ panic' \in {"none", "double free"}
  BY DEF LoadFails, ki_destroy_proc
<1>2. /\ \A q \in ps_global_proc_set : q \in node <=> rb_value[q] = rb_value[p]
      /\ \A q \in ps_global_proc_set : rb_value[q] \in Pid /\ rb_value[q] \in Nat
      /\ \A q \in ps_global_proc_set : rb_value[q] <= ki_cur_max_pid
  BY <1>0, FindProps, PidFacts, ZenonT(60) DEF Inv, PidsUnique, MaxExact
<1>3. left = below /\ left \in SUBSET (0 .. ki_cur_max_pid)
  BY <1>0, <1>2
<1>4. below # {} => Greatest(below) \in below /\ \A j \in below : Greatest(below) >= j
  BY <1>0, <1>3, GreatestProps, ZenonT(60)
<1>5. p \notin kept
  BY <1>0, <1>2
<1>6. TypeOK'
  <2>1. ki_min_free_pid' \in Pid \cup {PS_PROC_ID_MAX}
    BY <1>0, <1>1, ZenonT(60)
  <2>2. ki_cur_max_pid' \in Pid
    BY <1>0, <1>1, <1>2, <1>4, PidFacts, ZenonT(60)
  <2> QED BY <1>0, <1>1, <2>1, <2>2, ZenonT(60) DEF TypeOK
<1>7. NoDangling'
  BY <1>0, <1>1, <1>5, ZenonT(60) DEF Inv, NoDangling
<1>8. PidsUnique'
  BY <1>1, ZenonT(60) DEF Inv, PidsUnique
<1>9. LoadingPidZero'
  BY <1>0, <1>1, ZenonT(60) DEF Inv, LoadingPidZero
<1>10. HintExact'
  <2> SUFFICES ASSUME NEW i \in 0 .. ki_min_free_pid' - 1 PROVE find(i)' # {}
    BY DEF HintExact
  <2>1. i \in 0 .. ki_min_free_pid - 1 /\ (node # {} => i # rb_value[p])
    <3>1. CASE node # {} /\ rb_value[p] < ki_min_free_pid
      <4>1. ki_min_free_pid' = rb_value[p]
        BY <1>1, <3>1, ZenonT(60)
      <4> QED BY <1>0, <3>1, <4>1
    <3>2. CASE ~(node # {} /\ rb_value[p] < ki_min_free_pid)
      <4>1. ki_min_free_pid' = ki_min_free_pid
        BY <1>1, <3>2, ZenonT(60)
      <4> HIDE DEF node
      <4> QED BY <1>0, <3>2, <4>1
    <3> QED BY <3>1, <3>2
  <2>2. PICK q \in ps_global_proc_set : rb_value[q] = i
    BY <2>1 DEF Inv, HintExact, find
  <2>3. q \in kept
    BY <1>2, <2>1, <2>2
  <2> QED BY <1>1, <2>2, <2>3, ZenonT(60) DEF find
<1>11. MaxExact'
  <2>1. CASE node # {} /\ rb_value[p] = ki_cur_max_pid
    <3>1. CASE kept = {}
      BY <1>1, <1>3, <2>1, <3>1, ZenonT(60) DEF MaxExact
    <3>2. CASE kept # {}
      <4>1. below # {} /\ ki_cur_max_pid' = Greatest(below)
        BY <1>1, <1>3, <2>1, <3>2, ZenonT(60)
      <4>2. PICK q \in kept : rb_value[q] = Greatest(below)
        BY <1>3, <1>4, <4>1, Zenon
      <4>3. \A r \in kept : rb_value[r] <= Greatest(below)
        BY <1>0, <1>2, <1>3, <1>4, <4>1, <4>2
      <4> QED BY <1>1, <3>2, <4>1, <4>2, <4>3, ZenonT(60) DEF MaxExact
    <3> QED BY <3>1, <3>2
  <2>2. CASE node = {}
    BY <1>1, <2>2, ZenonT(60) DEF Inv, MaxExact
  <2>3. CASE node # {} /\ rb_value[p] # ki_cur_max_pid
    <3>1. PICK q \in ps_global_proc_set : rb_value[q] = ki_cur_max_pid
      BY <2>3, FindProps DEF Inv, MaxExact
    <3>2. q \in kept
      BY <1>2, <2>3, <3>1
    <3> QED BY <1>1, <1>2, <2>3, <3>1, <3>2, ZenonT(60) DEF MaxExact
  <2> QED BY <2>1, <2>2, <2>3
<1>12. InsertSucceeds'
  BY <1>1, ZenonT(60) DEF InsertSucceeds
<1>13. OnlyPidZeroLost'
  <2> SUFFICES ASSUME NEW q \in Pcb, st'[q] = "live", q \notin kept PROVE rb_value[q] = 0
    BY <1>1, ZenonT(60) DEF OnlyPidZeroLost
  <2>1. q # p /\ st[q] = "live"
    BY <1>0, <1>1, ZenonT(60)
  <2>2. CASE q \notin ps_global_proc_set
    BY <2>1, <2>2 DEF Inv, OnlyPidZeroLost
  <2>3. CASE q \in ps_global_proc_set
    <3>1. rb_value[q] = rb_value[p] /\ p \notin ps_global_proc_set
      BY <1>2, <2>1, <2>3 DEF Inv, PidsUnique
    <3> QED BY <1>1, <3>1, ZenonT(60) DEF Inv, LoadingPidZero, OnlyPidZeroLost
  <2> QED BY <2>2, <2>3
<1> QED BY <1>6, <1>7, <1>8, <1>9, <1>10, <1>11, <1>12, <1>13 DEF Inv

\* The invariant holds in every reachable state.
THEOREM Invariance == Spec => []Inv
<1>1. Inv /\ [Next]_vars => Inv'
  <2> SUFFICES ASSUME Inv, [Next]_vars PROVE Inv'
    OBVIOUS
  <2>1. CASE UNCHANGED vars
    <3>1. PidsUnique' /\ HintExact' /\ MaxExact'
      BY <2>1, TableUnchanged DEF vars, table
    <3> QED BY <2>1, <3>1, ZenonT(60) DEF vars, table, Inv, TypeOK, NoDangling, LoadingPidZero,
               InsertSucceeds, OnlyPidZeroLost
  <2> QED BY <2>1, LoadingInv, CreateInv, DestroyInv DEF Next
<1> QED BY <1>1, InitInv, PTL DEF Spec

\* Every PID below ki_min_free_pid is taken, so the search of ps_create_proc
\* misses none.
THEOREM HintIsExact == Spec => []HintExact
<1>1. Inv => HintExact
  BY DEF Inv
<1> QED BY <1>1, Invariance, PTL

\* No node of the tree is a freed PCB.
THEOREM TreeHasLiveNodes == Spec => []NoDangling
<1>1. Inv => NoDangling
  BY DEF Inv
<1> QED BY <1>1, Invariance, PTL

\* A failing ps_exec can take away only the process with PID 0.
THEOREM LossIsBounded == Spec => []OnlyPidZeroLost
<1>1. Inv => OnlyPidZeroLost
  BY DEF Inv
<1> QED BY <1>1, Invariance, PTL

\* A new process gets the lowest free PID.
THEOREM NewPidIsLowest == Spec => LowestPid
<1> DEFINE Lowest == \A p \in Pcb : p \in ps_global_proc_set' /\ p \notin ps_global_proc_set =>
                        \A i \in 0 .. rb_value'[p] - 1 : find(i) # {}
<1>1. Inv /\ [Next]_vars => [Lowest]_vars
  <2> SUFFICES ASSUME Inv, Next PROVE Lowest
    OBVIOUS
  <2>1. PICK p \in Pcb : \/ ps_alloc_pcb(p) \/ AllocFails(p) \/ Loaded(p) \/ LoadFails(p)
                         \/ ps_create_proc(p) \/ NoSlot(p)
    BY DEF Next
  <2>2. CASE ps_create_proc(p)
    BY <2>2, CreateProps
  <2>3. CASE ~ps_create_proc(p)
    BY <2>1, <2>3, ZenonT(60) DEF ps_alloc_pcb, AllocFails, Loaded, LoadFails, NoSlot,
       ki_destroy_proc, table
  <2> QED BY <2>2, <2>3
<1> QED BY <1>1, Invariance, PTL DEF Spec, LowestPid

-----------------------------------------------------------------------------
(* The scheduler.                                                          *)

\* What the proofs use of the constants.
LEMMA Bounds == MaxThreads \in Nat /\ 1 <= MaxThreads /\ 0 \in 0 .. MaxThreads /\ 1 \in 1 .. MaxThreads
BY SchedAssumption

\* The invariant holds when kernel_main starts.
LEMMA SchedInitInv == S!Init => S!Inv
<1> SUFFICES ASSUME S!Init PROVE S!Inv
  OBVIOUS
<1>1. S!TypeOK
  BY Bounds, ZenonT(60) DEF S!Init, S!TypeOK
<1>2. S!RunsLiveProcess /\ S!OneScheduled /\ S!ThreadsFollowLoad /\ S!P!NoDangling
      /\ st \in [Pcb -> {"free", "loading", "loaded", "live"}] /\ ps_global_proc_set \subseteq Pcb
  BY DEF S!Init, S!P!Init, S!RunsLiveProcess, S!OneScheduled, S!ThreadsFollowLoad, S!P!NoDangling
<1> QED BY <1>1, <1>2 DEF S!Inv

\* The thread that next_thread picks is one of a process in the tree or of the
\* current one, and exists.
LEMMA NextThreadProps ==
    ASSUME S!Inv, NEW t \in S!next_thread
    PROVE  /\ t \in S!Threads /\ st[t[1]] = "live" /\ t[2] <= last_thread_id[t[1]]
           /\ t[1] \in ps_global_proc_set \/ t[1] = cur_proc
<1>1. CASE cur_thread # NULL /\ cur_thread[2] < last_thread_id[cur_proc]
  <2>1. t = <<cur_proc, cur_thread[2] + 1>>
    BY <1>1 DEF S!next_thread
  <2>2. /\ cur_thread \in S!Threads /\ cur_proc = cur_thread[1] /\ cur_proc \in Pcb
        /\ cur_thread[2] \in 1 .. MaxThreads /\ st[cur_proc] = "live"
        /\ last_thread_id[cur_proc] \in 0 .. MaxThreads
    BY <1>1, ZenonT(60) DEF S!Inv, S!TypeOK, S!RunsLiveProcess, S!Threads
  <2>3. cur_thread[2] + 1 \in 1 .. MaxThreads /\ cur_thread[2] + 1 <= last_thread_id[cur_proc]
    BY <1>1, <2>2, SchedAssumption
  <2> QED BY <2>1, <2>2, <2>3 DEF S!Threads
<1>2. CASE ~(cur_thread # NULL /\ cur_thread[2] < last_thread_id[cur_proc])
  <2>1. PICK q \in ps_global_proc_set : t = <<q, 1>> /\ last_thread_id[q] > 0
    BY <1>2 DEF S!next_thread
  <2>2. q \in Pcb /\ st[q] = "live"
    BY <2>1 DEF S!Inv, S!P!NoDangling
  <2>3. last_thread_id[q] \in 0 .. MaxThreads
    BY <2>2, ZenonT(60) DEF S!Inv, S!TypeOK
  <2> QED BY <2>1, <2>2, <2>3, Bounds DEF S!Threads
<1> QED BY <1>1, <1>2

\* ps_exec in the thread that has the CPU preserves the invariant.
LEMMA ExecInv ==
    ASSUME S!Inv, NEW p \in Pcb,
           S!ps_alloc_pcb(p) \/ S!AllocFails(p) \/ S!Loaded(p) \/ S!LoadFails(p) \/ S!ps_create_proc(p)
             \/ S!NoSlot(p) \/ S!ps_add_thread(p)
    PROVE  S!Inv'
<1>0. /\ st \in [Pcb -> {"free", "loading", "loaded", "live"}] /\ ps_global_proc_set \subseteq Pcb
      /\ last_thread_id \in [Pcb -> 0 .. MaxThreads] /\ MaxThreads \in Nat /\ 1 <= MaxThreads
      /\ owner \in [Pcb -> S!Threads \cup {NULL}] /\ cur_thread \in S!Threads \cup {NULL}
  BY Bounds, ZenonT(60) DEF S!Inv, S!TypeOK
<1>1. UNCHANGED S!cpu /\ fault' \in {"none", "no init", "no thread"}
      /\ UNCHANGED S!timer
  BY ZenonT(60) DEF S!ps_alloc_pcb, S!AllocFails, S!Loaded, S!LoadFails, S!ps_create_proc, S!NoSlot, S!ps_add_thread,
     S!Inv, S!TypeOK
<1>2. \/ /\ st[p] = "free" /\ st' = [st EXCEPT ![p] = "loading"]
         /\ last_thread_id' = [last_thread_id EXCEPT ![p] = 0]
         /\ UNCHANGED ps_global_proc_set
      \/ UNCHANGED <<st, last_thread_id, ps_global_proc_set>>
      \/ /\ st[p] = "loading" /\ st' = [st EXCEPT ![p] = "loaded"]
         /\ last_thread_id' = [last_thread_id EXCEPT ![p] = last_thread_id[p] + 1]
         /\ UNCHANGED ps_global_proc_set
      \/ /\ st[p] \in {"loading", "loaded"} /\ st' = [st EXCEPT ![p] = "free"]
         /\ ps_global_proc_set' \subseteq ps_global_proc_set /\ UNCHANGED last_thread_id
      \/ /\ st[p] = "loaded" /\ st' = [st EXCEPT ![p] = "live"]
         /\ ps_global_proc_set' = ps_global_proc_set \cup {p} /\ UNCHANGED last_thread_id
      \/ /\ st[p] = "live" /\ last_thread_id[p] < MaxThreads
         /\ last_thread_id' = [last_thread_id EXCEPT ![p] = last_thread_id[p] + 1]
         /\ UNCHANGED <<st, ps_global_proc_set>>
  BY ZenonT(60) DEF S!ps_alloc_pcb, S!AllocFails, S!Loaded, S!LoadFails, S!ps_create_proc, S!NoSlot,
     S!ps_add_thread, S!procs,
     S!P!ps_alloc_pcb, S!P!AllocFails, S!P!Loaded, S!P!LoadFails, S!P!ps_create_proc, S!P!NoSlot,
     S!P!ki_destroy_proc, S!P!table
<1>3. owner' \in [Pcb -> S!Threads \cup {NULL}]
  BY <1>0, ZenonT(60) DEF S!ps_alloc_pcb, S!AllocFails, S!Loaded, S!LoadFails, S!ps_create_proc, S!NoSlot, S!ps_add_thread
<1>4. /\ last_thread_id' \in [Pcb -> 0 .. MaxThreads]
      /\ st' \in [Pcb -> {"free", "loading", "loaded", "live"}]
      /\ \A q \in Pcb : st[q] = "live" => st'[q] = "live" /\ last_thread_id[q] <= last_thread_id'[q]
  BY <1>0, <1>2, SMTT(60) DEF S!Inv, S!ThreadsFollowLoad
<1>5. S!ThreadsFollowLoad'
  BY <1>0, <1>2, SMTT(60) DEF S!Inv, S!ThreadsFollowLoad
<1>6. ps_global_proc_set' \subseteq Pcb /\ S!P!NoDangling'
  BY <1>0, <1>2 DEF S!Inv, S!P!NoDangling
<1>7. S!RunsLiveProcess'
  <2> SUFFICES ASSUME cur_thread # NULL
               PROVE  /\ cur_thread[1] = cur_proc /\ st'[cur_proc] = "live"
                      /\ cur_thread[2] <= last_thread_id'[cur_proc]
    BY <1>1, ZenonT(60) DEF S!RunsLiveProcess, S!cpu
  <2>1. /\ cur_thread[1] = cur_proc /\ st[cur_proc] = "live" /\ cur_proc \in Pcb
        /\ cur_thread[2] <= last_thread_id[cur_proc] /\ cur_thread[2] \in Nat
    BY <1>0 DEF S!Inv, S!RunsLiveProcess, S!Threads
  <2> QED BY <1>0, <1>4, <2>1
<1>8. S!OneScheduled' /\ S!TypeOK'
  BY <1>1, <1>3, <1>4, ZenonT(60) DEF S!Inv, S!OneScheduled, S!TypeOK, S!cpu, S!timer
<1> QED BY <1>4, <1>5, <1>6, <1>7, <1>8 DEF S!Inv

\* The timer interrupt, the timer and the yield preserve the invariant.
LEMMA CpuInv ==
    ASSUME S!Inv, S!hn_isr_timer \/ S!Expire \/ S!kh_enter_sched \/ S!kh_yield_cur_thread \/ S!StopTimer
    PROVE  S!Inv'
<1>1. UNCHANGED S!loads
  BY ZenonT(60) DEF S!hn_isr_timer, S!Expire, S!kh_enter_sched, S!kh_yield_cur_thread, S!StopTimer
<1>2. /\ S!ThreadsFollowLoad' /\ S!P!NoDangling' /\ ps_global_proc_set' \subseteq Pcb
      /\ st' \in [Pcb -> {"free", "loading", "loaded", "live"}]
  BY <1>1 DEF S!loads, S!procs, S!Inv, S!ThreadsFollowLoad, S!P!NoDangling
<1>3. S!TypeOK' /\ S!RunsLiveProcess' /\ S!OneScheduled'
  <2>0. /\ cur_thread \in S!Threads \cup {NULL} /\ scheduled \subseteq S!Threads
        /\ yielding \subseteq S!Threads /\ scheduled \subseteq {cur_thread}
    BY ZenonT(60) DEF S!Inv, S!TypeOK, S!OneScheduled
  <2>1. CASE S!hn_isr_timer /\ S!next_thread # {}
    <3>1. PICK t \in S!next_thread : /\ cur_proc' = t[1] /\ cur_thread' = t
                                   /\ scheduled' = (scheduled \ {cur_thread}) \cup {t}
                                   /\ armed' = TRUE /\ pending' = FALSE
                                   /\ UNCHANGED <<S!loads, yielding, fault>>
      BY <2>1, ZenonT(60) DEF S!hn_isr_timer
    <3>2. /\ t \in S!Threads /\ t[1] \in Pcb /\ st[t[1]] = "live"
          /\ t[2] <= last_thread_id[t[1]]
      BY NextThreadProps DEF S!Threads
    <3>3. S!OneScheduled' /\ scheduled' \subseteq S!Threads
      BY <2>0, <3>1, <3>2 DEF S!OneScheduled
    <3>4. S!RunsLiveProcess'
      BY <3>1, <3>2 DEF S!RunsLiveProcess, S!loads, S!procs
    <3> QED BY <1>1, <3>1, <3>2, <3>3, <3>4, ZenonT(60) DEF S!Inv, S!TypeOK, S!loads
  <2>2. CASE S!hn_isr_timer /\ S!next_thread = {}
    <3>1. UNCHANGED <<S!loads, S!cpu, S!timer>> /\ fault' = "no thread"
      BY <2>2, ZenonT(60) DEF S!hn_isr_timer
    <3> QED BY <3>1, ZenonT(60) DEF S!Inv, S!TypeOK, S!RunsLiveProcess, S!OneScheduled, S!loads, S!procs, S!cpu, S!timer
  <2>3. CASE S!Expire \/ S!kh_enter_sched
    BY <2>3, ZenonT(60) DEF S!Expire, S!kh_enter_sched, S!Inv, S!TypeOK, S!RunsLiveProcess, S!OneScheduled,
       S!loads, S!procs, S!cpu
  <2>4. CASE S!kh_yield_cur_thread \/ S!StopTimer
    <3>1. /\ UNCHANGED <<S!loads, cur_proc, cur_thread, pending, fault>>
          /\ scheduled' \subseteq scheduled /\ yielding' \subseteq S!Threads /\ armed' \in BOOLEAN
      BY <2>0, <2>4, ZenonT(60) DEF S!kh_yield_cur_thread, S!StopTimer, S!timer, S!Inv, S!TypeOK
    <3> QED BY <2>0, <3>1, ZenonT(60) DEF S!Inv, S!TypeOK, S!RunsLiveProcess, S!OneScheduled, S!loads, S!procs
  <2> QED BY <2>1, <2>2, <2>3, <2>4
<1> QED BY <1>2, <1>3 DEF S!Inv

\* The invariant holds in every reachable state.
THEOREM SchedInvariance == S!Spec => []S!Inv
<1>1. S!Inv /\ [S!Next]_(S!vars) => S!Inv'
  <2> SUFFICES ASSUME S!Inv, [S!Next]_(S!vars) PROVE S!Inv'
    OBVIOUS
  <2>1. CASE UNCHANGED S!vars
    BY <2>1, ZenonT(60) DEF S!vars, S!loads, S!procs, S!cpu, S!timer, S!Inv, S!TypeOK, S!RunsLiveProcess, S!OneScheduled,
       S!ThreadsFollowLoad, S!P!NoDangling
  <2> QED BY <2>1, ExecInv, CpuInv, Zenon DEF S!Next
<1> QED BY <1>1, SchedInitInv, PTL DEF S!Spec

\* Only a live process, with its own thread, has the CPU.
THEOREM CpuRunsLiveProcess == S!Spec => []RunsLiveProcess
<1>1. S!Inv => RunsLiveProcess
  BY DEF S!Inv, RunsLiveProcess
<1> QED BY <1>1, SchedInvariance, PTL

\* kd_assert(next_thread) can fail only when the tree is empty.
THEOREM RegisteredProcessesHaveThreads == S!Spec => []S!RegisteredHaveThreads
<1>1. S!Inv => S!RegisteredHaveThreads
  BY ZenonT(60) DEF S!Inv, S!ThreadsFollowLoad, S!P!NoDangling, S!RegisteredHaveThreads
<1> QED BY <1>1, SchedInvariance, PTL

\* A process out of the tree does not get the CPU back, since next_thread looks
\* in the tree or stays with the process; and a yield that stopped the timer with
\* no interrupt pending keeps the CPU, since only the interrupt takes it away.
THEOREM CpuIsLostForGood == S!Spec => CpuLostForGood
<1> DEFINE Lost == \A p \in Pcb : st[p] = "live" /\ p \notin ps_global_proc_set /\ cur_proc # p
                                      => cur_proc' # p
           Kept == cur_thread # NULL /\ ~armed /\ ~pending =>
                      UNCHANGED <<cur_proc, cur_thread, armed, pending>>
<1>1. ASSUME S!Inv, S!Next PROVE Lost
  <2>1. CASE UNCHANGED cur_proc
    BY <2>1
  <2>2. CASE S!hn_isr_timer /\ cur_proc' # cur_proc
    <3>1. PICK t \in S!next_thread : cur_proc' = t[1]
      BY <2>2, ZenonT(60) DEF S!hn_isr_timer, S!cpu
    <3> QED BY <1>1, <2>2, <3>1, NextThreadProps
  <2>3. UNCHANGED cur_proc \/ S!hn_isr_timer
    BY <1>1, ZenonT(60) DEF S!Next, S!ps_alloc_pcb, S!AllocFails, S!Loaded, S!LoadFails, S!ps_create_proc, S!NoSlot,
       S!ps_add_thread, S!Expire, S!kh_enter_sched, S!kh_yield_cur_thread, S!StopTimer, S!cpu
  <2> QED BY <2>1, <2>2, <2>3
<1>2. ASSUME S!Inv, S!Next PROVE Kept
  <2> SUFFICES ASSUME cur_thread # NULL, armed = FALSE, pending = FALSE
               PROVE  UNCHANGED <<cur_proc, cur_thread, armed, pending>>
    BY <1>2, ZenonT(60) DEF S!Inv, S!TypeOK
  <2> QED BY <1>2, ZenonT(60) DEF S!Next, S!ps_alloc_pcb, S!AllocFails, S!Loaded, S!LoadFails, S!ps_create_proc, S!NoSlot,
             S!ps_add_thread, S!hn_isr_timer, S!Expire, S!kh_enter_sched, S!kh_yield_cur_thread, S!StopTimer,
             S!cpu, S!timer
<1>3. S!Inv /\ [S!Next]_(S!vars) => [Lost /\ Kept]_(S!vars)
  BY <1>1, <1>2, Zenon
<1> QED BY <1>3, SchedInvariance, PTL DEF S!Spec, CpuLostForGood, S!CpuLostForGood

\* The steps of Sched are steps of ProcTable or leave the table alone, as its
\* actions are made of those of ProcTable.
LEMMA TableSteps == S!Spec => Spec
<1>1. S!Init => Init
  BY Zenon DEF S!Init, S!P!Init, Init
<1>2. ASSUME NEW p \in Pcb
      PROVE  /\ S!P!ps_alloc_pcb(p) => ps_alloc_pcb(p)
             /\ S!P!AllocFails(p) => AllocFails(p)
             /\ S!P!Loaded(p) => Loaded(p)
             /\ S!P!LoadFails(p) => LoadFails(p)
             /\ S!P!ps_create_proc(p) => ps_create_proc(p)
             /\ S!P!NoSlot(p) => NoSlot(p)
  BY ZenonT(60) DEF S!P!ps_alloc_pcb, S!P!AllocFails, S!P!Loaded, S!P!LoadFails, S!P!ps_create_proc, S!P!NoSlot,
         S!P!ki_destroy_proc, S!P!find, S!P!Unused, S!P!Least, S!P!Greatest, S!P!table,
         ps_alloc_pcb, AllocFails, Loaded, LoadFails, ps_create_proc, NoSlot,
         ki_destroy_proc, find, Unused, Least, Greatest, table
<1>3. [S!Next]_(S!vars) => [Next]_vars
  <2> SUFFICES ASSUME [S!Next]_(S!vars) PROVE Next \/ UNCHANGED vars
    OBVIOUS
  <2>1. CASE UNCHANGED S!vars
    BY <2>1, Zenon DEF S!vars, S!loads, S!procs, vars, table
  <2>2. CASE panic = "none" /\ \E p \in Pcb : S!ps_alloc_pcb(p) \/ S!AllocFails(p) \/ S!Loaded(p)
                                   \/ S!LoadFails(p) \/ S!ps_create_proc(p) \/ S!NoSlot(p)
    BY <1>2, <2>2, ZenonT(60) DEF S!ps_alloc_pcb, S!AllocFails, S!Loaded, S!LoadFails, S!ps_create_proc, S!NoSlot, Next
  <2>3. CASE (\E p \in Pcb : S!ps_add_thread(p)) \/ S!hn_isr_timer \/ S!Expire \/ S!kh_enter_sched
                \/ S!kh_yield_cur_thread \/ S!StopTimer
    BY <2>3, ZenonT(60) DEF S!ps_add_thread, S!hn_isr_timer, S!Expire, S!kh_enter_sched, S!kh_yield_cur_thread,
       S!StopTimer, S!loads, S!procs, vars, table
  <2> QED BY <2>1, <2>2, <2>3 DEF S!Next
<1> QED BY <1>1, <1>3, PTL DEF S!Spec, Spec

\* So what is proved of the process table by itself holds under the scheduler,
\* wherever the interrupt cuts into ps_exec.
THEOREM TableKeptUnderSchedule == S!Spec => []Inv
BY TableSteps, Invariance, PTL
=============================================================================
