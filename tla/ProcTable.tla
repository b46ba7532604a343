----------------------------- MODULE ProcTable ------------------------------
(***************************************************************************)
(* The process table of kernel/ps/proc.cc as ps_exec (kernel/ps/exec.cc)   *)
(* and ki_destroy_proc use it.  Several threads may be inside ps_exec at   *)
(* once, each with a PCB of its own; the sections under                    *)
(* ps_global_proc_set_mutex are single steps (RwMutex shows that a second  *)
(* writer never enters them).                                              *)
(***************************************************************************)
EXTENDS Integers

CONSTANTS Pcb,             \* addresses of PCBs
          PS_PROC_ID_MAX   \* UINT32_MAX in the code

ASSUME PidAssumption == PS_PROC_ID_MAX \in Nat \ {0}

VARIABLES st,                  \* a PCB is "free", "loading", "loaded" or "live"
          rb_value,            \* its PID, the key in ps_global_proc_set
          ps_global_proc_set,  \* the PCBs linked in the tree
          ki_min_free_pid, ki_cur_max_pid,
          panic                \* "none", or what stopped the kernel

table == <<rb_value, ps_global_proc_set, ki_min_free_pid, ki_cur_max_pid>>
vars == <<st, table, panic>>

Pid == 0 .. PS_PROC_ID_MAX - 1

Init == /\ st = [p \in Pcb |-> "free"]
        /\ rb_value = [p \in Pcb |-> 0]
        /\ ps_global_proc_set = {}
        /\ ki_min_free_pid = 0
        /\ ki_cur_max_pid = 0
        /\ panic = "none"

-----------------------------------------------------------------------------
(* The tree.                                                               *)

\* ps_global_proc_set.find: at most one node.
find(pid) == {q \in ps_global_proc_set : rb_value[q] = pid}

Least(S) == CHOOSE i \in S : \A j \in S : i <= j
Greatest(S) == CHOOSE i \in S : \A j \in S : i >= j

\* The PIDs of from..to-1 that no node has.
Unused(from, to) == {i \in from .. to - 1 : find(i) = {}}

-----------------------------------------------------------------------------
(* The steps of ps_exec.                                                   *)

\* The PCB is value-initialised: its PID reads 0 until ps_create_proc.
ps_alloc_pcb(p) ==
    /\ st[p] = "free"
    /\ st' = [st EXCEPT ![p] = "loading"]
    /\ rb_value' = [rb_value EXCEPT ![p] = 0]
    /\ UNCHANGED <<ps_global_proc_set, ki_min_free_pid, ki_cur_max_pid, panic>>

\* Out of memory in ps_alloc_pcb frees the PCB and then lets the guard destroy
\* it again, which kima_free refuses.
AllocFails(p) == /\ st[p] = "free"
                 /\ panic' = "double free"
                 /\ UNCHANGED <<st, table>>

\* load_exec adds the main thread as its last step.
Loaded(p) == /\ st[p] = "loading"
             /\ st' = [st EXCEPT ![p] = "loaded"]
             /\ UNCHANGED <<table, panic>>

\* Mutant: the hint is not lowered.
DestroyKeepsHint(p) ==
    LET node == find(rb_value[p])
        left == {rb_value[q] : q \in ps_global_proc_set \ node}
        below == {i \in left : i <= ki_cur_max_pid}
    IN  /\ ps_global_proc_set' = ps_global_proc_set \ node
        /\ UNCHANGED ki_min_free_pid
        /\ ki_cur_max_pid' =
              IF node # {} /\ rb_value[p] = ki_cur_max_pid
              THEN IF below = {} THEN 0 ELSE Greatest(below) ELSE ki_cur_max_pid
        /\ panic' = IF st[p] = "loading" THEN "none" ELSE "double free"
        /\ st' = [st EXCEPT ![p] = "free"]
        /\ UNCHANGED rb_value

\* Mutant: the node taken out is the one with the largest PID.
DestroyRemovesMax(p) ==
    LET node == find(ki_cur_max_pid)
        left == {rb_value[q] : q \in ps_global_proc_set \ node}
    IN  /\ ps_global_proc_set' = ps_global_proc_set \ node
        /\ UNCHANGED ki_min_free_pid
        /\ ki_cur_max_pid' = IF left = {} THEN 0 ELSE Greatest(left)
        /\ panic' = IF st[p] = "loading" THEN "none" ELSE "double free"
        /\ st' = [st EXCEPT ![p] = "free"]
        /\ UNCHANGED rb_value

\* Removes whatever node has the PID of p.  A PCB that has its main thread
\* does not survive thread_set.clear: ki_destroy_thread frees the TCB twice.
ki_destroy_proc(p) ==
    LET node == find(rb_value[p])
        left == {rb_value[q] : q \in ps_global_proc_set \ node}
        below == {i \in left : i <= ki_cur_max_pid}
    IN  /\ ps_global_proc_set' = ps_global_proc_set \ node
        /\ ki_min_free_pid' =
              IF node # {} /\ rb_value[p] < ki_min_free_pid THEN rb_value[p] ELSE ki_min_free_pid
        /\ ki_cur_max_pid' =
              IF node # {} /\ rb_value[p] = ki_cur_max_pid
              THEN IF below = {} THEN 0 ELSE Greatest(below) ELSE ki_cur_max_pid
        /\ panic' = IF st[p] = "loading" THEN "none" ELSE "double free"
        /\ st' = [st EXCEPT ![p] = "free"]
        /\ UNCHANGED rb_value

\* Any failure of load_exec: destroy_pcb_guard runs.
LoadFails(p) == st[p] = "loading" /\ ki_destroy_proc(p)

\* ps_create_proc when a PID is free: the first one from the hint on, or else
\* the first one below it.
ps_create_proc(p) ==
    LET ahead == Unused(ki_min_free_pid, PS_PROC_ID_MAX)
        pid == Least(IF ahead # {} THEN ahead ELSE Unused(0, ki_min_free_pid))
    IN  /\ st[p] = "loaded" /\ Unused(0, PS_PROC_ID_MAX) # {}
        /\ rb_value' = [rb_value EXCEPT ![p] = pid]
        /\ ki_min_free_pid' = pid + 1
        /\ ki_cur_max_pid' = IF pid >= ki_cur_max_pid THEN pid ELSE ki_cur_max_pid
        /\ IF find(pid) # {}
           THEN panic' = "insert" /\ UNCHANGED <<st, ps_global_proc_set>>
           ELSE /\ ps_global_proc_set' = ps_global_proc_set \cup {p}
                /\ st' = [st EXCEPT ![p] = "live"]
                /\ UNCHANGED panic

\* KM_RESULT_NO_SLOT: the PCB has PS_PROC_ID_MAX for a PID, which no node has,
\* and a thread when the guard destroys it.
NoSlot(p) == /\ st[p] = "loaded" /\ Unused(0, PS_PROC_ID_MAX) = {}
             /\ rb_value' = [rb_value EXCEPT ![p] = PS_PROC_ID_MAX]
             /\ st' = [st EXCEPT ![p] = "free"]
             /\ panic' = "double free"
             /\ UNCHANGED <<ps_global_proc_set, ki_min_free_pid, ki_cur_max_pid>>

Next == /\ panic = "none"
        /\ \E p \in Pcb : \/ ps_alloc_pcb(p) \/ AllocFails(p) \/ Loaded(p) \/ LoadFails(p)
                          \/ ps_create_proc(p) \/ NoSlot(p)

Spec == Init /\ [][Next]_vars

-----------------------------------------------------------------------------
(* Properties.                                                             *)

\* The values of the table's variables.
TypeOK == /\ st \in [Pcb -> {"free", "loading", "loaded", "live"}]
          /\ rb_value \in [Pcb -> Pid \cup {PS_PROC_ID_MAX}]
          /\ ps_global_proc_set \subseteq Pcb
          /\ ki_min_free_pid \in Pid \cup {PS_PROC_ID_MAX}
          /\ ki_cur_max_pid \in Pid
          /\ panic \in {"none", "double free", "insert"}

\* A node of the tree is a live PCB: ps_lookup_pcb and the scheduler never get
\* a PCB that was freed or is still being loaded.
NoDangling == \A p \in ps_global_proc_set : st[p] = "live"

\* No two nodes share a PID, and every node has one.
PidsUnique ==
    /\ \A p \in ps_global_proc_set : rb_value[p] \in Pid
    /\ \A p, q \in ps_global_proc_set : rb_value[p] = rb_value[q] => p = q

\* A PCB that is being loaded has PID 0.
LoadingPidZero == \A p \in Pcb : st[p] \in {"loading", "loaded"} => rb_value[p] = 0

\* Every PID below the hint is taken, whatever sequence of creations
\* and failed loads came before, so searching from ki_min_free_pid on
\* (proc.cc:85) misses no free PID and the second loop (proc.cc:97) finds none.
HintExact == \A i \in 0 .. ki_min_free_pid - 1 : find(i) # {}

\* ki_cur_max_pid is the largest PID in the tree, 0 for an empty tree.
MaxExact ==
    IF ps_global_proc_set = {} THEN ki_cur_max_pid = 0
    ELSE /\ \E p \in ps_global_proc_set : rb_value[p] = ki_cur_max_pid
         /\ \A p \in ps_global_proc_set : rb_value[p] <= ki_cur_max_pid

\* The check at proc.cc:113 never fails: a PID that is handed out is not in the
\* tree.
InsertSucceeds == panic # "insert"

\* A live process that the tree has lost is one that had PID 0: a failing
\* ps_exec takes away no other process.
OnlyPidZeroLost ==
    \A p \in Pcb : st[p] = "live" /\ p \notin ps_global_proc_set => rb_value[p] = 0

\* The inductive invariant.
Inv == TypeOK /\ NoDangling /\ PidsUnique /\ LoadingPidZero /\ HintExact /\ MaxExact
              /\ InsertSucceeds /\ OnlyPidZeroLost

\* A new process gets the lowest PID that is free.
LowestPid ==
    [][\A p \in Pcb : p \in ps_global_proc_set' /\ p \notin ps_global_proc_set =>
           \A i \in 0 .. rb_value'[p] - 1 : find(i) # {}]_vars

\* proc.cc:48: a PCB is only taken out of the tree when it is the one destroyed,
\* so a live process stays in the tree.
LiveAreRegistered == \A p \in Pcb : st[p] = "live" => p \in ps_global_proc_set
=============================================================================
