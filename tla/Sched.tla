-------------------------------- MODULE Sched -------------------------------
(***************************************************************************)
(* The simploop scheduler (kernel/ps/sched/simploop.c) driven by the LAPIC *)
(* timer interrupt (hal/x86_64/ps/sched.cc), over the process table that   *)
(* the running threads change with ps_exec.  There is one CPU, the one     *)
(* that boots.  The interrupt comes between any two steps of a thread; a   *)
(* step under LocalIrqLock or of the process table is not divided.         *)
(***************************************************************************)
EXTENDS Integers

CONSTANTS Pcb, PS_PROC_ID_MAX,
          MaxThreads,   \* bound on the threads of a process
          NULL

VARIABLES st, rb_value, ps_global_proc_set, ki_min_free_pid, ki_cur_max_pid, panic,
          last_thread_id,        \* thread_set of a PCB holds the ids 1..last_thread_id
          owner,                 \* the thread that is loading a PCB, NULL for kernel_main
          cur_proc, cur_thread,  \* ps_cur_proc_per_cpu[0], ps_cur_thread_per_cpu[0]
          scheduled,             \* the threads whose flag is set
          yielding,              \* the threads inside kh_yield_cur_thread
          armed,                 \* the timer counts: INITIAL_COUNT is not zero
          pending,               \* it expired and was not served
          fault                  \* "none", or what stopped the kernel here

P == INSTANCE ProcTable

procs == <<st, rb_value, ps_global_proc_set, ki_min_free_pid, ki_cur_max_pid, panic>>
loads == <<procs, last_thread_id, owner>>
cpu == <<cur_proc, cur_thread, scheduled, yielding>>
timer == <<armed, pending>>
vars == <<loads, cpu, timer, fault>>

\* A thread is its process and its id.
Threads == Pcb \X (1 .. MaxThreads)

\* kernel_main runs with interrupts off and no current thread.
Init == /\ P!Init
        /\ last_thread_id = [p \in Pcb |-> 0]
        /\ owner = [p \in Pcb |-> NULL]
        /\ cur_proc = NULL /\ cur_thread = NULL
        /\ scheduled = {} /\ yielding = {}
        /\ armed = FALSE /\ pending = FALSE
        /\ fault = "none"

-----------------------------------------------------------------------------
(* What the code that has the CPU does: ps_exec, called by kernel_main for *)
(* the init process and by sysent_exec_child in any thread.                *)

\* The thread that has the CPU is in ps_exec, after ps_alloc_pcb gave it p.
Loading(p) == st[p] \in {"loading", "loaded"} /\ owner[p] = cur_thread /\ cur_thread \notin yielding

ps_alloc_pcb(p) ==
    /\ \A q \in Pcb : ~Loading(q)
    /\ cur_thread \notin yielding
    /\ cur_thread = NULL => ~armed /\ ps_global_proc_set = {}
    /\ P!ps_alloc_pcb(p) /\ owner' = [owner EXCEPT ![p] = cur_thread]
                         /\ last_thread_id' = [last_thread_id EXCEPT ![p] = 0]
    /\ UNCHANGED <<cpu, timer, fault>>

AllocFails(p) ==
    /\ \A q \in Pcb : ~Loading(q)
    /\ cur_thread \notin yielding
    /\ cur_thread = NULL => ~armed /\ ps_global_proc_set = {}
    /\ P!AllocFails(p)
    /\ UNCHANGED <<last_thread_id, owner, cpu, timer, fault>>

\* load_exec ends with ps_add_thread for the main thread.
Loaded(p) == /\ Loading(p) /\ P!Loaded(p)
             /\ last_thread_id' = [last_thread_id EXCEPT ![p] = @ + 1]
             /\ UNCHANGED <<owner, cpu, timer, fault>>

\* kernel_main panics when the init process cannot be started.
LoadFails(p) == /\ Loading(p) /\ P!LoadFails(p)
                /\ fault' = IF cur_thread = NULL THEN "no init" ELSE "none"
                /\ UNCHANGED <<last_thread_id, owner, cpu, timer>>

ps_create_proc(p) == /\ Loading(p) /\ P!ps_create_proc(p)
                     /\ UNCHANGED <<last_thread_id, owner, cpu, timer, fault>>

NoSlot(p) == /\ Loading(p) /\ P!NoSlot(p)
             /\ UNCHANGED <<last_thread_id, owner, cpu, timer, fault>>

\* A further thread, which the kernel interface allows and no system call uses.
ps_add_thread(p) ==
    /\ cur_thread # NULL /\ cur_thread \notin yielding
    /\ st[p] = "live" /\ last_thread_id[p] < MaxThreads
    /\ last_thread_id' = [last_thread_id EXCEPT ![p] = @ + 1]
    /\ UNCHANGED <<procs, owner, cpu, timer, fault>>

-----------------------------------------------------------------------------
(* The timer and the scheduler.                                            *)

\* Mutant: the last thread of a process is followed by its first one.
NextThreadStays ==
    LET first == {q \in ps_global_proc_set :
                     \A r \in ps_global_proc_set : rb_value[q] <= rb_value[r]}
    IN  IF cur_thread # NULL
        THEN {<<cur_proc, IF cur_thread[2] < last_thread_id[cur_proc] THEN cur_thread[2] + 1 ELSE 1>>}
        ELSE {<<q, 1>> : q \in first}

\* Mutant: a process that is taken out of the tree stays linked there.
NextThreadLinked ==
    LET linked == {q \in Pcb : st[q] = "live"}
        after == {q \in linked : rb_value[q] > rb_value[cur_proc]}
        ring == IF cur_proc = NULL \/ after = {} THEN linked ELSE after
    IN  IF cur_thread # NULL /\ cur_thread[2] < last_thread_id[cur_proc]
        THEN {<<cur_proc, cur_thread[2] + 1>>}
        ELSE {<<q, 1>> : q \in {r \in ring : \A s \in ring : rb_value[r] <= rb_value[s]}}

\* At most one thread: the next one of the process or the first one of the
\* next process, which is the first process after the last one, and after one
\* that is no longer in the tree since its node has no links.  None when that
\* process has no thread, or when the tree is empty and the code goes on with the
\* thread set of a null process.
next_thread ==
    LET after == IF cur_proc \in ps_global_proc_set
                 THEN {q \in ps_global_proc_set : rb_value[q] > rb_value[cur_proc]} ELSE {}
        ring == IF after = {} THEN ps_global_proc_set ELSE after
    IN  IF cur_thread # NULL /\ cur_thread[2] < last_thread_id[cur_proc]
        THEN {<<cur_proc, cur_thread[2] + 1>>}
        ELSE {<<q, 1>> : q \in {r \in ring : /\ \A s \in ring : rb_value[r] <= rb_value[s]
                                             /\ last_thread_id[r] > 0}}

\* Mutant: the current process is only set together with the first thread.
IsrKeepsProc ==
    /\ pending
    /\ \E t \in next_thread :
          /\ cur_proc' = IF cur_proc = NULL THEN t[1] ELSE cur_proc
          /\ cur_thread' = t
          /\ scheduled' = (scheduled \ {cur_thread}) \cup {t}
          /\ armed' = TRUE /\ pending' = FALSE
          /\ UNCHANGED <<loads, yielding, fault>>

\* hn_isr_timer_impl, up to the return to the next thread.  The context of
\* kernel_main is not kept.
hn_isr_timer ==
    /\ pending
    /\ \/ \E t \in next_thread :
             /\ cur_proc' = t[1] /\ cur_thread' = t
             /\ scheduled' = (scheduled \ {cur_thread}) \cup {t}
             /\ armed' = TRUE /\ pending' = FALSE
             /\ UNCHANGED <<loads, yielding, fault>>
       \/ /\ next_thread = {}
          /\ fault' = "no thread"
          /\ UNCHANGED <<loads, cpu, timer>>

\* The timer of the LAPIC expires and starts again.
Expire == /\ armed /\ ~pending
          /\ pending' = TRUE
          /\ UNCHANGED <<loads, cpu, armed, fault>>

kh_enter_sched ==
    /\ cur_thread = NULL /\ ~armed /\ ps_global_proc_set # {}
    /\ armed' = TRUE
    /\ UNCHANGED <<loads, cpu, pending, fault>>

kh_yield_cur_thread ==
    /\ cur_thread # NULL /\ cur_thread \notin yielding
    /\ scheduled' = scheduled \ {cur_thread}
    /\ yielding' = yielding \cup {cur_thread}
    /\ UNCHANGED <<loads, cur_proc, cur_thread, timer, fault>>

\* INITIAL_COUNT = 0, and the return.  The loop before the return reads a flag
\* that the interrupt may write: the build may fold it away or spin, and a
\* thread that spins is one that takes no step.
StopTimer ==
    /\ cur_thread \in yielding
    /\ armed' = FALSE
    /\ yielding' = yielding \ {cur_thread}
    /\ UNCHANGED <<loads, cur_proc, cur_thread, scheduled, pending, fault>>

Next == /\ panic = "none" /\ fault = "none"
        /\ \/ \E p \in Pcb : \/ ps_alloc_pcb(p) \/ AllocFails(p) \/ Loaded(p) \/ LoadFails(p)
                             \/ ps_create_proc(p) \/ NoSlot(p) \/ ps_add_thread(p)
           \/ hn_isr_timer \/ Expire \/ kh_enter_sched \/ kh_yield_cur_thread \/ StopTimer

\* kernel_main goes on to kh_enter_sched; the timer is periodic and interrupts
\* are enabled in every thread.
Fairness == WF_vars(kh_enter_sched) /\ WF_vars(Expire) /\ WF_vars(hn_isr_timer)

Spec == Init /\ [][Next]_vars

FairSpec == Spec /\ Fairness

-----------------------------------------------------------------------------
(* Properties.                                                             *)

\* The values of the scheduler's variables.
TypeOK == /\ last_thread_id \in [Pcb -> 0 .. MaxThreads]
          /\ owner \in [Pcb -> Threads \cup {NULL}]
          /\ cur_proc \in Pcb \cup {NULL} /\ cur_thread \in Threads \cup {NULL}
          /\ scheduled \subseteq Threads /\ yielding \subseteq Threads
          /\ armed \in BOOLEAN /\ pending \in BOOLEAN
          /\ fault \in {"none", "no init", "no thread"}

\* The address space and the thread on the CPU belong together
\* (sched.cc:85-93), and the process is one that was created and never freed:
\* no PCB that a thread is still loading, or that a failed ps_exec released,
\* gets the CPU.
RunsLiveProcess ==
    cur_thread # NULL => /\ cur_thread[1] = cur_proc
                         /\ st[cur_proc] = "live"
                         /\ cur_thread[2] <= last_thread_id[cur_proc]

\* The flag that kh_yield_cur_thread waits on (proc.cc:19) is set for no thread
\* but the one on the CPU, whatever yields the interrupt cuts in two.
OneScheduled == scheduled \subseteq {cur_thread}

\* A process in the tree has a thread, since ps_exec registers it after
\* load_exec: kd_assert(next_thread) at sched.cc:81 fails for no process.
RegisteredHaveThreads == \A p \in ps_global_proc_set : last_thread_id[p] > 0

\* A PCB gets its first thread with the end of load_exec.
ThreadsFollowLoad == \A p \in Pcb : /\ st[p] = "loading" => last_thread_id[p] = 0
                                    /\ st[p] \in {"loaded", "live"} => last_thread_id[p] > 0

\* The inductive invariant.
Inv == /\ TypeOK /\ RunsLiveProcess /\ OneScheduled /\ ThreadsFollowLoad
       /\ st \in [Pcb -> {"free", "loading", "loaded", "live"}]
       /\ ps_global_proc_set \subseteq Pcb /\ P!NoDangling

\* What takes the CPU away for good: a process that a failing ps_exec took out of
\* the tree (proc.cc:50) does not get it again once it has lost it, and no other
\* thread gets it from one whose yield stopped the timer (hal proc.cc:18) with
\* no interrupt pending.
CpuLostForGood ==
    [][/\ \A p \in Pcb : st[p] = "live" /\ p \notin ps_global_proc_set /\ cur_proc # p
                              => cur_proc' # p
       /\ cur_thread # NULL /\ ~armed /\ ~pending =>
             UNCHANGED <<cur_proc, cur_thread, armed, pending>>]_vars

Stopped == \/ panic # "none" \/ fault # "none"
           \/ cur_thread # NULL /\ ~armed /\ ~pending

\* Every thread of every process in the tree gets the CPU, again and again,
\* unless its process is taken out of the tree, the kernel stops or a yield
\* stops the timer.
EveryThreadRuns ==
    \A p \in Pcb : \A i \in 1 .. MaxThreads :
        (p \in ps_global_proc_set /\ i <= last_thread_id[p])
            ~> (cur_thread = <<p, i>> \/ p \notin ps_global_proc_set \/ Stopped)
=============================================================================
