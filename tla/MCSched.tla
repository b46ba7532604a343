------------------------------ MODULE MCSched -------------------------------
(***************************************************************************)
(* The scheduler over the process table, and the table by itself.          *)
(***************************************************************************)
EXTENDS ProcTable

CONSTANTS MaxThreads, NULL

ASSUME SchedAssumption == MaxThreads \in Nat \ {0} /\ NULL \notin Pcb

VARIABLES last_thread_id, owner, cur_proc, cur_thread, scheduled, yielding, armed, pending, fault

S == INSTANCE Sched

SchedSpec == S!FairSpec

\* The address space and the thread on the CPU belong together
\* (sched.cc:85-93), and the process is one that was created and never freed:
\* no PCB that a thread is still loading, or that a failed ps_exec released,
\* gets the CPU.
RunsLiveProcess == S!RunsLiveProcess

\* What takes the CPU away for good: a process that a failing ps_exec took out of
\* the tree (proc.cc:50) does not get it again once it has lost it, and no other
\* thread gets it from one whose yield stopped the timer (hal proc.cc:18) with
\* no interrupt pending.
CpuLostForGood == S!CpuLostForGood

\* Every thread of every process in the tree gets the CPU, again and again,
\* unless its process is taken out of the tree, the kernel stops or a yield
\* stops the timer.
EveryThreadRuns == S!EveryThreadRuns
=============================================================================
