------------------------------- MODULE Mutex --------------------------------
(***************************************************************************)
(* ps_mutex_t of kernel/ps/mutex.cc, one action per memory access, used by *)
(* threads through MutexGuard or ps_try_lock_mutex.  The heap (kima), the  *)
(* module list and the device registries are guarded this way.             *)
(***************************************************************************)
EXTENDS Spinlock

CONSTANTS Thread, NULL

VARIABLES lock_thread, spinlock,  \* ps_mutex_t
          pos,         \* where each thread is
          overlapped,  \* the threads that were not alone at some time since
                       \* they asked for the lock (history)
          failed       \* a kd_dbgcheck failed

vars == <<lock_thread, spinlock, pos, overlapped, failed>>

Init == /\ lock_thread = NULL
        /\ spinlock = HAL_SPINLOCK_UNLOCKED
        /\ pos = [t \in Thread |-> "idle"]
        /\ overlapped = {}
        /\ failed = FALSE

\* The threads between their call to lock and the end of unlock.
Inside == {t \in Thread : pos[t] \in {"own", "in", "unlock"}}

Goto(t, l) ==
    /\ pos' = [pos EXCEPT ![t] = l]
    /\ overlapped' = IF l \in {"idle", "try"} THEN overlapped \ {t}
                     ELSE IF Inside \ {t} = {} THEN overlapped
                     ELSE overlapped \cup Inside \cup {t}

-----------------------------------------------------------------------------
(* The calls.                                                              *)

Call(t) == /\ pos[t] = "idle"
           /\ Goto(t, "try")
           /\ UNCHANGED <<lock_thread, spinlock, failed>>

\* A turn of the loop in ps_lock_mutex, or ps_try_lock_mutex.  A turn that
\* fails would yield, or return false, and change nothing.
TryLock(t) ==
    LET attempt == hal_try_lock_spinlock(spinlock)
    IN  /\ pos[t] = "try" /\ attempt.result
        /\ spinlock' = attempt.byte
        /\ Goto(t, "own")
        /\ UNCHANGED <<lock_thread, failed>>

\* Mutant: ps_lock_mutex records the owner only the first time.
OwnOnce(t) == /\ pos[t] = "own"
              /\ lock_thread' = IF lock_thread = NULL THEN t ELSE lock_thread
              /\ Goto(t, "in")
              /\ UNCHANGED <<spinlock, failed>>

Own(t) == /\ pos[t] = "own"
          /\ lock_thread' = t
          /\ Goto(t, "in")
          /\ UNCHANGED <<spinlock, failed>>

\* The two checks of ps_unlock_mutex.
Check(t) == /\ pos[t] = "in"
            /\ failed' = (lock_thread # t \/ spinlock # HAL_SPINLOCK_LOCKED)
            /\ Goto(t, "unlock")
            /\ UNCHANGED <<lock_thread, spinlock>>

Unlock(t) == /\ pos[t] = "unlock"
             /\ spinlock' = hal_unlock_spinlock(spinlock)
             /\ Goto(t, "idle")
             /\ UNCHANGED <<lock_thread, failed>>

Next == /\ ~failed
        /\ \E t \in Thread : Call(t) \/ TryLock(t) \/ Own(t) \/ Check(t) \/ Unlock(t)

Spec == Init /\ [][Next]_vars

-----------------------------------------------------------------------------
(* Properties.                                                             *)

\* The values of the mutex and of the threads' positions.
TypeOK == /\ lock_thread \in Thread \cup {NULL}
          /\ spinlock \in {0, 1}
          /\ pos \in [Thread -> {"idle", "try", "own", "in", "unlock"}]
          /\ overlapped \subseteq Thread /\ failed \in BOOLEAN

\* The checks of ps_unlock_mutex (mutex.cc:27-28) fail only for a thread that
\* shared the section with another one: a thread that was alone from its lock
\* to its unlock is never stopped, whatever owner earlier users left behind in
\* lock_thread.
PanicsOnlyOnOverlap == failed => overlapped # {}
=============================================================================
