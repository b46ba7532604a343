------------------------------ MODULE RecMutex ------------------------------
(***************************************************************************)
(* ps_rec_mutex_t of kernel/ps/mutex.cc and the nested RecMutexGuards of   *)
(* include/pbos/ps/mutex.hh that the device manager and the bus code put   *)
(* on it.  One action per memory access or check; ++ and -- load and store *)
(* apart.                                                                  *)
(***************************************************************************)
EXTENDS Sequences, Spinlock

CONSTANTS Thread, NULL,
          MaxDepth,  \* bound on the guards a thread nests
          SIZE_MOD   \* 2^w for the w bits of a size_t

VARIABLES lock_thread, lock_times, spinlock,  \* ps_rec_mutex_t
          pos,         \* where each thread is; "run" between guard operations
          guards,      \* the _lock_times of its guards, innermost last
          temp,        \* the lock_times it has loaded, 0 when none
          overlapped,  \* two threads held guards at the same time (history)
          failed       \* a kd_dbgcheck failed

mutex == <<lock_thread, lock_times, spinlock>>
vars == <<mutex, pos, guards, temp, overlapped, failed>>

Init == /\ lock_thread = NULL /\ lock_times = 0 /\ spinlock = HAL_SPINLOCK_UNLOCKED
        /\ pos = [t \in Thread |-> "run"]
        /\ guards = [t \in Thread |-> <<>>]
        /\ temp = [t \in Thread |-> 0]
        /\ overlapped = FALSE
        /\ failed = FALSE

Inside == {t \in Thread : pos[t] # "run" \/ guards[t] # <<>>}

Goto(t, l) == pos' = [pos EXCEPT ![t] = l]

-----------------------------------------------------------------------------
(* RecMutexGuard(): ps_lock_rec_mutex, then ps_get_rec_mutex_lock_times.   *)

\* The spinlock always lets the thread in, so the branches of the loop for a
\* lock that is taken are never reached.
Lock(t) ==
    LET attempt == hal_try_lock_spinlock(spinlock)
    IN  /\ pos[t] = "run" /\ Len(guards[t]) < MaxDepth
        /\ attempt.result
        /\ spinlock' = attempt.byte
        /\ Goto(t, "own")
        /\ overlapped' = (overlapped \/ Inside \ {t} # {})
        /\ UNCHANGED <<lock_thread, lock_times, guards, temp, failed>>

Own(t) == /\ pos[t] = "own"
          /\ lock_thread' = t
          /\ Goto(t, "load")
          /\ UNCHANGED <<lock_times, spinlock, guards, temp, overlapped, failed>>

Load(t) == /\ pos[t] \in {"load", "unload"}
           /\ temp' = [temp EXCEPT ![t] = lock_times]
           /\ Goto(t, IF pos[t] = "load" THEN "inc" ELSE "dec")
           /\ UNCHANGED <<mutex, guards, overlapped, failed>>

Increment(t) ==
    /\ pos[t] = "inc"
    /\ lock_times' = (temp[t] + 1) % SIZE_MOD
    /\ Goto(t, "got")
    /\ temp' = [temp EXCEPT ![t] = 0]
    /\ UNCHANGED <<lock_thread, spinlock, guards, overlapped, failed>>

Constructed(t) ==
    /\ pos[t] = "got"
    /\ failed' = (spinlock # HAL_SPINLOCK_LOCKED \/ lock_thread # t)
    /\ guards' = [guards EXCEPT ![t] = Append(@, lock_times)]
    /\ Goto(t, "run")
    /\ UNCHANGED <<mutex, temp, overlapped>>

-----------------------------------------------------------------------------
(* ~RecMutexGuard(): the check of the nesting, then ps_unlock_rec_mutex.   *)

Destruct(t) ==
    /\ pos[t] = "run" /\ guards[t] # <<>>
    /\ failed' = (spinlock # HAL_SPINLOCK_LOCKED \/ lock_thread # t \/ lock_times # guards[t][Len(guards[t])])
    /\ Goto(t, "unlock")
    /\ UNCHANGED <<mutex, guards, temp, overlapped>>

Unlock(t) ==
    /\ pos[t] = "unlock"
    /\ failed' = (lock_thread # t \/ lock_times = 0)
    /\ Goto(t, "unload")
    /\ UNCHANGED <<mutex, guards, temp, overlapped>>

\* Stores the count and, when it is zero, lets go of the mutex.
Decrement(t) ==
    /\ pos[t] = "dec"
    /\ lock_times' = (temp[t] - 1) % SIZE_MOD
    /\ IF temp[t] = 1
       THEN lock_thread' = NULL /\ spinlock' = hal_unlock_spinlock(spinlock)
       ELSE UNCHANGED <<lock_thread, spinlock>>
    /\ guards' = [guards EXCEPT ![t] = SubSeq(@, 1, Len(@) - 1)]
    /\ temp' = [temp EXCEPT ![t] = 0]
    /\ Goto(t, "run")
    /\ UNCHANGED <<overlapped, failed>>

Next == /\ ~failed
        /\ \E t \in Thread : \/ Lock(t) \/ Own(t) \/ Load(t) \/ Increment(t)
                             \/ Constructed(t) \/ Destruct(t) \/ Unlock(t) \/ Decrement(t)

Spec == Init /\ [][Next]_vars

-----------------------------------------------------------------------------
(* Properties.                                                             *)

\* The values of the mutex and of the threads' positions.
TypeOK == /\ lock_thread \in Thread \cup {NULL}
          /\ lock_times \in 0..(SIZE_MOD - 1) /\ spinlock \in {0, 1}
          /\ pos \in [Thread -> {"run", "own", "load", "inc", "got", "unlock", "unload", "dec"}]
          /\ \A t \in Thread : guards[t] \in Seq(Nat) /\ Len(guards[t]) <= MaxDepth

\* Guards that nest within one thread never trip a check of mutex.hh or
\* mutex.cc; only guards of two threads that overlapped can.
PanicsOnlyOnOverlap == failed => overlapped

\* As long as guards of different threads did not overlap, the mutex says who
\* holds it and how deeply between guard operations, and forgets its owner
\* with the last guard (mutex.cc:72-75); each guard remembers its own depth,
\* so the check of ~RecMutexGuard (mutex.hh:124) identifies the innermost one.
CountsNesting ==
    ~overlapped /\ (\A t \in Thread : pos[t] = "run") =>
        /\ Inside = {} => lock_thread = NULL /\ lock_times = 0
        /\ \A t \in Inside : /\ lock_thread = t /\ lock_times = Len(guards[t])
                             /\ \A i \in 1 .. Len(guards[t]) : guards[t][i] = i

=============================================================================
