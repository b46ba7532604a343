------------------------------ MODULE MCLocks -------------------------------
(***************************************************************************)
(* The threads share one lock of kernel/ps/mutex.cc: a reader/writer       *)
(* mutex, a plain or a recursive one.                                      *)
(***************************************************************************)
EXTENDS RwMutex, Integers

CONSTANTS Pair,  \* the threads that share a plain or a recursive mutex
          NULL, MaxDepth, SIZE_MOD

\* The depth of the guards of a thread fits a size_t.
ASSUME DepthAssumption == MaxDepth \in Nat /\ SIZE_MOD \in Nat /\ MaxDepth < SIZE_MOD

VARIABLES kind,  \* which lock the threads share
          lock_thread, lock_times, spinlock, pos, guards, temp, overlapped, failed

mutex == <<lock_thread, lock_times, spinlock, pos, guards, temp, overlapped, failed>>
locks == <<kind, vars, mutex>>

M == INSTANCE Mutex WITH Thread <- Pair
R == INSTANCE RecMutex WITH Thread <- Pair

LocksInit == /\ Init
             /\ \/ kind \in {"rw", "rec"} /\ R!Init
                \/ kind = "plain" /\ M!Init /\ lock_times = 0 /\ guards = <<>> /\ temp = <<>>

LocksNext == /\ UNCHANGED kind
             /\ \/ kind = "rw" /\ Next /\ UNCHANGED mutex
                \/ kind = "plain" /\ M!Next /\ UNCHANGED <<vars, lock_times, guards, temp>>
                \/ kind = "rec" /\ R!Next /\ UNCHANGED vars

LocksSpec == LocksInit /\ [][LocksNext]_locks

\* The checks of a plain or recursive mutex (mutex.cc:27-28, 70-71, 83-84) stop
\* only threads that were inside together: neither the owner that earlier users
\* left behind in lock_thread nor guards that nest within a thread trip them.
\* Between guard operations the recursive mutex knows its owner and its depth,
\* and it forgets its owner with the last guard (mutex.cc:72-75).
PanicsOnlyOnOverlap == /\ kind = "plain" => M!PanicsOnlyOnOverlap
                       /\ kind = "rec" => R!PanicsOnlyOnOverlap /\ R!CountsNesting
=============================================================================
