------------------------------ MODULE RwMutex -------------------------------
(***************************************************************************)
(* The reader/writer mutex of kernel/ps/mutex.cc, one action per atomic    *)
(* memory access, with threads that enter and leave as ReadRwMutexGuard    *)
(* and WriteRwMutexGuard do.  ps_global_proc_set_mutex and                 *)
(* ki_ro_pages_cache_lock are such mutexes.                                *)
(***************************************************************************)
EXTENDS Naturals, FiniteSets

CONSTANT Thread

ASSUME ThreadAssumption == IsFiniteSet(Thread)

VARIABLES read_count, is_writing,  \* ps_rw_mutex_t
          pc,        \* where each thread is
          early,     \* the readers that were past the test of is_writing when
                     \* the present writer set it (history)
          panicked   \* a kd_dbgcheck failed

vars == <<read_count, is_writing, pc, early, panicked>>

Label == {"idle", "count", "reading", "drain", "writing"}

At(l) == {t \in Thread : pc[t] = l}

Goto(t, l) == pc' = [pc EXCEPT ![t] = l]

\* Both users are objects of static storage: is_writing, which
\* ps_init_rw_mutex leaves alone, starts at zero.
Init == /\ read_count = 0
        /\ is_writing = FALSE
        /\ pc = [t \in Thread |-> "idle"]
        /\ early = {}
        /\ panicked = FALSE

-----------------------------------------------------------------------------
(* Readers.                                                                *)

\* The loop of ps_read_lock_rw_mutex; a turn that finds a writer changes
\* nothing and is not a step.
ReadTest(t) ==
    /\ pc[t] = "idle" /\ ~is_writing
    /\ Goto(t, "count")
    /\ UNCHANGED <<read_count, is_writing, early, panicked>>

\* Mutant: a reader enters without being counted.
ReadUncounted(t) ==
    /\ pc[t] = "count"
    /\ Goto(t, "reading")
    /\ UNCHANGED <<read_count, is_writing, early, panicked>>

ReadCount(t) ==
    /\ pc[t] = "count"
    /\ read_count' = read_count + 1
    /\ Goto(t, "reading")
    /\ UNCHANGED <<is_writing, early, panicked>>

ps_read_unlock_rw_mutex(t) ==
    /\ pc[t] = "reading"
    /\ read_count' = read_count - 1
    /\ Goto(t, "idle")
    /\ UNCHANGED <<is_writing, early, panicked>>

-----------------------------------------------------------------------------
(* Writers.                                                                *)

\* Mutant: the old value of is_writing is not looked at.
WriteExchangeUnchecked(t) ==
    /\ pc[t] = "idle"
    /\ is_writing' = TRUE
    /\ Goto(t, "drain") /\ early' = At("count")
    /\ UNCHANGED <<read_count, panicked>>

\* The exchange of ps_write_lock_rw_mutex, whose check panics when another
\* thread is writing.
WriteExchange(t) ==
    /\ pc[t] = "idle"
    /\ is_writing' = TRUE
    /\ IF is_writing
       THEN panicked' = TRUE /\ UNCHANGED <<pc, early>>
       ELSE Goto(t, "drain") /\ early' = At("count") /\ UNCHANGED panicked
    /\ UNCHANGED read_count

\* Mutant: the writer waits until at most one reader is left.
WriteDrainEarly(t) ==
    /\ pc[t] = "drain" /\ read_count <= 1
    /\ Goto(t, "writing")
    /\ UNCHANGED <<read_count, is_writing, early, panicked>>

\* The loop of ps_write_lock_rw_mutex.
WriteDrain(t) ==
    /\ pc[t] = "drain" /\ read_count = 0
    /\ Goto(t, "writing")
    /\ UNCHANGED <<read_count, is_writing, early, panicked>>

ps_write_unlock_rw_mutex(t) ==
    /\ pc[t] = "writing"
    /\ is_writing' = FALSE
    /\ panicked' = ~is_writing
    /\ Goto(t, "idle")
    /\ UNCHANGED <<read_count, early>>

Next == /\ ~panicked
        /\ \E t \in Thread :
              \/ ReadTest(t) \/ ReadCount(t) \/ ps_read_unlock_rw_mutex(t)
              \/ WriteExchange(t) \/ WriteDrain(t) \/ ps_write_unlock_rw_mutex(t)

Spec == Init /\ [][Next]_vars

-----------------------------------------------------------------------------
(* Properties.                                                             *)

\* The values of the mutex and of the threads' positions; the count does not
\* go below zero.
TypeOK == /\ read_count \in Nat
          /\ is_writing \in BOOLEAN /\ panicked \in BOOLEAN
          /\ pc \in [Thread -> Label]
          /\ early \subseteq Thread

\* read_count is the number of threads inside ReadRwMutexGuard scopes, so the
\* loop of ps_write_lock_rw_mutex (mutex.cc:102) waits for exactly those.
ReadersCounted == read_count = Cardinality(At("reading"))

\* is_writing tells that one thread, and only one, is between the exchange of
\* ps_write_lock_rw_mutex and that of ps_write_unlock_rw_mutex: two writers
\* are never inside together.
OneWriter == /\ \A t, u \in At("drain") \cup At("writing") : t = u
             /\ is_writing <=> At("drain") \cup At("writing") # {}

\* A reader shares the section with a writer only through the window between
\* its test of is_writing (mutex.cc:95) and its count (mutex.cc:97): it had
\* passed the test before the writer's exchange and was not yet counted.
OverlapOnlyInWindow == At("writing") # {} => At("reading") \subseteq early

\* The reader past the test is one of those the writer's exchange found there.
WindowClosed == is_writing => At("count") \subseteq early

\* A check of mutex.cc fails only when a thread asks for a write lock that
\* another thread has (mutex.cc:101); unlocking (mutex.cc:111) never panics.
PanicsOnlyOnSecondWriter == panicked => At("drain") \cup At("writing") # {}

\* The inductive invariant.
Inv == TypeOK /\ ReadersCounted /\ OneWriter /\ WindowClosed
              /\ OverlapOnlyInWindow /\ PanicsOnlyOnSecondWriter
=============================================================================
