----------------------------- MODULE PageAlloc ------------------------------
(***************************************************************************)
(* kernel/mm/pgalloc.cc statement by statement, with threads that preempt  *)
(* one another inside the calls (system calls run with interrupts on).     *)
(* The heap is a record of the four descriptor fields and the lock bytes;  *)
(* a statement is a function on it.                                        *)
(***************************************************************************)
EXTENDS Integers, Sequences, SequencesExt, Spinlock

CONSTANTS Page, Pmad, Type, PmadOf, TypeOf, Reserved, MaxRef, NULL,
          Thread,    \* threads that call the allocator
          Callers    \* the functions they call: "alloc", "ref", "free"

VARIABLES heap,      \* fl, nf, pf, rc: the fields of PageList; sl: lock bytes
          pc,        \* "idle", "lock", "load" or "run"
          call,      \* the function a thread is in
          mad,       \* the page its call works on
          cnt,       \* the value of ref_count it has loaded
          todo,      \* the statements left of its call
          held,      \* how often a thread was given a page and not freed it
          panicked   \* an assertion failed

vars == <<heap, pc, call, mad, cnt, todo, held, panicked>>

PL == INSTANCE PageList WITH
    free_list <- heap.fl, next_free <- heap.nf, prev_free <- heap.pf,
    ref_count <- heap.rc

Init == /\ heap = [fl |-> [a \in Pmad |-> PL!Lowest(PL!Listed(a))],
                   nf |-> [p \in Page |-> PL!Successor(p)],
                   pf |-> [p \in Page |-> PL!Predecessor(p)],
                   rc |-> [p \in Page |-> 0],
                   sl |-> [p \in Page |-> HAL_SPINLOCK_UNLOCKED]]
        /\ pc = [t \in Thread |-> "idle"]
        /\ call = [t \in Thread |-> "alloc"]
        /\ mad = [t \in Thread |-> NULL]
        /\ cnt = [t \in Thread |-> 0]
        /\ todo = [t \in Thread |-> <<>>]
        /\ held = [t \in Thread |-> [p \in Page |-> 0]]
        /\ panicked = FALSE

-----------------------------------------------------------------------------
(* The statements of ki_set_page_used and ki_set_page_free on page m, the  *)
(* loaded count being c.                                                   *)

\* Mutants: only the first reference counted; the links cleared before the
\* neighbours are joined.
UsedCountsFirst(c) == IF c = 0 THEN <<"inc", "head", "prev", "next", "clear">> ELSE <<>>
UsedClearsFirst(c) == IF c = 0 THEN <<"inc", "head", "clear", "prev", "next">> ELSE <<"inc">>

UsedBody(c) == IF c = 0 THEN <<"inc", "head", "prev", "next", "clear">> ELSE <<"inc">>

FreeBody(c) == CASE c = 0 -> <<>>
                 [] c = 1 -> <<"dec", "back", "forward", "assert">>
                 [] OTHER -> <<"dec">>

Statement(s, h, m, c) ==
    LET a == PmadOf[m]
    IN  CASE s = "inc"  -> [h EXCEPT !.rc[m] = c + 1]
          [] s = "dec"  -> [h EXCEPT !.rc[m] = c - 1]
          [] s = "head" /\ h.fl[a] = m    -> [h EXCEPT !.fl[a] = h.nf[m]]
          [] s = "prev" /\ h.pf[m] # NULL -> [h EXCEPT !.nf[h.pf[m]] = h.nf[m]]
          [] s = "next" /\ h.nf[m] # NULL -> [h EXCEPT !.pf[h.nf[m]] = h.pf[m]]
          [] s = "clear" -> [h EXCEPT !.pf[m] = NULL, !.nf[m] = NULL]
          [] s = "back" /\ h.fl[a] # NULL -> [h EXCEPT !.pf[h.fl[a]] = m]
          [] s = "forward" -> [h EXCEPT !.nf[m] = h.fl[a]]
          [] OTHER -> h

-----------------------------------------------------------------------------
(* The steps of a thread.                                                  *)

Enter(t, function, m) ==
    /\ pc[t] = "idle" /\ function \in Callers
    /\ heap.rc[m] < MaxRef
    /\ pc' = [pc EXCEPT ![t] = "lock"]
    /\ call' = [call EXCEPT ![t] = function]
    /\ mad' = [mad EXCEPT ![t] = m]
    /\ UNCHANGED <<heap, cnt, todo, panicked>>

\* ki_alloc_free_page reads the lists without any lock.
mm_pgalloc(t) ==
    \E type \in Type :
        LET addr == PL!ki_alloc_free_page(type)
        IN  addr \notin {NULL, 0} /\ Enter(t, "alloc", addr) /\ UNCHANGED held

mm_refpg(t) == \E m \in Page : Enter(t, "ref", m) /\ UNCHANGED held

\* A thread frees what it was given.
mm_pgfree(t) ==
    /\ pc[t] = "idle" /\ "free" \in Callers
    /\ \E m \in Page : /\ held[t][m] > 0
                       /\ held' = [held EXCEPT ![t][m] = @ - 1]
                       /\ pc' = [pc EXCEPT ![t] = "lock"]
                       /\ call' = [call EXCEPT ![t] = "free"]
                       /\ mad' = [mad EXCEPT ![t] = m]
    /\ UNCHANGED <<heap, cnt, todo, panicked>>

Lock(t) ==
    LET attempt == hal_try_lock_spinlock(heap.sl[mad[t]])
    IN  /\ pc[t] = "lock"
        /\ attempt.result
        /\ heap' = [heap EXCEPT !.sl[mad[t]] = attempt.byte]
        /\ pc' = [pc EXCEPT ![t] = "load"]
        /\ UNCHANGED <<call, mad, cnt, todo, held, panicked>>

\* Loads ref_count, which decides the statements of the rest of the call.
Load(t) ==
    LET c == heap.rc[mad[t]]
    IN  /\ pc[t] = "load"
        /\ pc' = [pc EXCEPT ![t] = "run"]
        /\ cnt' = [cnt EXCEPT ![t] = c]
        /\ todo' = [todo EXCEPT ![t] = IF call[t] = "free" THEN FreeBody(c) ELSE UsedBody(c)]
        /\ UNCHANGED <<heap, call, mad, held, panicked>>

Run(t) ==
    /\ pc[t] = "run" /\ todo[t] # <<>>
    /\ heap' = Statement(Head(todo[t]), heap, mad[t], cnt[t])
    /\ panicked' = (Head(todo[t]) = "assert" /\ heap.pf[mad[t]] # NULL)
    /\ todo' = [todo EXCEPT ![t] = Tail(@)]
    /\ UNCHANGED <<pc, call, mad, cnt, held>>

\* The deferred unlock, and the return to the caller.
Return(t) ==
    /\ pc[t] = "run" /\ todo[t] = <<>>
    /\ heap' = [heap EXCEPT !.sl[mad[t]] = hal_unlock_spinlock(@)]
    /\ held' = IF call[t] = "free" THEN held ELSE [held EXCEPT ![t][mad[t]] = @ + 1]
    /\ pc' = [pc EXCEPT ![t] = "idle"]
    /\ mad' = [mad EXCEPT ![t] = NULL]
    /\ UNCHANGED <<call, cnt, todo, panicked>>

Next == /\ ~panicked
        /\ \E t \in Thread : \/ mm_pgalloc(t) \/ mm_refpg(t) \/ mm_pgfree(t)
                             \/ Lock(t) \/ Load(t) \/ Run(t) \/ Return(t)

Spec == Init /\ [][Next]_vars

-----------------------------------------------------------------------------
(* Properties.                                                             *)

\* The heap once the call of thread t has run to its end.
Finished(t) ==
    LET m == mad[t]
        c == IF pc[t] = "run" THEN cnt[t] ELSE heap.rc[m]
        rest == CASE pc[t] = "idle" -> <<>>
                  [] pc[t] = "run"  -> todo[t]
                  [] OTHER -> IF call[t] = "free" THEN FreeBody(c) ELSE UsedBody(c)
    IN  FoldLeft(LAMBDA h, s : Statement(s, h, m, c), heap, rest)

Sole == CHOOSE t \in Thread : TRUE

Atomic == INSTANCE PageList WITH
    free_list <- Finished(Sole).fl, next_free <- Finished(Sole).nf,
    prev_free <- Finished(Sole).pf, ref_count <- Finished(Sole).rc

\* With a single thread the statements of pgalloc.cc implement the atomic
\* calls of PageList: every call takes effect as a whole when it is made.
ImplementsPageList == Atomic!Spec

\* Between calls, a page's ref_count is the number of times callers were given
\* the page and have not freed it: mm_pgalloc, mm_refpg and mm_pgfree lose no
\* count and make none up (pgalloc.cc:62, 85).
CountsHolders ==
    (\A t \in Thread : pc[t] = "idle") =>
        \A p \in Page : heap.rc[p] = MapThenSumSet(LAMBDA t : held[t][p], Thread)

\* kd_assert(!mad->prev_free) in ki_set_page_free (pgalloc.cc:89).
AssertionHolds == ~panicked
=============================================================================
