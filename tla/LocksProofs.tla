---------------------------- MODULE LocksProofs -----------------------------
(***************************************************************************)
(* What the three mutexes of kernel/ps/mutex.cc guarantee to the threads   *)
(* that share one: the reader/writer mutex to any finite set of threads,   *)
(* the plain and the recursive one to any set at all.                      *)
(***************************************************************************)
EXTENDS MCLocks, Sequences, FiniteSetTheorems, TLAPS

-----------------------------------------------------------------------------
(* The reader/writer mutex.                                                *)

\* A step that moves thread t to the label l moves it into At(l) and out of
\* every other At.
LEMMA Moved ==
    ASSUME pc \in [Thread -> Label], NEW t \in Thread, NEW l \in Label, Goto(t, l)
    PROVE  /\ At(l)' = At(l) \cup {t}
           /\ \A k \in Label : k # l => At(k)' = At(k) \ {t}
           /\ pc' \in [Thread -> Label] /\ pc'[t] = l
  BY DEF Goto, At, Label

\* Every At is finite, so its cardinality counts.
LEMMA AtFinite == ASSUME NEW l PROVE IsFiniteSet(At(l)) /\ Cardinality(At(l)) \in Nat
  <1>1. At(l) \subseteq Thread BY DEF At
  <1> QED BY <1>1, ThreadAssumption, FS_Subset, FS_CardinalityType

\* Init establishes the invariant: nobody is anywhere.
LEMMA InitInv == Init => Inv
  <1> SUFFICES ASSUME Init PROVE Inv OBVIOUS
  <1>1. /\ At("count") = {} /\ At("reading") = {}
        /\ At("drain") = {} /\ At("writing") = {}
    BY DEF Init, At
  <1>2. Cardinality({}) = 0 BY FS_EmptySet
  <1> QED BY <1>1, <1>2, ZenonT(60) DEF Init, Inv, TypeOK, Label, ReadersCounted, OneWriter, WindowClosed,
             OverlapOnlyInWindow, PanicsOnlyOnSecondWriter

\* One step of a reader keeps the invariant: counting is what the entry and
\* the exit do, and the window only lets early readers in.
LEMMA ReaderInv ==
    ASSUME Inv, NEW t \in Thread, ReadTest(t) \/ ReadCount(t) \/ ps_read_unlock_rw_mutex(t)
    PROVE  Inv'
  <1> USE DEF TypeOK, Inv, Label
  <1>0. pc \in [Thread -> Label] OBVIOUS
  <1>1. CASE ReadTest(t)
    <2>1. /\ At("count")' = At("count") \cup {t} /\ At("reading")' = At("reading") \ {t}
          /\ At("drain")' = At("drain") \ {t} /\ At("writing")' = At("writing") \ {t}
      BY <1>0, <1>1, Moved DEF ReadTest
    <2>2. t \notin At("reading") /\ t \notin At("drain") /\ t \notin At("writing")
      BY <1>1 DEF ReadTest, At
    <2>3. TypeOK' BY <1>1 DEF ReadTest, Goto
    <2>4. ReadersCounted' BY <1>1, <2>1, <2>2, Zenon DEF ReadTest, ReadersCounted
    <2>5. OneWriter' BY <1>1, <2>1, <2>2 DEF ReadTest, OneWriter
    <2>6. WindowClosed' BY <1>1, <2>1, <2>2 DEF ReadTest, WindowClosed
    <2>7. OverlapOnlyInWindow' BY <1>1, <2>1, <2>2 DEF ReadTest, OverlapOnlyInWindow
    <2>8. PanicsOnlyOnSecondWriter' BY <1>1, <2>1, <2>2, SMTT(60) DEF ReadTest, PanicsOnlyOnSecondWriter
    <2> QED BY <2>3, <2>4, <2>5, <2>6, <2>7, <2>8, Zenon
  <1>2. CASE ReadCount(t)
    <2>1. /\ At("count")' = At("count") \ {t} /\ At("reading")' = At("reading") \cup {t}
          /\ At("drain")' = At("drain") \ {t} /\ At("writing")' = At("writing") \ {t}
      BY <1>0, <1>2, Moved DEF ReadCount
    <2>2. t \in At("count") /\ t \notin At("reading") /\ t \notin At("drain") /\ t \notin At("writing")
      BY <1>2 DEF ReadCount, At
    <2>3. Cardinality(At("reading") \cup {t}) = Cardinality(At("reading")) + 1
      BY <2>2, AtFinite, FS_AddElement, ZenonT(60)
    <2>4. TypeOK' BY <1>2 DEF ReadCount, Goto
    <2>5. ReadersCounted' BY <1>2, <2>1, <2>3, Zenon DEF ReadCount, ReadersCounted
    <2>6. OneWriter' BY <1>2, <2>1, <2>2 DEF ReadCount, OneWriter
    <2>7. WindowClosed' BY <1>2, <2>1, <2>2 DEF ReadCount, WindowClosed
    <2>8. OverlapOnlyInWindow' BY <1>2, <2>1, <2>2, Zenon
      DEF ReadCount, OverlapOnlyInWindow, WindowClosed, OneWriter
    <2>9. PanicsOnlyOnSecondWriter' BY <1>2, <2>1, <2>2 DEF ReadCount, PanicsOnlyOnSecondWriter
    <2> QED BY <2>4, <2>5, <2>6, <2>7, <2>8, <2>9
  <1>3. CASE ps_read_unlock_rw_mutex(t)
    <2>1. /\ At("count")' = At("count") \ {t} /\ At("reading")' = At("reading") \ {t}
          /\ At("drain")' = At("drain") \ {t} /\ At("writing")' = At("writing") \ {t}
      BY <1>0, <1>3, Moved DEF ps_read_unlock_rw_mutex
    <2>2. t \in At("reading") /\ t \notin At("drain") /\ t \notin At("writing")
      BY <1>3 DEF ps_read_unlock_rw_mutex, At
    <2>3. Cardinality(At("reading") \ {t}) = Cardinality(At("reading")) - 1
      BY <2>2, AtFinite, FS_RemoveElement, ZenonT(60)
    <2>4. Cardinality(At("reading") \ {t}) \in Nat
      BY <2>1, AtFinite, FS_Subset, FS_CardinalityType
    <2>5. ReadersCounted' /\ read_count' \in Nat
      BY <1>3, <2>1, <2>3, <2>4, ZenonT(60) DEF ps_read_unlock_rw_mutex, ReadersCounted
    <2>6. TypeOK' BY <1>3, <2>5 DEF ps_read_unlock_rw_mutex, Goto
    <2>7. OneWriter' BY <1>3, <2>1, <2>2, <2>5, SMTT(60) DEF ps_read_unlock_rw_mutex, OneWriter
    <2>8. WindowClosed' BY <1>3, <2>1, <2>2, <2>5, Zenon DEF ps_read_unlock_rw_mutex, WindowClosed
    <2>9. OverlapOnlyInWindow'
      BY <1>3, <2>1, <2>2, <2>5, Zenon DEF ps_read_unlock_rw_mutex, OverlapOnlyInWindow
    <2>10. PanicsOnlyOnSecondWriter'
      BY <1>3, <2>1, <2>2, <2>5, Zenon DEF ps_read_unlock_rw_mutex, PanicsOnlyOnSecondWriter
    <2> QED BY <2>1, <2>2, <2>5, <2>6, <2>7, <2>8, <2>9, <2>10, Zenon
  <1> QED BY <1>1, <1>2, <1>3

\* One step of a writer keeps the invariant: the exchange records the readers
\* in the window, and the section opens when no counted reader is left.
LEMMA WriterInv ==
    ASSUME Inv, ~panicked, NEW t \in Thread,
           WriteExchange(t) \/ WriteDrain(t) \/ ps_write_unlock_rw_mutex(t)
    PROVE  Inv'
  <1> USE DEF TypeOK, Inv, Label
  <1>0. pc \in [Thread -> Label] OBVIOUS
  <1>1. CASE WriteExchange(t) /\ is_writing
    <2>1. \A l : At(l)' = At(l) BY <1>1 DEF WriteExchange, At
    <2>2. ReadersCounted' BY <1>1, <2>1 DEF WriteExchange, ReadersCounted
    <2>3. OneWriter' BY <1>1, <2>1 DEF WriteExchange, OneWriter
    <2>4. WindowClosed' BY <1>1, <2>1 DEF WriteExchange, WindowClosed
    <2>5. OverlapOnlyInWindow' BY <1>1, <2>1 DEF WriteExchange, OverlapOnlyInWindow
    <2>6. PanicsOnlyOnSecondWriter'
      BY <1>1, <2>1 DEF WriteExchange, PanicsOnlyOnSecondWriter, OneWriter
    <2>7. TypeOK' BY <1>1 DEF WriteExchange
    <2> QED BY <2>7, <2>2, <2>3, <2>4, <2>5, <2>6, Zenon
  <1>2. CASE WriteExchange(t) /\ ~is_writing
    <2>1. /\ At("count")' = At("count") \ {t} /\ At("reading")' = At("reading") \ {t}
          /\ At("drain")' = At("drain") \cup {t} /\ At("writing")' = At("writing") \ {t}
      BY <1>0, <1>2, Moved DEF WriteExchange
    <2>2. t \notin At("reading") BY <1>2 DEF WriteExchange, At
    <2>3. At("drain") = {} /\ At("writing") = {} BY <1>2 DEF OneWriter
    <2>4. TypeOK' BY <1>2 DEF WriteExchange, Goto, At
    <2>5. ReadersCounted' BY <1>2, <2>1, <2>2, <2>3, SMTT(60) DEF WriteExchange, ReadersCounted
    <2>6. OneWriter' BY <1>2, <2>1, <2>2, <2>3 DEF WriteExchange, OneWriter
    <2>7. WindowClosed' BY <1>2, <2>1, <2>2, <2>3, Zenon DEF WriteExchange, WindowClosed
    <2>8. OverlapOnlyInWindow' BY <1>2, <2>1, <2>2, <2>3 DEF WriteExchange, OverlapOnlyInWindow
    <2>9. PanicsOnlyOnSecondWriter'
      BY <1>2, <2>1, <2>2, <2>3, Zenon DEF WriteExchange, PanicsOnlyOnSecondWriter
    <2> QED BY <2>4, <2>5, <2>6, <2>7, <2>8, <2>9, Zenon
  <1>3. CASE WriteDrain(t)
    <2>1. /\ At("count")' = At("count") \ {t} /\ At("reading")' = At("reading") \ {t}
          /\ At("drain")' = At("drain") \ {t} /\ At("writing")' = At("writing") \cup {t}
      BY <1>0, <1>3, Moved DEF WriteDrain
    <2>2. t \in At("drain") /\ t \notin At("reading") BY <1>3 DEF WriteDrain, At
    <2>3. At("reading") = {}
      BY <1>3, AtFinite, FS_EmptySet DEF WriteDrain, ReadersCounted
    <2>4. TypeOK' BY <1>3 DEF WriteDrain, Goto
    <2>5. ReadersCounted' BY <1>3, <2>1, <2>2, <2>3, Zenon DEF WriteDrain, ReadersCounted
    <2>6. OneWriter' BY <1>3, <2>1, <2>2, <2>3, Zenon DEF WriteDrain, OneWriter
    <2>7. WindowClosed' BY <1>3, <2>1, <2>2, <2>3, Zenon DEF WriteDrain, WindowClosed
    <2>8. OverlapOnlyInWindow' BY <1>3, <2>1, <2>2, <2>3, Zenon DEF WriteDrain, OverlapOnlyInWindow
    <2>9. PanicsOnlyOnSecondWriter'
      BY <1>3, <2>1, <2>2, <2>3, Zenon DEF WriteDrain, PanicsOnlyOnSecondWriter
    <2> QED BY <2>4, <2>5, <2>6, <2>7, <2>8, <2>9, Zenon
  <1>4. CASE ps_write_unlock_rw_mutex(t)
    <2>1. /\ At("count")' = At("count") \ {t} /\ At("reading")' = At("reading") \ {t}
          /\ At("drain")' = At("drain") \ {t} /\ At("writing")' = At("writing") \ {t}
      BY <1>0, <1>4, Moved DEF ps_write_unlock_rw_mutex
    <2>2. t \in At("writing") /\ t \notin At("reading")
      BY <1>4 DEF ps_write_unlock_rw_mutex, At
    <2>3. is_writing /\ At("drain")' = {} /\ At("writing")' = {}
      BY <2>1, <2>2, Zenon DEF OneWriter
    <2>4. TypeOK' BY <1>4, <2>3, ZenonT(60) DEF ps_write_unlock_rw_mutex, Goto
    <2>5. ReadersCounted' BY <1>4, <2>1, <2>2, <2>3, SMTT(60) DEF ps_write_unlock_rw_mutex, ReadersCounted
    <2>6. OneWriter' BY <1>4, <2>1, <2>2, <2>3, Zenon DEF ps_write_unlock_rw_mutex, OneWriter
    <2>7. WindowClosed' BY <1>4, <2>1, <2>2, <2>3, Zenon DEF ps_write_unlock_rw_mutex, WindowClosed
    <2>8. OverlapOnlyInWindow'
      BY <1>4, <2>1, <2>2, <2>3, Zenon DEF ps_write_unlock_rw_mutex, OverlapOnlyInWindow
    <2>9. PanicsOnlyOnSecondWriter'
      BY <1>4, <2>1, <2>2, <2>3, Zenon DEF ps_write_unlock_rw_mutex, PanicsOnlyOnSecondWriter
    <2> QED BY <2>4, <2>5, <2>6, <2>7, <2>8, <2>9
  <1> QED BY <1>1, <1>2, <1>3, <1>4

\* No step of a reader/writer mutex breaks its invariant.
LEMMA StepInv == Inv /\ [Next]_vars => Inv'
  <1> SUFFICES ASSUME Inv, [Next]_vars PROVE Inv' OBVIOUS
  <1>1. CASE UNCHANGED vars
    <2>1. \A l : At(l)' = At(l) BY <1>1 DEF vars, At
    <2> QED BY <1>1, <2>1 DEF vars, Inv, TypeOK, ReadersCounted, OneWriter, WindowClosed,
               OverlapOnlyInWindow, PanicsOnlyOnSecondWriter
  <1> QED BY <1>1, ReaderInv, WriterInv DEF Next

-----------------------------------------------------------------------------
(* The plain mutex.                                                        *)

\* A thread that was alone so far is the only one inside, and the mutex names it
\* from the moment it has stored its name.
AloneIsOwner ==
    \A t \in M!Inside \ overlapped :
        /\ M!Inside = {t}
        /\ pos[t] \in {"in", "unlock"} => lock_thread = t

\* The inductive invariant of the plain mutex.
PlainInv == /\ M!TypeOK /\ spinlock = 0
            /\ overlapped \subseteq M!Inside
            /\ AloneIsOwner
            /\ M!PanicsOnlyOnOverlap

\* ps_init_mutex leaves nobody inside.
LEMMA PlainInitInv == M!Init => PlainInv
  BY ZenonT(60) DEF M!Init, PlainInv, M!TypeOK, M!Inside, AloneIsOwner, M!PanicsOnlyOnOverlap,
         M!HAL_SPINLOCK_UNLOCKED

\* No statement of lock, try-lock and unlock breaks it.
LEMMA PlainStepInv == PlainInv /\ [M!Next]_(M!vars) => PlainInv'
  <1> SUFFICES ASSUME PlainInv, [M!Next]_(M!vars) PROVE PlainInv' OBVIOUS
  <1> USE DEF PlainInv, M!TypeOK, M!Inside, AloneIsOwner, M!PanicsOnlyOnOverlap
  <1>1. CASE UNCHANGED M!vars BY <1>1 DEF M!vars
  <1>2. ASSUME ~failed, NEW t \in Pair, M!Call(t) PROVE PlainInv'
    BY <1>2, ZenonT(60) DEF M!Call, M!Goto
  <1>3. ASSUME ~failed, NEW t \in Pair, M!TryLock(t) PROVE PlainInv'
    BY <1>3 DEF M!TryLock, M!Goto, M!hal_try_lock_spinlock, M!arch_atomic_cmpxchg8
  <1>4. ASSUME ~failed, NEW t \in Pair, M!Own(t) PROVE PlainInv'
    BY <1>4 DEF M!Own, M!Goto
  <1>5. ASSUME ~failed, NEW t \in Pair, M!Check(t) PROVE PlainInv'
    BY <1>5 DEF M!Check, M!Goto, M!HAL_SPINLOCK_LOCKED
  <1>6. ASSUME ~failed, NEW t \in Pair, M!Unlock(t) PROVE PlainInv'
    BY <1>6 DEF M!Unlock, M!Goto, M!hal_unlock_spinlock
  <1> QED BY <1>1, <1>2, <1>3, <1>4, <1>5, <1>6, Zenon DEF M!Next

-----------------------------------------------------------------------------
(* The recursive mutex.                                                    *)

\* What is left of a thread's guards when the innermost one goes.
LEMMA FrontFacts ==
    ASSUME NEW s \in Seq(Nat)
    PROVE  LET f == SubSeq(s, 1, Len(s) - 1) IN
           /\ f \in Seq(Nat)
           /\ s # <<>> => Len(f) = Len(s) - 1 /\ \A i \in 1 .. Len(f) : f[i] = s[i]
  <1> DEFINE f == [i \in 1 .. Len(s) - 1 |-> s[i]]
  <1>1. CASE s = <<>>
    <2>1. SubSeq(s, 1, Len(s) - 1) = <<>> BY <1>1
    <2> QED BY <1>1, <2>1
  <1>2. CASE s # <<>>
    <2>1. SubSeq(s, 1, Len(s) - 1) = f BY <1>2
    <2>2. Len(s) - 1 \in Nat /\ \A i \in 1 .. Len(s) - 1 : s[i] \in Nat BY <1>2
    <2>3. f \in [1 .. Len(s) - 1 -> Nat] BY <2>2
    <2>4. f \in Seq(Nat) /\ Len(f) = Len(s) - 1 BY <2>2, <2>3
    <2> QED BY <2>1, <2>4, ZenonT(60)
  <1> QED BY <1>1, <1>2

\* What a thread may be doing with its guards.
RecPos == {"run", "own", "load", "inc", "got", "unlock", "unload", "dec"}

\* The values of the recursive mutex, as far as overlapping threads leave them
\* alone.
RecTyped == /\ spinlock = 0 /\ lock_times \in Nat
            /\ pos \in [Pair -> RecPos]
            /\ guards \in [Pair -> Seq(Nat)] /\ temp \in [Pair -> Nat]
            /\ overlapped \in BOOLEAN

\* A thread that is the only user of the mutex finds in it its own name, from
\* the statement that stores it, and the number of guards it has; each guard
\* has kept its own depth.
Nested(t) ==
    /\ pos[t] # "own" => lock_thread = t
    /\ lock_times = Len(guards[t]) + (IF pos[t] = "got" THEN 1 ELSE 0)
    /\ pos[t] \in {"own", "load", "inc", "got"} => Len(guards[t]) < MaxDepth
    /\ pos[t] \in {"inc", "dec"} => temp[t] = lock_times
    /\ pos[t] \in {"unlock", "unload", "dec"} => guards[t] # <<>>
    /\ Len(guards[t]) <= MaxDepth
    /\ \A i \in 1 .. Len(guards[t]) : guards[t][i] = i

\* The inductive invariant of the recursive mutex.
RecInv == /\ RecTyped
          /\ ~overlapped =>
                /\ \A t, u \in R!Inside : t = u
                /\ \A t \in R!Inside : Nested(t)
                /\ R!Inside = {} => lock_thread = NULL /\ lock_times = 0
          /\ R!PanicsOnlyOnOverlap

\* A count that fits a size_t is what ++ and -- make of it.
LEMMA Wraps ==
    ASSUME NEW n \in Int
    PROVE  /\ n % SIZE_MOD \in Nat
           /\ n \in 0 .. (SIZE_MOD - 1) => n % SIZE_MOD = n
  BY DepthAssumption

\* ps_init_rec_mutex leaves nobody inside.
LEMMA RecInitInv == R!Init => RecInv
  <1> SUFFICES ASSUME R!Init PROVE RecInv OBVIOUS
  <1>1. R!Inside = {} BY DEF R!Init, R!Inside
  <1>2. <<>> \in Seq(Nat) OBVIOUS
  <1>3. RecTyped BY <1>2, ZenonT(60) DEF R!Init, RecTyped, RecPos, R!HAL_SPINLOCK_UNLOCKED
  <1> QED BY <1>1, <1>3 DEF R!Init, RecInv, R!PanicsOnlyOnOverlap

\* Only the first statement of a guard lets a thread in.
LEMMA RecLockInv == ASSUME RecInv, ~failed, NEW t \in Pair, R!Lock(t) PROVE RecInv'
  <1> USE DEF R!Lock, R!Goto, R!hal_try_lock_spinlock, R!arch_atomic_cmpxchg8
  <1>1. RecTyped' BY DEF RecInv, RecTyped, RecPos
  <1>2. t \in R!Inside' /\ \A u \in Pair \ {t} : u \in R!Inside' <=> u \in R!Inside
    BY DEF RecInv, RecTyped, R!Inside
  <1>3. ASSUME ~overlapped' PROVE R!Inside' = {t} /\ Nested(t)'
    <2>1. R!Inside \subseteq {t} /\ ~overlapped BY <1>3, ZenonT(60)
    <2>2. R!Inside' = {t} BY <1>2, <2>1, Zenon DEF R!Inside
    <2>3. pos'[t] = "own" /\ guards' = guards BY Zenon DEF RecInv, RecTyped
    <2>4. CASE R!Inside = {}
      <3>1. guards[t] = <<>> /\ lock_times = 0 BY <2>1, <2>4, Zenon DEF RecInv, R!Inside
      <3> QED BY <2>2, <2>3, <3>1, DepthAssumption, SMTT(60) DEF Nested
    <2>5. CASE t \in R!Inside
      <3>1. Nested(t) BY <2>1, <2>5, Zenon DEF RecInv
      <3> QED BY <2>2, <2>3, <3>1, DepthAssumption, ZenonT(60) DEF Nested
    <2> QED BY <2>1, <2>4, <2>5
  <1>4. R!PanicsOnlyOnOverlap' BY DEF R!PanicsOnlyOnOverlap
  <1> QED BY <1>1, <1>3, <1>4 DEF RecInv

\* A thread inside is alone there unless threads overlapped, so what matters of
\* its steps is what they do to itself.
LEMMA RecAlone ==
    ASSUME RecInv, RecTyped', R!PanicsOnlyOnOverlap', overlapped' = overlapped,
           NEW t \in R!Inside,
           \A u \in Pair \ {t} : pos'[u] = pos[u] /\ guards'[u] = guards[u],
           ~overlapped /\ Nested(t) =>
               IF t \in R!Inside' THEN Nested(t)' ELSE lock_thread' = NULL /\ lock_times' = 0
    PROVE  RecInv'
  <1> SUFFICES ASSUME ~overlapped'
               PROVE  /\ R!Inside' \subseteq {t}
                      /\ IF t \in R!Inside' THEN Nested(t)' ELSE lock_thread' = NULL /\ lock_times' = 0
    BY DEF RecInv
  <1>1. R!Inside = {t} /\ Nested(t) BY Zenon DEF RecInv
  <1>2. \A u \in Pair \ {t} : u \notin R!Inside' BY <1>1 DEF R!Inside
  <1> QED BY <1>1, <1>2, Zenon DEF R!Inside

\* The steps of RecMutexGuard() that follow.
LEMMA RecLockedInv ==
    ASSUME RecInv, ~failed, NEW t \in Pair,
           R!Own(t) \/ R!Load(t) \/ R!Increment(t) \/ R!Constructed(t)
    PROVE  RecInv'
  <1>0. RecTyped BY DEF RecInv
  <1>1. t \in R!Inside /\ overlapped' = overlapped
    BY DEF R!Own, R!Load, R!Increment, R!Constructed, R!Inside
  <1>2. \A u \in Pair \ {t} : pos'[u] = pos[u] /\ guards'[u] = guards[u]
    BY <1>0 DEF RecTyped, R!Own, R!Load, R!Increment, R!Constructed, R!Goto
  <1>3. CASE R!Own(t)
    <2> USE <1>3 DEF R!Own, R!Goto
    <2>1. RecTyped' BY <1>0, Zenon DEF RecTyped, RecPos
    <2>2. Nested(t) => Nested(t)' BY <1>0, Zenon DEF RecTyped, Nested
    <2>3. t \in R!Inside' BY <1>0, Zenon DEF RecTyped, R!Inside
    <2>4. R!PanicsOnlyOnOverlap' BY DEF R!PanicsOnlyOnOverlap
    <2> QED BY <1>1, <1>2, <2>1, <2>2, <2>3, <2>4, RecAlone, Zenon
  <1>4. CASE R!Load(t)
    <2> USE <1>4 DEF R!Load, R!Goto, R!mutex
    <2>1. RecTyped' BY <1>0, Zenon DEF RecTyped, RecPos
    <2>2. Nested(t) => Nested(t)' BY <1>0, Zenon DEF RecTyped, Nested
    <2>3. t \in R!Inside' BY <1>0 DEF RecTyped, R!Inside
    <2>4. R!PanicsOnlyOnOverlap' BY DEF R!PanicsOnlyOnOverlap
    <2> QED BY <1>1, <1>2, <2>1, <2>2, <2>3, <2>4, RecAlone, ZenonT(60)
  <1>5. CASE R!Increment(t)
    <2> USE <1>5 DEF R!Increment, R!Goto
    <2>1. temp[t] \in Nat /\ lock_times' \in Nat BY <1>0, Wraps DEF RecTyped
    <2>2. RecTyped' BY <1>0, <2>1, Zenon DEF RecTyped, RecPos
    <2>3. ASSUME Nested(t) PROVE Nested(t)'
      <3>1. Len(guards[t]) \in Nat BY ONLY <1>0, SMTT(60) DEF RecTyped
      <3>2. temp[t] = Len(guards[t]) /\ temp[t] + 1 \in 0 .. (SIZE_MOD - 1)
        BY <2>1, <2>3, <3>1, DepthAssumption, SMTT(60) DEF Nested
      <3>3. lock_times' = Len(guards[t]) + 1
        <4>1. lock_times' = (temp[t] + 1) % SIZE_MOD /\ temp[t] + 1 \in Int BY <2>1
        <4> QED BY ONLY <3>2, <4>1, Wraps, Zenon
      <3> QED BY <1>0, <2>3, <3>1, <3>3, Zenon DEF RecTyped, Nested
    <2>4. t \in R!Inside' BY <1>0 DEF RecTyped, R!Inside
    <2>5. R!PanicsOnlyOnOverlap' BY DEF R!PanicsOnlyOnOverlap
    <2> QED BY <1>1, <1>2, <2>2, <2>3, <2>4, <2>5, RecAlone, ZenonT(60)
  <1>6. CASE R!Constructed(t)
    <2> USE <1>6 DEF R!Constructed, R!Goto, R!mutex
    <2>0. guards[t] \in Seq(Nat) /\ Len(guards[t]) \in Nat /\ lock_times \in Nat BY ONLY <1>0, SMTT(60) DEF RecTyped
    <2>1. /\ guards'[t] = Append(guards[t], lock_times) /\ guards'[t] \in Seq(Nat)
          /\ Len(guards'[t]) = Len(guards[t]) + 1
          /\ \A i \in 1 .. Len(guards[t]) : guards'[t][i] = guards[t][i]
          /\ guards'[t][Len(guards[t]) + 1] = lock_times
      BY <1>0, <2>0, SMTT(60) DEF RecTyped
    <2>2. RecTyped' BY <1>0, <2>1, Zenon DEF RecTyped, RecPos
    <2>3. ASSUME Nested(t) PROVE Nested(t)'
      <3>1. pos'[t] = "run" BY <1>0, Zenon DEF RecTyped
      <3>2. lock_times = Len(guards[t]) + 1 BY <2>3, Zenon DEF Nested
      <3>3. \A i \in 1 .. Len(guards'[t]) : guards'[t][i] = i
        BY <2>0, <2>1, <2>3, <3>2, SMTT(60) DEF Nested
      <3>4. lock_thread = t /\ Len(guards[t]) < MaxDepth BY <2>3, Zenon DEF Nested
      <3>5. guards'[t] # <<>> /\ Len(guards'[t]) <= MaxDepth
        BY ONLY <2>0, <2>1, <3>4, DepthAssumption, SMTT(60)
      <3>6. lock_thread' = lock_thread /\ lock_times' = lock_times BY Zenon
      <3> QED BY ONLY <2>0, <2>1, <3>6, <3>1, <3>2, <3>3, <3>4, <3>5, SMTT(60) DEF Nested
    <2>4. t \in R!Inside' BY ONLY <2>0, <2>1, SMTT(60) DEF R!Inside
    <2>5. R!PanicsOnlyOnOverlap'
      <3>1. ~overlapped => lock_thread = t BY <1>1, ZenonT(60) DEF RecInv, Nested
      <3> QED BY <1>0, <1>1, <3>1, SMTT(60) DEF R!PanicsOnlyOnOverlap, RecTyped, R!HAL_SPINLOCK_LOCKED
    <2> QED BY <1>1, <1>2, <2>2, <2>3, <2>4, <2>5, RecAlone, Zenon
  <1> QED BY <1>3, <1>4, <1>5, <1>6, Zenon

\* The steps of ~RecMutexGuard(): its checks find the thread's own name and
\* depth, and the last of its guards gives both up.
LEMMA RecUnlockInv ==
    ASSUME RecInv, ~failed, NEW t \in Pair,
           R!Destruct(t) \/ R!Unlock(t) \/ R!Decrement(t)
    PROVE  RecInv'
  <1>0. RecTyped /\ guards[t] \in Seq(Nat) /\ Len(guards[t]) \in Nat /\ temp[t] \in Nat
    BY SMTT(60) DEF RecInv, RecTyped
  <1>1. t \in R!Inside /\ overlapped' = overlapped
    BY DEF R!Destruct, R!Unlock, R!Decrement, R!Inside
  <1>2. \A u \in Pair \ {t} : pos'[u] = pos[u] /\ guards'[u] = guards[u]
    BY <1>0, Zenon DEF RecTyped, R!Destruct, R!Unlock, R!Decrement, R!Goto
  <1>3. CASE R!Destruct(t)
    <2> USE <1>3 DEF R!Destruct, R!Goto, R!mutex
    <2>1. RecTyped' BY <1>0, Zenon DEF RecTyped, RecPos
    <2>2. Nested(t) => Nested(t)' BY <1>0 DEF RecTyped, Nested
    <2>3. t \in R!Inside' BY <1>0, Zenon DEF RecTyped, R!Inside
    <2>4. R!PanicsOnlyOnOverlap'
      <3>1. guards[t] # <<>> /\ Len(guards[t]) \in 1 .. Len(guards[t]) BY <1>0, SMTT(60)
      <3>2. ASSUME Nested(t) PROVE lock_thread = t /\ lock_times = guards[t][Len(guards[t])]
        BY <1>0, <3>1, <3>2, SMTT(60) DEF Nested
      <3>3. ~overlapped => Nested(t) BY <1>1 DEF RecInv
      <3> QED BY <1>0, <1>1, <3>2, <3>3, SMTT(60) DEF R!PanicsOnlyOnOverlap, RecTyped, R!HAL_SPINLOCK_LOCKED
    <2> QED BY <1>1, <1>2, <2>1, <2>2, <2>3, <2>4, RecAlone, Zenon
  <1>4. CASE R!Unlock(t)
    <2> USE <1>4 DEF R!Unlock, R!Goto, R!mutex
    <2>1. RecTyped' BY <1>0, Zenon DEF RecTyped, RecPos
    <2>2. Nested(t) => Nested(t)' BY <1>0 DEF RecTyped, Nested
    <2>3. t \in R!Inside' BY <1>0, Zenon DEF RecTyped, R!Inside
    <2>4. R!PanicsOnlyOnOverlap'
      <3>1. ASSUME Nested(t) PROVE lock_thread = t /\ lock_times # 0 BY <1>0, <3>1, SMTT(60) DEF Nested
      <3>2. ~overlapped => Nested(t) BY <1>1, Zenon DEF RecInv
      <3> QED BY <1>0, <1>1, <3>1, <3>2, SMTT(60) DEF R!PanicsOnlyOnOverlap, RecTyped
    <2> QED BY <1>1, <1>2, <2>1, <2>2, <2>3, <2>4, RecAlone, ZenonT(60)
  <1>5. CASE R!Decrement(t)
    <2> USE <1>5 DEF R!Decrement, R!Goto
    <2>0. temp[t] - 1 \in Int BY <1>0
    <2>1. lock_times' \in Nat BY <2>0, Wraps, ZenonT(60)
    <2>2. pos'[t] = "run" /\ guards'[t] = SubSeq(guards[t], 1, Len(guards[t]) - 1) BY <1>0, Zenon DEF RecTyped
    <2>3. /\ guards'[t] \in Seq(Nat)
          /\ guards[t] # <<>> =>
                /\ Len(guards'[t]) = Len(guards[t]) - 1
                /\ \A i \in 1 .. Len(guards'[t]) : guards'[t][i] = guards[t][i]
      BY ONLY <1>0, <2>2, FrontFacts
    <2>4. RecTyped' BY <1>0, <2>1, <2>3, Zenon DEF RecTyped, RecPos, R!hal_unlock_spinlock
    <2>5. ASSUME Nested(t)
          PROVE  IF t \in R!Inside' THEN Nested(t)' ELSE lock_thread' = NULL /\ lock_times' = 0
      <3>1. /\ guards[t] # <<>> /\ temp[t] = Len(guards[t]) /\ temp[t] - 1 \in 0 .. (SIZE_MOD - 1)
            /\ Len(guards[t]) <= MaxDepth /\ lock_thread = t
        <4>1. pos[t] = "dec" OBVIOUS
        <4> QED BY ONLY <1>0, <2>5, <4>1, DepthAssumption, SMTT(60) DEF Nested
      <3>2. lock_times' = Len(guards[t]) - 1 BY <2>0, <3>1, Wraps, ZenonT(60)
      <3>3. t \in R!Inside' <=> temp[t] # 1
        <4>1. guards'[t] = <<>> <=> Len(guards'[t]) = 0 BY ONLY <2>3, SMTT(60)
        <4>2. t \in R!Inside' <=> guards'[t] # <<>> BY <2>2, Zenon DEF R!Inside
        <4>3. Len(guards'[t]) = temp[t] - 1 BY ONLY <2>3, <3>1
        <4>4. Len(guards'[t]) = 0 <=> temp[t] = 1 BY ONLY <1>0, <4>3, SMTT(60)
        <4> QED BY ONLY <4>1, <4>2, <4>4, Zenon
      <3>4. CASE temp[t] = 1 BY <1>0, <3>1, <3>2, <3>3, <3>4, SMTT(60)
      <3>5. CASE temp[t] # 1
        <4>1. lock_thread' = t BY <3>1, <3>5, Zenon
        <4>2. \A i \in 1 .. Len(guards[t]) : guards[t][i] = i BY <2>5 DEF Nested
        <4>3. ASSUME NEW i \in 1 .. Len(guards'[t]) PROVE guards'[t][i] = i
          <5>1. i \in 1 .. Len(guards[t]) BY ONLY <1>0, <2>3, <3>1, i \in 1 .. Len(guards'[t]), SMTT(60)
          <5> QED BY ONLY <2>3, <3>1, <4>2, <5>1, i \in 1 .. Len(guards'[t]), Zenon
        <4>4. Len(guards'[t]) <= MaxDepth BY ONLY <1>0, <2>3, <3>1, DepthAssumption, SMTT(60)
        <4>5. lock_times' = Len(guards'[t]) + 0 BY ONLY <1>0, <2>3, <3>1, <3>2, SMTT(60)
        <4>6. \A i \in 1 .. Len(guards'[t]) : guards'[t][i] = i BY ONLY <4>3
        <4>7. Nested(t)' BY ONLY <2>2, <4>1, <4>4, <4>5, <4>6, Zenon DEF Nested
        <4> QED BY <3>3, <3>5, <4>7, Zenon
      <3> QED BY <3>4, <3>5, Zenon
    <2>6. R!PanicsOnlyOnOverlap' BY DEF R!PanicsOnlyOnOverlap
    <2> QED BY <1>1, <1>2, <2>4, <2>5, <2>6, RecAlone, Zenon
  <1> QED BY <1>3, <1>4, <1>5, Zenon

\* No step of a recursive mutex breaks its invariant.
LEMMA RecStepInv == RecInv /\ [R!Next]_(R!vars) => RecInv'
  <1> SUFFICES ASSUME RecInv, [R!Next]_(R!vars) PROVE RecInv' OBVIOUS
  <1>1. CASE UNCHANGED R!vars
    BY <1>1, SMTT(60) DEF R!vars, R!mutex, RecInv, RecTyped, Nested, R!Inside, R!PanicsOnlyOnOverlap
  <1> QED BY <1>1, RecLockInv, RecLockedInv, RecUnlockInv, Zenon DEF R!Next

-----------------------------------------------------------------------------
(* The threads share one of the three.                                     *)

\* The inductive invariant of the shared lock.
LocksInv == /\ Inv
            /\ kind = "plain" => PlainInv
            /\ kind = "rec" => RecInv

\* The invariant of the lock that the threads share holds in every reachable
\* state, whichever of the functions of mutex.cc they call.
THEOREM Invariance == LocksSpec => []LocksInv
  <1>1. LocksInit => LocksInv
    BY InitInv, PlainInitInv, RecInitInv DEF LocksInit, LocksInv
  <1>2. LocksInv /\ [LocksNext]_locks => LocksInv'
    <2> SUFFICES ASSUME LocksInv, [LocksNext]_locks PROVE LocksInv' OBVIOUS
    <2>1. kind' = kind BY DEF LocksNext, locks
    <2>2. [Next]_vars BY DEF LocksNext, locks
    <2>3. kind = "plain" => [M!Next]_(M!vars) BY DEF LocksNext, locks, mutex, M!vars
    <2>4. kind = "rec" => [R!Next]_(R!vars) BY DEF LocksNext, locks, mutex, R!vars, R!mutex
    <2> QED BY <2>1, <2>2, <2>3, <2>4, StepInv, PlainStepInv, RecStepInv, Zenon DEF LocksInv
  <1> QED BY <1>1, <1>2, PTL DEF LocksSpec

\* ps_rw_mutex_t::read_count counts the readers inside.
THEOREM ReadersAreCounted == LocksSpec => []ReadersCounted
  <1>1. LocksInv => ReadersCounted BY DEF LocksInv, Inv
  <1> QED BY <1>1, Invariance, PTL

\* Writers exclude one another, and is_writing tells whether there is one.
THEOREM WritersExclude == LocksSpec => []OneWriter
  <1>1. LocksInv => OneWriter BY Zenon DEF LocksInv, Inv
  <1> QED BY <1>1, Invariance, PTL

\* A reader beside a writer came through the window of mutex.cc:95-97.
THEOREM OverlapIsBounded == LocksSpec => []OverlapOnlyInWindow
  <1>1. LocksInv => OverlapOnlyInWindow BY DEF LocksInv, Inv
  <1> QED BY <1>1, Invariance, PTL

\* The checks of a plain or recursive mutex (mutex.cc:27-28, 70-71, 83-84) stop
\* only threads that were inside together, and the recursive mutex counts the
\* guards of the thread that has it.
THEOREM PanicsNeedOverlap == LocksSpec => []PanicsOnlyOnOverlap
  <1>1. LocksInv => PanicsOnlyOnOverlap
    <2>1. PlainInv => M!PanicsOnlyOnOverlap BY DEF PlainInv
    <2>2. RecInv => R!PanicsOnlyOnOverlap BY DEF RecInv
    <2>3. RecInv => R!CountsNesting
      <3> SUFFICES ASSUME RecInv, ~overlapped, \A t \in Pair : pos[t] = "run", NEW t \in R!Inside
                   PROVE  /\ lock_thread = t /\ lock_times = Len(guards[t])
                          /\ \A i \in 1 .. Len(guards[t]) : guards[t][i] = i
        BY DEF RecInv, R!CountsNesting
      <3>1. Nested(t) /\ t \in Pair /\ guards[t] \in Seq(Nat) BY DEF RecInv, RecTyped, R!Inside
      <3>2. Len(guards[t]) \in Nat BY <3>1
      <3>3. pos[t] = "run" BY <3>1, Zenon
      <3>4. lock_thread = t /\ lock_times = Len(guards[t]) BY ONLY <3>1, <3>2, <3>3 DEF Nested
      <3> QED BY <3>1, <3>4, ZenonT(60) DEF Nested
    <2> QED BY <2>1, <2>2, <2>3 DEF LocksInv, PanicsOnlyOnOverlap
  <1> QED BY <1>1, Invariance, PTL
=============================================================================
