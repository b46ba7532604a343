--------------------------- MODULE VmrCallProofs ----------------------------
(***************************************************************************)
(* Proofs about the system calls that probe, lock and unlock user memory:  *)
(* a probe grants what it should, and only an empty range makes one panic  *)
(* where threads do not meet, for any space and any set of threads.        *)
(***************************************************************************)
EXTENDS VmrProofs

\* A new call makes its first probe from nothing.
LEMMA BeginCall ==
    ASSUME Inv, CallInv, ~panicked, NEW t \in Thread, NEW ps \in Seq(ProbeType), Idle(t),
           todo' = [todo EXCEPT ![t] = ps],
           UNCHANGED <<loadVars, locker, vmr_mutex, walk, unlocking, held, overlapped, panicked>>
    PROVE  CallInv'
<1>1. vmrs' = vmrs
  BY DEF loadVars
<1>2. CallsTyped'
  BY DEF CallInv, CallsTyped
<1>3. Others(t)
  BY DEF CallInv, CallsTyped, Others
<1>4. Sound(t)'
  <2>1. Sound(t)
    BY DEF CallInv
  <2>2. walk'[t] = NULL /\ held'[t] = <<>> /\ t \notin unlocking'
    BY <2>1 DEF Idle, Sound
  <2> QED BY <2>2 DEF Sound
<1>5. \A u \in Thread : Sound(u)'
  BY <1>1, <1>3, <1>4, OthersSound DEF CallInv
<1>6. NamesFound' /\ TreeAlone'
  <2>1. InTree(t)' <=> InTree(t)
    BY DEF InTree
  <2>2. ASSUME NEW x \in Starts, Needs(t, x)' PROVE Needs(t, x)
    BY <1>1, <2>2, TreeSame, Zenon DEF Needs, IsUser
  <2>3. ~overlapped' => \A x \in Starts : Needs(t, x)' => locker'[x] = t
    BY <2>2 DEF CallInv, NamesFound
  <2> QED BY <1>1, <1>3, <2>1, <2>3, NamesKept, StayTree DEF CallInv, Inv
<1>7. PanicCause'
  BY DEF PanicCause
<1> QED BY <1>2, <1>5, <1>6, <1>7 DEF CallInv

\* The answer to a range outside user space needs no region.
LEMMA KernelProbeInv ==
    ASSUME Inv, CallInv, ~panicked, NEW t \in Thread, ProbeCrosses(t) \/ ProbeKernel(t)
    PROVE  CallInv'
<1>1. /\ vmrs' = vmrs /\ todo[t] # <<>> /\ walk[t] = NULL
      /\ Fail(t) \/ (Grant(t) /\ ~IsUser(Head(todo[t]).range))
      /\ UNCHANGED <<locker, vmr_mutex, walk, unlocking, overlapped, panicked>>
  BY DEF ProbeCrosses, ProbeKernel, loadVars
<1>2. CallsTyped /\ Sound(t) /\ t \notin unlocking
  BY <1>1 DEF CallInv, Sound
<1>3. /\ todo' \in [Thread -> Seq(ProbeType)] /\ held' \in [Thread -> Seq(ProbeType)]
      /\ \A u \in Thread \ {t} : todo'[u] = todo[u] /\ held'[u] = held[u]
      /\ \A i \in DOMAIN held'[t] : \/ i \in DOMAIN held[t] /\ held'[t][i] = held[t][i]
                                    \/ ~IsUser(held'[t][i].range)
  BY <1>1, <1>2, FailFacts, GrantFacts, Zenon
<1>4. CallsTyped'
  BY <1>1, <1>2, <1>3, Zenon DEF CallsTyped
<1>5. Others(t)
  BY <1>1, <1>3 DEF Others
<1>6. Sound(t)'
  <2>1. walk'[t] = NULL /\ t \notin unlocking'
    BY <1>1, <1>2
  <2>2. ASSUME NEW i \in DOMAIN held'[t], IsUser(held'[t][i].range) PROVE Laid(held'[t][i].range)
    BY <1>2, <1>3, <2>2, Zenon DEF Sound
  <2>3. \A i \in DOMAIN held'[t] : IsUser(held'[t][i].range) => Laid(held[t][i].range)'
    BY <1>1, <2>2, TreeSame
  <2> QED BY <2>1, <2>3, Zenon DEF Sound, IsUser
<1>7. \A u \in Thread : Sound(u)'
  BY <1>1, <1>5, <1>6, OthersSound DEF CallInv
<1>8. NamesFound' /\ TreeAlone'
  <2>1. InTree(t)' <=> InTree(t)
    BY <1>1 DEF InTree
  <2>2. ASSUME NEW x \in Starts, Needs(t, x)' PROVE Needs(t, x)
    BY <1>1, <1>3, <2>2, TreeSame, Zenon DEF Needs, IsUser
  <2>3. ~overlapped' => \A x \in Starts : Needs(t, x)' => locker'[x] = t
    BY <1>1, <2>2 DEF CallInv, NamesFound
  <2> QED BY <1>1, <1>5, <2>1, <2>3, NamesKept, StayTree, Zenon DEF CallInv, Inv
<1>9. PanicCause'
  BY <1>1 DEF PanicCause
<1> QED BY <1>4, <1>7, <1>8, <1>9 DEF CallInv

\* A walk begins at the last region that starts at or below its range.
LEMMA ProbeUserInv == ASSUME Inv, CallInv, ~panicked, NEW t \in Thread, ProbeUser(t) PROVE CallInv'
<1> DEFINE p == Head(todo[t])
           w == [initial |-> find_max_lteq(p.range.page), vmr |-> find_max_lteq(p.range.page),
                 end |-> find_max_lteq(p.range.page + p.range.n - 1), last |-> NULL, loops |-> FALSE]
<1>1. /\ vmrs' = vmrs /\ todo[t] # <<>> /\ walk[t] = NULL /\ IsUser(p.range) /\ LimitIsUser(p.range)
      /\ walk' = [walk EXCEPT ![t] = w] /\ panicked' = (w.initial # NULL /\ w.end = NULL)
      /\ ki_mm_lock_vmr(t) /\ UNCHANGED <<locker, todo, unlocking, held>>
  BY DEF ProbeUser, loadVars
<1>2. CallsTyped /\ Sound(t) /\ t \notin unlocking /\ p \in ProbeType /\ RegionsTyped
  BY <1>1, HeadProbe, Zenon DEF CallInv, Sound, Inv
<1>3. p.range.page \in Int /\ p.range.page + p.range.n - 1 \in Int
  BY <1>2, ProbeFacts
<1>4. w \in WalkType /\ w # NULL
  <2>1. ASSUME NEW a \in Int PROVE find_max_lteq(a) \in Page \cup {NULL}
    BY <1>2, MaxLteqMeans, Zenon DEF IsMaxLteq, RegionsTyped
  <2>2. w \in WalkType
    BY <1>3, <2>1 DEF WalkType
  <2> QED BY <2>2, VmrAssumption, Zenon
<1>5. Walking(w, p) \/ panicked'
  <2> SUFFICES ASSUME ~panicked' PROVE Walking(w, p)
    BY Zenon
  <2>1. w.initial # NULL => w.end # NULL
    BY <1>1, Zenon
  <2>2. w.initial # NULL => w.initial \in Starts /\ w.initial <= w.initial
    BY <1>2, <1>3, MaxLteqMeans, RegionFacts, Zenon DEF IsMaxLteq
  <2>3. w.initial # NULL => w.vmr \in Visited(p.range)
    BY <2>2 DEF Visited
  <2> QED BY <1>1, <2>1, <2>3, Zenon DEF Walking
<1> HIDE DEF w
<1>6. walk'[t] = w /\ CallsTyped /\ Others(t) /\ InTree(t)' /\ ~InTree(t)
  BY <1>1, <1>2, <1>4 DEF CallsTyped, Others, InTree
<1>7. TreeAlone' /\ (overlapped => overlapped') /\ vmr_mutex' \in [thread : Thread, times : Int]
  BY <1>1, <1>6, EnterTree, Zenon DEF CallInv
<1>8. CallsTyped'
  BY <1>1, <1>2, <1>4, <1>7, Zenon DEF CallsTyped, ki_mm_lock_vmr
<1>9. Sound(t)'
  <2>1. ~panicked' => Walking(walk[t], Head(todo[t]))'
    BY <1>1, <1>5, <1>6, TreeSame, Zenon
  <2>2. \A i \in DOMAIN held'[t] : IsUser(held'[t][i].range) => Laid(held[t][i].range)'
    BY <1>1, <1>2, TreeSame DEF Sound
  <2> QED BY <1>1, <1>2, <1>6, <2>1, <2>2, Zenon DEF Sound, IsUser
<1>10. \A u \in Thread : Sound(u)'
  BY <1>1, <1>6, <1>9, OthersSound, Zenon DEF CallInv
<1>11. NamesFound'
  <2>1. w.last = NULL
    BY Zenon DEF w
  <2>2. ASSUME NEW x \in Starts, Needs(t, x)' PROVE Needs(t, x)
    BY <1>1, <1>6, <2>1, <2>2, TreeSame, Zenon DEF Needs, IsUser
  <2>3. ~overlapped' => \A x \in Starts : Needs(t, x)' => locker'[x] = t
    BY <1>1, <1>7, <2>2 DEF CallInv, NamesFound
  <2> QED BY <1>1, <1>2, <1>6, <1>7, <2>3, NamesKept, Zenon DEF CallInv
<1>12. PanicCause'
  <2> SUFFICES ASSUME w.initial # NULL, w.end = NULL, p.range.n # 0 PROVE FALSE
    BY <1>1, Zenon DEF PanicCause
  <2>1. w.initial \in Starts /\ w.initial <= p.range.page
    BY <1>2, <1>3, MaxLteqMeans, Zenon DEF IsMaxLteq, w
  <2>2. w.initial <= p.range.page + p.range.n - 1
    <3>1. p.range.page \in Nat /\ p.range.n \in Nat
      BY <1>2, ProbeFacts
    <3>2. w.initial \in Int
      BY <1>2, <2>1, RegionFacts, Zenon
    <3> QED BY ONLY <2>1, <3>1, <3>2, p.range.n # 0, SMTT(60)
  <2> QED BY <1>2, <1>3, <2>1, <2>2, MaxLteqMeans, Zenon DEF w
<1> QED BY <1>7, <1>8, <1>10, <1>11, <1>12, Zenon DEF CallInv

\* The end of a walk gives the tree back; a walk that passed leaves a guard
\* whose regions carry the thread's name and are laid out to be unlocked.
LEMMA WalkEndInv ==
    ASSUME Inv, CallInv, ~panicked, NEW t \in Thread, vmrs' = vmrs, walk[t] # NULL,
           Leave(t), unlocking' = unlocking, overlapped => overlapped', overlapped' \in BOOLEAN,
           locker' = locker \/ \E y \in Starts : ki_mm_lock_area(t, y),
           \/ Fail(t)
           \/ /\ Grant(t) /\ Laid(Head(todo[t]).range)
              /\ ~overlapped' => \A x \in Visited(Head(todo[t]).range) : locker'[x] = t
    PROVE  CallInv'
<1> DEFINE p == Head(todo[t])
<1>1. CallsTyped /\ RegionsTyped /\ Sound(t) /\ todo[t] # <<>> /\ t \notin unlocking /\ NamesFound /\ TreeAlone
  BY Zenon DEF CallInv, Inv, Sound
<1>2. /\ todo' \in [Thread -> Seq(ProbeType)] /\ held' \in [Thread -> Seq(ProbeType)]
      /\ \A u \in Thread \ {t} : todo'[u] = todo[u] /\ held'[u] = held[u]
      /\ \A i \in DOMAIN held'[t] :
            \/ i \in DOMAIN held[t] /\ held'[t][i] = held[t][i]
            \/ /\ held'[t][i] = p /\ Laid(p.range)
               /\ ~overlapped' => \A x \in Visited(p.range) : locker'[x] = t
  BY <1>1, FailFacts, GrantFacts, Zenon
<1>3. walk'[t] = NULL /\ Others(t) /\ InTree(t) /\ ~InTree(t)' /\ vmr_mutex' = VmrReleased
      /\ walk' \in [Thread -> WalkType \cup {NULL}] /\ panicked' = VmrCheckFails(t)
  BY <1>1, <1>2, Zenon DEF CallsTyped, Leave, ki_mm_unlock_vmr, Others, InTree
<1>4. TreeAlone' /\ (VmrCheckFails(t) => overlapped)
      /\ vmr_mutex' \in [thread : Thread \cup {NULL}, times : Int]
  BY <1>1, <1>3, LeaveTree
<1>5. locker' \in [Page -> Thread \cup {NULL}]
  BY <1>1, Zenon DEF CallsTyped, ki_mm_lock_area
<1>6. CallsTyped'
  BY <1>1, <1>2, <1>3, <1>4, <1>5, ZenonT(60) DEF CallsTyped
<1>7. Sound(t)'
  <2>1. ASSUME NEW i \in DOMAIN held'[t], IsUser(held'[t][i].range) PROVE Laid(held'[t][i].range)
    BY <1>1, <1>2, <2>1, ZenonT(60) DEF Sound
  <2>2. \A i \in DOMAIN held'[t] : IsUser(held'[t][i].range) => Laid(held[t][i].range)'
    BY <2>1, TreeSame, Zenon
  <2> QED BY <1>1, <1>3, <2>2 DEF Sound, IsUser
<1>8. \A u \in Thread : Sound(u)'
  BY <1>3, <1>7, OthersSound, Zenon DEF CallInv
<1>9. NamesFound'
  <2>1. ASSUME ~overlapped', NEW x \in Starts, Needs(t, x)' PROVE locker'[x] = t
    <3>1. PICK i \in DOMAIN held'[t] : IsUser(held'[t][i].range) /\ x \in Visited(held'[t][i].range)
      BY <1>3, <2>1, TreeSame, Zenon DEF Needs, IsUser
    <3>2. CASE i \in DOMAIN held[t] /\ held'[t][i] = held[t][i]
      <4>1. Needs(t, x) /\ locker[x] = t
        BY <1>1, <2>1, <3>1, <3>2, Zenon DEF Needs, NamesFound
      <4> QED BY <1>1, <4>1, Zenon DEF ki_mm_lock_area, CallsTyped, RegionsTyped
    <3>3. CASE held'[t][i] = p /\ \A y \in Visited(p.range) : locker'[y] = t
      BY <3>1, <3>3, Zenon
    <3> QED BY <1>2, <2>1, <3>2, <3>3, Zenon
  <2> QED BY <1>1, <1>3, <2>1, NamesKept, Zenon
<1>10. PanicCause'
  BY <1>3, <1>4 DEF PanicCause
<1> QED BY <1>4, <1>6, <1>8, <1>9, <1>10 DEF CallInv

\* What is known of a thread in the middle of its walk.
LEMMA InWalk ==
    ASSUME Inv, CallInv, ~panicked, NEW t \in Thread, walk[t] # NULL
    PROVE  /\ RegionsTyped /\ Disjoint /\ CallsTyped /\ NamesFound /\ Sound(t)
           /\ todo[t] # <<>> /\ t \notin unlocking /\ Head(todo[t]) \in ProbeType
           /\ walk[t] \in WalkType /\ Walking(walk[t], Head(todo[t]))
BY HeadProbe, Zenon DEF Inv, CallInv, Sound, CallsTyped

\* Having locked its present region, a walk finds its thread's name in all
\* regions up to there.
LEMMA SeenNamed ==
    ASSUME Inv, CallInv, ~panicked, NEW t \in Thread, walk[t] # NULL, walk[t].initial # NULL,
           ki_mm_lock_area(t, walk[t].vmr), ~overlapped',
           NEW x \in Starts, walk[t].initial <= x, x <= walk[t].vmr
    PROVE  locker'[x] = t
<1> DEFINE w == walk[t]
<1>1. RegionsTyped /\ CallsTyped /\ NamesFound /\ Head(todo[t]) \in ProbeType /\ Walking(w, Head(todo[t]))
  BY InWalk, Zenon
<1>2. w.vmr \in Starts /\ w.vmr \in Page /\ x \in Page
  BY <1>1, WalkFacts, Zenon DEF RegionsTyped
<1>3. locker'[w.vmr] = t /\ (x # w.vmr => locker'[x] = locker[x])
  BY <1>1, <1>2 DEF ki_mm_lock_area, CallsTyped
<1>4. CASE x # w.vmr
  <2>1. x \in Int /\ w.vmr \in Int /\ w.initial \in Int
    BY <1>1, <1>2, WalkFacts, RegionFacts, Zenon
  <2>2. x < w.vmr /\ w.vmr # w.initial
    BY <1>4, <2>1, SMTT(60)
  <2>3. w.last # NULL
    BY <1>1, <2>2, Zenon DEF Walking
  <2>4. x <= w.last
    BY <1>1, <2>2, <2>3, WalkFacts, Zenon
  <2>5. Needs(t, x) /\ ~overlapped
    BY <2>3, <2>4, Zenon DEF Needs, ki_mm_lock_area
  <2> QED BY <1>1, <1>3, <1>4, <2>5, Zenon DEF NamesFound
<1> QED BY <1>3, <1>4

\* Walks that end, well or not.
LEMMA WalkEndsInv ==
    ASSUME Inv, CallInv, ~panicked, NEW t \in Thread, WalkEmpty(t) \/ TurnFails(t) \/ TurnLast(t)
    PROVE  CallInv'
<1> DEFINE w == walk[t]  p == Head(todo[t])
<1>0. w # NULL /\ vmrs' = vmrs /\ unlocking' = unlocking /\ Leave(t)
  BY DEF WalkEmpty, TurnFails, TurnLast, Turn, loadVars
<1>1. /\ RegionsTyped /\ Disjoint /\ CallsTyped /\ p \in ProbeType /\ Walking(w, p)
  BY <1>0, InWalk
<1>2. CASE WalkEmpty(t)
  <2>1. Fail(t) /\ locker' = locker /\ overlapped' = overlapped
    BY <1>2, Zenon DEF WalkEmpty
  <2> QED BY <1>0, <1>1, <2>1, WalkEndInv, Zenon DEF CallsTyped
<1>3. CASE TurnFails(t)
  <2>1. Fail(t) /\ ki_mm_lock_area(t, w.vmr) /\ w.initial # NULL
    BY <1>3, Zenon DEF TurnFails, Turn
  <2>2. w.vmr \in Starts
    BY <1>1, <2>1, WalkFacts, Zenon
  <2>3. (overlapped => overlapped') /\ overlapped' \in BOOLEAN
    BY <1>1, <2>1, Zenon DEF ki_mm_lock_area, CallsTyped
  <2> QED BY <1>0, <2>1, <2>2, <2>3, WalkEndInv, Zenon
<1>4. CASE TurnLast(t)
  <2>1. /\ ki_mm_lock_area(t, w.vmr) /\ w.initial # NULL /\ Extends(w, p.need)
        /\ get_next(w.vmr, w.end) = NULL
        /\ Fail(t) \/ (Grant(t) /\ ~(End(w.vmr) < p.range.page + p.range.n))
    BY <1>4, Zenon DEF TurnLast, Turn
  <2>2. w.vmr \in Starts
    BY <1>1, <2>1, WalkFacts, Zenon
  <2>3. (overlapped => overlapped') /\ overlapped' \in BOOLEAN
    BY <1>1, <2>1, Zenon DEF ki_mm_lock_area, CallsTyped
  <2>4. ~(End(w.vmr) < p.range.page + p.range.n) => Laid(p.range)
    BY <1>1, <2>1, PassedLaid, Zenon
  <2>5. ASSUME ~overlapped', NEW x \in Visited(p.range) PROVE locker'[x] = t
    <3>1. x \in Starts /\ w.initial <= x /\ x <= w.vmr
      BY <1>1, <2>1, AllVisited, Zenon
    <3> QED BY <1>0, <2>1, <2>5, <3>1, SeenNamed, ZenonT(60)
  <2> QED BY <1>0, <2>1, <2>2, <2>3, <2>4, <2>5, WalkEndInv, Zenon
<1> QED BY <1>2, <1>3, <1>4, Zenon

\* Walks that go on: the thread stays in the tree, at a probe of its call.
LEMMA WalkGoesOn ==
    ASSUME Inv, CallInv, ~panicked, NEW t \in Thread, walk[t] # NULL, walk[t].initial # NULL,
           NEW v \in WalkType, Walking(v, Head(todo[t])), walk' = [walk EXCEPT ![t] = v],
           v.initial = walk[t].initial, v.last = walk[t].last \/ v.last = walk[t].vmr,
           ki_mm_lock_area(t, walk[t].vmr),
           UNCHANGED <<loadVars, vmr_mutex, todo, unlocking, held, panicked>>
    PROVE  CallInv'
<1> DEFINE w == walk[t]  p == Head(todo[t])
<1>1. /\ RegionsTyped /\ CallsTyped /\ NamesFound /\ Sound(t) /\ p \in ProbeType /\ Walking(w, p)
      /\ todo[t] # <<>> /\ t \notin unlocking /\ vmrs' = vmrs
  BY InWalk, Zenon DEF loadVars
<1>2. w.vmr \in Starts /\ w.vmr \in Page
  BY <1>1, WalkFacts, Zenon DEF RegionsTyped
<1>3. walk'[t] = v /\ v # NULL /\ Others(t) /\ (InTree(t)' <=> InTree(t))
  BY <1>1, VmrAssumption, Zenon DEF CallsTyped, Others, InTree
<1>4. (overlapped => overlapped') /\ overlapped' \in BOOLEAN
  BY <1>1, Zenon DEF ki_mm_lock_area, CallsTyped
<1>5. CallsTyped'
  BY <1>1, <1>2, <1>4, Zenon DEF ki_mm_lock_area, CallsTyped
<1>6. Sound(t)'
  <2>1. Walking(walk[t], Head(todo[t]))'
    BY <1>1, <1>3, TreeSame, Zenon
  <2>2. \A i \in DOMAIN held'[t] : IsUser(held'[t][i].range) => Laid(held[t][i].range)'
    BY <1>1, TreeSame, Zenon DEF Sound
  <2> QED BY <1>1, <1>3, <2>1, <2>2, Zenon DEF Sound, IsUser
<1>7. \A u \in Thread : Sound(u)'
  BY <1>1, <1>3, <1>6, OthersSound, Zenon DEF CallInv
<1>8. NamesFound'
  <2>1. ASSUME ~overlapped', NEW x \in Starts, Needs(t, x)' PROVE locker'[x] = t
    <3>1. CASE v.last # NULL /\ v.initial <= x /\ x <= v.last
      <4>1. x <= w.vmr
        <5>1. CASE v.last = w.vmr
          BY <3>1, <5>1, Zenon
        <5>2. CASE v.last = w.last
          <6>1. w.last \in Starts /\ w.last < w.vmr
            BY <1>1, <3>1, <5>2, WalkFacts, Zenon
          <6>2. w.last \in Int /\ w.vmr \in Int /\ x \in Int
            BY <1>1, <1>2, <6>1, RegionFacts, Zenon
          <6> QED BY ONLY <3>1, <5>2, <6>1, <6>2, SMTT(60)
        <5> QED BY <5>1, <5>2, Zenon
      <4> QED BY <2>1, <3>1, <4>1, SeenNamed, Zenon
    <3>2. CASE \E i \in DOMAIN held[t] : IsUser(held[t][i].range) /\ x \in Visited(held[t][i].range)
      <4>1. Needs(t, x) /\ locker[x] = t
        BY <1>1, <1>4, <2>1, <3>2, Zenon DEF Needs, NamesFound
      <4> QED BY <1>1, <4>1, Zenon DEF ki_mm_lock_area, CallsTyped, RegionsTyped
    <3> QED BY <1>1, <1>3, <2>1, <3>1, <3>2, TreeSame, ZenonT(60) DEF Needs, IsUser
  <2> QED BY <1>1, <1>2, <1>3, <1>4, <2>1, NamesKept, Zenon
<1>9. TreeAlone'
  BY <1>1, <1>3, <1>4, StayTree, Zenon DEF CallInv
<1>10. PanicCause'
  BY DEF PanicCause
<1> QED BY <1>5, <1>7, <1>8, <1>9, <1>10, Zenon DEF CallInv

\* A walk takes the next region, or finds one that fails its tests.
LEMMA TurnsInv ==
    ASSUME Inv, CallInv, ~panicked, NEW t \in Thread, TurnOn(t) \/ TurnLoops(t)
    PROVE  CallInv'
<1> DEFINE w == walk[t]  p == Head(todo[t])  next == get_next(w.vmr, w.end)
<1>0. /\ w # NULL /\ w.initial # NULL /\ ~w.loops /\ ki_mm_lock_area(t, w.vmr)
      /\ UNCHANGED <<loadVars, vmr_mutex, todo, unlocking, held, panicked>>
  BY Zenon DEF TurnOn, TurnLoops, Turn
<1>1. /\ RegionsTyped /\ CallsTyped /\ p \in ProbeType /\ w \in WalkType /\ Walking(w, p)
  BY <1>0, InWalk, Zenon
<1>2. /\ w.initial \in Starts /\ w.end \in Starts /\ w.vmr \in Starts /\ w.initial <= w.vmr
      /\ (w.initial <= w.end => w.vmr <= w.end)
  BY <1>0, <1>1, WalkFacts, Zenon
<1>3. w.initial \in Int /\ w.end \in Int /\ w.vmr \in Int /\ w.vmr # NULL
  BY <1>1, <1>2, RegionFacts
<1>4. CASE TurnOn(t)
  <2> DEFINE v == [w EXCEPT !.vmr = next, !.last = w.vmr]
  <2>1. Extends(w, p.need) /\ next # NULL /\ walk' = [walk EXCEPT ![t] = v]
    BY <1>1, <1>4, Zenon DEF TurnOn, CallsTyped
  <2>2. w.vmr # w.end /\ \E y \in Starts : y > w.vmr
    BY <2>1, Zenon DEF get_next
  <2>3. IsNext(next, w.vmr)
    BY <1>1, <1>2, <2>2, NextFound, Zenon
  <2> HIDE DEF next
  <2>4. next \in Starts /\ next > w.vmr /\ next \in Int /\ next \in Page /\ w.vmr \in Page
    BY <1>1, <1>2, <2>3, RegionFacts, Zenon DEF IsNext, RegionsTyped
  <2>5. v \in WalkType /\ v.initial = w.initial /\ v.vmr = next /\ v.end = w.end /\ v.last = w.vmr
        /\ v.loops = w.loops
    BY <1>1, <2>4, Zenon DEF WalkType
  <2>6. w.initial <= w.end => next <= w.end
    BY ONLY <1>2, <1>3, <2>2, <2>3, <2>4, SMTT(60) DEF IsNext
  <2>7. next \in Visited(p.range) /\ next # w.initial
    <3>1. w.initial <= next /\ next # w.initial
      BY ONLY <1>2, <1>3, <2>4, SMTT(60)
    <3>2. w.initial = find_max_lteq(p.range.page)
          /\ w.end = find_max_lteq(p.range.page + p.range.n - 1)
      BY <1>1, ZenonT(60) DEF Walking
    <3> QED BY <2>4, <2>6, <3>1, <3>2, Zenon DEF Visited
  <2>8. w.vmr \in Visited(p.range) /\ Chain(w.initial, w.vmr, p.need)
    BY <1>0, <1>1, <2>1, ChainGrows, Zenon DEF Walking
  <2> HIDE DEF v
  <2>9. Walking(v, p)
    BY <1>0, <1>1, <1>3, <2>3, <2>5, <2>7, <2>8, Zenon DEF Walking
  <2> QED BY <1>0, <2>1, <2>5, <2>9, WalkGoesOn, Zenon
<1>5. CASE TurnLoops(t)
  <2> DEFINE v == [w EXCEPT !.loops = TRUE]
  <2>1. w.vmr # w.initial /\ ~Extends(w, p.need) /\ walk' = [walk EXCEPT ![t] = v]
    BY <1>1, <1>5 DEF TurnLoops, CallsTyped
  <2>2. v \in WalkType /\ v.initial = w.initial /\ v.vmr = w.vmr /\ v.end = w.end /\ v.last = w.last
    BY <1>1, Zenon DEF WalkType
  <2>3. w.last # NULL
    BY <1>0, <1>1, <2>1, Zenon DEF Walking
  <2>4. ~Extends(v, p.need)
    BY <2>1, <2>2 DEF Extends
  <2> HIDE DEF v
  <2>5. Walking(v, p)
    BY <1>0, <1>1, <2>2, <2>3, <2>4, Zenon DEF Walking
  <2> QED BY <1>0, <2>1, <2>2, <2>5, WalkGoesOn, Zenon
<1> QED BY <1>4, <1>5

\* The loop of restore_guard is stopped only where threads met.
LEMMA LoopPanicsInv == ASSUME Inv, CallInv, ~panicked, NEW t \in Thread, LoopPanics(t) PROVE CallInv'
<1> DEFINE w == walk[t]
<1>1. w # NULL /\ w.loops /\ locker[w.last] # t /\ UNCHANGED <<loadVars, callVars>> /\ panicked'
  BY DEF LoopPanics
<1>2. RegionsTyped /\ NamesFound /\ Head(todo[t]) \in ProbeType /\ Walking(w, Head(todo[t]))
  BY <1>1, InWalk, Zenon
<1>3. w.initial # NULL /\ w.last # NULL
  BY <1>1, <1>2, Zenon DEF Walking
<1>4. w.last \in Starts /\ w.initial <= w.last /\ w.last <= w.last
  BY <1>2, <1>3, WalkFacts, RegionFacts, Zenon
<1>5. overlapped
  BY <1>1, <1>2, <1>3, <1>4, Zenon DEF NamesFound, Needs
<1>6. /\ vmrs' = vmrs /\ todo' = todo /\ held' = held /\ walk' = walk /\ unlocking' = unlocking
      /\ locker' = locker /\ vmr_mutex' = vmr_mutex /\ overlapped' = overlapped
  BY <1>1, Zenon DEF loadVars, callVars
<1>7. CallsTyped' /\ NamesFound' /\ TreeAlone' /\ PanicCause'
  BY <1>5, <1>6 DEF CallInv, CallsTyped, NamesFound, TreeAlone, PanicCause
<1>8. Others(t)
  BY <1>6, Zenon DEF Others
<1>9. Sound(t)'
  <2>1. Sound(t)
    BY ZenonT(60) DEF CallInv
  <2>2. \A i \in DOMAIN held'[t] : IsUser(held'[t][i].range) => Laid(held[t][i].range)'
    BY <1>6, <2>1, TreeSame DEF Sound
  <2> QED BY <1>1, <1>6, <2>1, <2>2, ZenonT(60) DEF Sound, IsUser, LastHeld
<1>10. \A u \in Thread : Sound(u)'
  BY <1>6, <1>8, <1>9, OthersSound, Zenon DEF CallInv
<1> QED BY <1>7, <1>10 DEF CallInv

\* A guard goes.
LEMMA DropFacts ==
    ASSUME CallsTyped, NEW t \in Thread, held[t] # <<>>, DropGuard(t)
    PROVE  /\ held' \in [Thread -> Seq(ProbeType)]
           /\ \A u \in Thread \ {t} : held'[u] = held[u]
           /\ \A i \in DOMAIN held'[t] : i \in DOMAIN held[t] /\ held'[t][i] = held[t][i]
<1> DEFINE h == held[t]  g == SubSeq(h, 1, Len(h) - 1)  f == [i \in 1 .. Len(h) - 1 |-> h[i]]
<1>1. h \in Seq(ProbeType) /\ Len(h) \in Nat /\ Len(h) > 0 /\ DOMAIN h = 1 .. Len(h)
  BY DEF CallsTyped
<1>2. Len(h) - 1 \in Int /\ \A i \in 1 .. Len(h) - 1 : h[i] \in ProbeType
  BY <1>1
<1> HIDE DEF h
<1>3. /\ g \in Seq(ProbeType) /\ Len(g) = Len(h) - 1
      /\ \A i \in 1 .. Len(h) - 1 : g[i] = h[i]
  <2>1. g = f
    BY <1>1
  <2>2. f \in [1 .. Len(h) - 1 -> ProbeType] /\ Len(h) - 1 \in Nat
    BY <1>1, <1>2
  <2>3. f \in Seq(ProbeType) /\ Len(f) = Len(h) - 1
    BY <2>2
  <2> QED BY <2>1, <2>3, Zenon
<1>4. DOMAIN g = 1 .. Len(h) - 1
  BY <1>3
<1>5. \A i \in DOMAIN g : i \in DOMAIN h /\ g[i] = h[i]
  BY <1>1, <1>3, <1>4
<1> HIDE DEF g
<1>6. held' = [held EXCEPT ![t] = g]
  BY DEF DropGuard, g, h
<1> QED BY <1>3, <1>5, <1>6, Zenon DEF CallsTyped, h

\* A guard takes the tree to unlock its range, or leaves a kernel range alone.
LEMMA UnlockBeginInv == ASSUME Inv, CallInv, ~panicked, NEW t \in Thread, UnlockBegin(t) PROVE CallInv'
<1>1. /\ todo[t] = <<>> /\ walk[t] = NULL /\ held[t] # <<>> /\ t \notin unlocking /\ vmrs' = vmrs
      /\ UNCHANGED <<locker, todo, walk, panicked>>
  BY DEF UnlockBegin, loadVars
<1>2. CallsTyped /\ RegionsTyped /\ Sound(t) /\ NamesFound /\ TreeAlone
  BY DEF CallInv, Inv
<1>3. PanicCause'
  BY <1>1 DEF PanicCause
<1>4. CASE IsUser(LastHeld(t).range)
  <2>1. ki_mm_lock_vmr(t) /\ unlocking' = unlocking \cup {t} /\ held' = held
    BY <1>4 DEF UnlockBegin
  <2>2. Others(t) /\ InTree(t)' /\ ~InTree(t)
    BY <1>1, <2>1, Zenon DEF Others, InTree
  <2>3. TreeAlone' /\ (overlapped => overlapped') /\ vmr_mutex' \in [thread : Thread, times : Int]
    BY <1>1, <1>2, <2>1, <2>2, EnterTree, Zenon
  <2>4. CallsTyped'
    BY <1>1, <1>2, <2>1, <2>3, Zenon DEF CallsTyped, ki_mm_lock_vmr
  <2>5. Sound(t)'
    <3>1. \A i \in DOMAIN held'[t] : IsUser(held'[t][i].range) => Laid(held[t][i].range)'
      BY <1>1, <1>2, <2>1, TreeSame, ZenonT(60) DEF Sound
    <3> QED BY <1>1, <1>4, <2>1, <3>1, Zenon DEF Sound, IsUser, LastHeld
  <2>6. \A u \in Thread : Sound(u)'
    BY <1>1, <2>2, <2>5, OthersSound, Zenon DEF CallInv
  <2>7. NamesFound'
    <3>1. ASSUME NEW x \in Starts, Needs(t, x)' PROVE Needs(t, x)
      BY <1>1, <2>1, <3>1, TreeSame, ZenonT(60) DEF Needs, IsUser
    <3>2. ~overlapped' => \A x \in Starts : Needs(t, x)' => locker'[x] = t
      BY <1>1, <1>2, <2>3, <3>1, ZenonT(60) DEF NamesFound
    <3> QED BY <1>1, <1>2, <2>2, <2>3, <3>2, NamesKept, Zenon
  <2> QED BY <1>3, <2>3, <2>4, <2>6, <2>7, Zenon DEF CallInv
<1>5. CASE ~IsUser(LastHeld(t).range)
  <2>1. DropGuard(t) /\ UNCHANGED <<vmr_mutex, overlapped, unlocking>>
    BY <1>5, Zenon DEF UnlockBegin
  <2>2. /\ held' \in [Thread -> Seq(ProbeType)]
        /\ \A u \in Thread \ {t} : held'[u] = held[u]
        /\ \A i \in DOMAIN held'[t] : i \in DOMAIN held[t] /\ held'[t][i] = held[t][i]
    BY <1>1, <1>2, <2>1, DropFacts, Zenon
  <2>3. Others(t) /\ (InTree(t)' <=> InTree(t))
    BY <1>1, <2>1, <2>2, Zenon DEF Others, InTree
  <2>4. CallsTyped'
    BY <1>1, <1>2, <2>1, <2>2, Zenon DEF CallsTyped
  <2>5. Sound(t)'
    <3>1. \A i \in DOMAIN held'[t] : IsUser(held'[t][i].range) => Laid(held[t][i].range)'
      BY <1>1, <1>2, <2>2, TreeSame, ZenonT(60) DEF Sound
    <3> QED BY <1>1, <2>1, <3>1 DEF Sound, IsUser
  <2>6. \A u \in Thread : Sound(u)'
    BY <1>1, <2>3, <2>5, OthersSound, Zenon DEF CallInv
  <2>7. NamesFound'
    <3>1. ASSUME NEW x \in Starts, Needs(t, x)' PROVE Needs(t, x)
      BY <1>1, <2>2, <3>1, TreeSame, Zenon DEF Needs, IsUser
    <3>2. ~overlapped' => \A x \in Starts : Needs(t, x)' => locker'[x] = t
      BY <1>1, <1>2, <2>1, <3>1, Zenon DEF NamesFound
    <3> QED BY <1>1, <1>2, <2>1, <2>3, <3>2, NamesKept, Zenon
  <2>8. TreeAlone'
    BY <1>1, <1>2, <2>1, <2>3, StayTree, Zenon
  <2> QED BY <1>3, <2>4, <2>6, <2>7, <2>8, Zenon DEF CallInv
<1> QED BY <1>4, <1>5, Zenon

\* Unlocking a range finds its regions as they were when they were locked.
LEMMA UnlockEndInv == ASSUME Inv, CallInv, ~panicked, NEW t \in Thread, UnlockEnd(t) PROVE CallInv'
<1> DEFINE r == LastHeld(t).range
<1>1. /\ t \in unlocking /\ unlocking' = unlocking \ {t} /\ vmr_mutex' = VmrReleased /\ DropGuard(t)
      /\ vmrs' = vmrs /\ UNCHANGED <<locker, todo, walk, overlapped>>
  BY Zenon DEF UnlockEnd, loadVars
<1>2. CallsTyped /\ RegionsTyped /\ Sound(t) /\ NamesFound /\ TreeAlone
  BY DEF CallInv, Inv
<1>3. held[t] # <<>> /\ walk[t] = NULL /\ todo[t] = <<>> /\ IsUser(r)
  BY <1>1, <1>2, Zenon DEF Sound
<1>4. /\ held' \in [Thread -> Seq(ProbeType)]
      /\ \A u \in Thread \ {t} : held'[u] = held[u]
      /\ \A i \in DOMAIN held'[t] : i \in DOMAIN held[t] /\ held'[t][i] = held[t][i]
  BY <1>1, <1>2, <1>3, DropFacts, Zenon
<1>5. Others(t) /\ InTree(t) /\ ~InTree(t)'
  BY <1>1, <1>3, <1>4, Zenon DEF Others, InTree
<1>6. TreeAlone' /\ (VmrCheckFails(t) => overlapped)
      /\ vmr_mutex' \in [thread : Thread \cup {NULL}, times : Int]
  BY <1>1, <1>2, <1>5, LeaveTree, Zenon
<1>7. CallsTyped'
  BY <1>1, <1>2, <1>4, <1>6, Zenon DEF CallsTyped
<1>8. Sound(t)'
  <2>1. \A i \in DOMAIN held'[t] : IsUser(held'[t][i].range) => Laid(held[t][i].range)'
    BY <1>1, <1>2, <1>4, TreeSame, Zenon DEF Sound
  <2> QED BY <1>1, <1>3, <2>1, ZenonT(60) DEF Sound, IsUser
<1>9. \A u \in Thread : Sound(u)'
  BY <1>1, <1>5, <1>8, OthersSound, Zenon DEF CallInv
<1>10. NamesFound'
  <2>1. ASSUME NEW x \in Starts, Needs(t, x)' PROVE Needs(t, x)
    BY ONLY <1>1, <1>4, <2>1, TreeSame, SMTT(60) DEF Needs, IsUser
  <2>2. ~overlapped' => \A x \in Starts : Needs(t, x)' => locker'[x] = t
    BY <1>1, <1>2, <2>1, Zenon DEF NamesFound
  <2> QED BY <1>1, <1>2, <1>5, <2>2, NamesKept, Zenon
<1>11. PanicCause'
  <2>1. Len(held[t]) \in DOMAIN held[t]
    BY ONLY <1>2, <1>3, SMTT(60) DEF CallsTyped
  <2>2. Laid(r)
    BY <1>2, <1>3, <2>1, Zenon DEF Sound, LastHeld
  <2>3. ~overlapped => \A x \in Visited(r) : locker[x] = t
    <3> SUFFICES ASSUME ~overlapped, NEW x \in Visited(r) PROVE locker[x] = t
      OBVIOUS
    <3>1. x \in Starts /\ Needs(t, x)
      BY <1>3, <2>1, Zenon DEF Needs, LastHeld, Visited
    <3> QED BY <1>2, <3>1 DEF NamesFound
  <2>4. panicked' => overlapped
    BY <1>6, <2>2, <2>3, Zenon DEF UnlockEnd, Laid
  <2> QED BY <1>1, <2>4 DEF PanicCause
<1> QED BY <1>6, <1>7, <1>9, <1>10, <1>11, Zenon DEF CallInv

\* While no call is under way, only the loader moves.
LEMMA QuietCallInv ==
    ASSUME CallInv, UNCHANGED callVars, ~panicked',
           \A t \in Thread : todo[t] = <<>> /\ walk[t] = NULL /\ held[t] = <<>> /\ t \notin unlocking
    PROVE  CallInv'
<1>1. \A t \in Thread : todo'[t] = <<>> /\ walk'[t] = NULL /\ held'[t] = <<>> /\ t \notin unlocking'
  BY Zenon DEF callVars
<1>2. CallsTyped'
  BY Zenon DEF CallInv, CallsTyped, callVars
<1>3. \A t \in Thread : Sound(t)'
  BY ONLY <1>1, SMTT(60) DEF Sound
<1>4. \A t \in Thread : ~InTree(t) /\ ~InTree(t)' /\ \A x : ~Needs(t, x)'
  BY <1>1, SMTT(60) DEF InTree, Needs
<1>5. NamesFound' /\ TreeAlone' /\ PanicCause'
  BY <1>4 DEF NamesFound, TreeAlone, PanicCause, CallInv, callVars
<1> QED BY <1>2, <1>3, <1>5, Zenon DEF CallInv

\* The probes of the system calls.
LEMMA CallProbes ==
    ASSUME NEW in \in Ins \cup Outs, NEW out \in Ins \cup Outs
    PROVE  /\ <<Probe(in, {"r"}, TRUE), Probe(out, {"w"}, TRUE)>> \in Seq(ProbeType)
           /\ <<Probe(in, {"r"}, FALSE)>> \in Seq(ProbeType)
<1>1. in \in Buffer /\ out \in Buffer
  BY VmrAssumption, Zenon
<1>2. /\ Probe(in, {"r"}, TRUE) \in ProbeType /\ Probe(out, {"w"}, TRUE) \in ProbeType
      /\ Probe(in, {"r"}, FALSE) \in ProbeType
  BY <1>1 DEF Probe, ProbeType, Access
<1>3. ASSUME NEW a \in ProbeType, NEW b \in ProbeType
      PROVE  <<a, b>> \in Seq(ProbeType) /\ <<a>> \in Seq(ProbeType)
  OBVIOUS
<1> QED BY <1>2, <1>3, Zenon

\* A stutter leaves the calls as they are.
LEMMA CallStutter == ASSUME CallInv, UNCHANGED vars PROVE CallInv'
<1>1. /\ vmrs' = vmrs /\ todo' = todo /\ held' = held /\ walk' = walk /\ unlocking' = unlocking
      /\ locker' = locker /\ vmr_mutex' = vmr_mutex /\ overlapped' = overlapped /\ panicked' = panicked
  BY Zenon DEF vars, loadVars, callVars
<1>2. CallsTyped' /\ PanicCause'
  BY <1>1, ZenonT(60) DEF CallInv, CallsTyped, PanicCause
<1>3. ASSUME NEW t \in Thread PROVE Sound(t)'
  <2>1. Sound(t)
    BY Zenon DEF CallInv
  <2>2. walk'[t] # NULL /\ ~panicked' => Walking(walk[t], Head(todo[t]))'
    BY <1>1, <2>1, TreeSame, ZenonT(60) DEF Sound
  <2>3. \A i \in DOMAIN held'[t] : IsUser(held'[t][i].range) => Laid(held[t][i].range)'
    BY <1>1, <2>1, TreeSame, Zenon DEF Sound
  <2> QED BY <1>1, <2>1, <2>2, <2>3, Zenon DEF Sound, IsUser, LastHeld
<1>4. \A t \in Thread : (InTree(t)' <=> InTree(t)) /\ \A x : Needs(t, x)' <=> Needs(t, x)
  BY <1>1, TreeSame, ZenonT(60) DEF InTree, Needs, IsUser
<1>5. NamesFound' /\ TreeAlone'
  BY <1>1, <1>4, TreeSame, Zenon DEF CallInv, NamesFound, TreeAlone
<1> QED BY <1>2, <1>3, <1>5, Zenon DEF CallInv

\* No step of the process breaks the invariant of the calls.
LEMMA CallStepInv == Inv /\ CallInv /\ [Next]_vars => CallInv'
<1> SUFFICES ASSUME Inv, CallInv, Next PROVE CallInv'
  BY CallStutter
<1>0. ~panicked
  BY DEF Next
<1>1. ASSUME phase = "loading", UNCHANGED callVars, ~panicked' PROVE CallInv'
  BY <1>1, QuietCallInv, Zenon DEF Inv, Quiet
<1>2. CASE \E v \in Page, n \in 1 .. UserPages, access \in SegAccess : BeginSegment(v, n, access)
  BY ONLY <1>0, <1>1, <1>2, SMTT(60) DEF BeginSegment
<1>3. CASE mm_mmap
  BY ONLY <1>0, <1>1, <1>3, SMTT(60) DEF mm_mmap
<1>4. CASE mm_merge_mapped_area
  <2>1. phase' = "loading" /\ phase = "loading" /\ UNCHANGED callVars
    BY <1>4 DEF mm_merge_mapped_area
  <2>2. ~panicked'
    BY <1>0, <1>4, <2>1, MergeInv, Zenon DEF Inv, MergesSucceed
  <2> QED BY <1>1, <2>1, <2>2, Zenon
<1>5. CASE \E a, b \in Page : mm_split_mapped_area(a, b)
  BY ONLY <1>0, <1>1, <1>5, SMTT(60) DEF mm_split_mapped_area
<1>6. CASE \E a \in Page, access \in SegAccess : mm_set_page_access(a, access)
  BY ONLY <1>0, <1>1, <1>6, SMTT(60) DEF mm_set_page_access
<1>7. CASE StartThreads \/ LoadFails
  BY <1>0, <1>1, <1>7, Zenon DEF StartThreads, LoadFails
<1>8. ASSUME NEW t \in Thread, NEW in \in Ins, NEW out \in Outs,
             \/ sysent_open(t, in, out) \/ sysent_read(t, in, out) \/ sysent_exec_child(t, in, out)
      PROVE  CallInv'
  BY <1>0, <1>8, CallProbes, BeginCall, Zenon DEF sysent_open, sysent_read, sysent_exec_child, TwoProbes
<1>9. ASSUME NEW t \in Thread, NEW in \in Ins, sysent_write(t, in) PROVE CallInv'
  BY <1>0, <1>9, CallProbes, BeginCall, Zenon DEF sysent_write
<1>10. ASSUME NEW t \in Thread, Calls(t) PROVE CallInv'
  BY <1>0, <1>10, KernelProbeInv, ProbeUserInv, WalkEndsInv, TurnsInv, LoopPanicsInv, UnlockBeginInv,
     UnlockEndInv, ZenonT(60) DEF Calls, Probes, Walks
<1> QED BY <1>2, <1>3, <1>4, <1>5, <1>6, <1>7, <1>8, <1>9, <1>10, ZenonT(60) DEF Next

\* A process starts without calls.
LEMMA CallInit == Init => CallInv
<1> SUFFICES ASSUME Init PROVE CallInv
  OBVIOUS
<1>1. \A t \in Thread : todo[t] = <<>> /\ walk[t] = NULL /\ held[t] = <<>> /\ t \notin unlocking
  BY Zenon DEF Init
<1>2. CallsTyped
  <2>1. <<>> \in Seq(ProbeType)
    OBVIOUS
  <2>2. /\ todo \in [Thread -> Seq(ProbeType)] /\ held \in [Thread -> Seq(ProbeType)]
        /\ walk \in [Thread -> WalkType \cup {NULL}]
    BY <2>1 DEF Init
  <2>3. locker \in [Page -> Thread \cup {NULL}]
    BY DEF Init
  <2>4. vmr_mutex \in [thread : Thread \cup {NULL}, times : Int]
    BY SMTT(60) DEF Init
  <2> QED BY <2>2, <2>3, <2>4, Zenon DEF Init, CallsTyped
<1>3. ASSUME NEW t \in Thread PROVE Sound(t) /\ ~InTree(t) /\ \A x : ~Needs(t, x)
  <2>1. walk[t] = NULL /\ held[t] = <<>> /\ t \notin unlocking
    BY <1>1, Zenon
  <2>2. DOMAIN held[t] = {}
    BY ONLY <2>1, SMTT(60)
  <2> QED BY <2>1, <2>2, Zenon DEF Sound, InTree, Needs
<1> QED BY <1>2, <1>3, ZenonT(60) DEF Init, CallInv, NamesFound, TreeAlone, PanicCause

-----------------------------------------------------------------------------
(* What a probe decides.                                                   *)

\* A thread that loops does so over a range that is not valid.
LEMMA LoopsInvalid ==
    ASSUME Inv, CallInv, ~panicked, NEW t \in Thread, Loops(t), Head(todo[t]).range.n > 0
    PROVE  ~Valid(Head(todo[t]))
<1>1. /\ RegionsTyped /\ Disjoint /\ Head(todo[t]) \in ProbeType /\ walk[t].loops
      /\ Walking(walk[t], Head(todo[t]))
  BY InWalk DEF Loops
<1>2. walk[t].initial # NULL /\ ~Extends(walk[t], Head(todo[t]).need)
  BY <1>1, Zenon DEF Walking
<1> QED BY <1>1, <1>2, RefusedInvalid, Zenon

\* The steps of thread t are about its own call.
LEMMA OnlyOwnCall ==
    ASSUME CallsTyped, NEW t \in Thread, Calls(t)
    PROVE  \A u \in Thread \ {t} : todo'[u] = todo[u] /\ walk'[u] = walk[u]
<1> USE DEF CallsTyped
<1>1. CASE ProbeCrosses(t) \/ ProbeKernel(t)
  BY <1>1, ZenonT(60) DEF ProbeCrosses, ProbeKernel, Fail, Grant
<1>2. CASE ProbeUser(t)
  BY <1>2 DEF ProbeUser
<1>3. CASE WalkEmpty(t) \/ TurnFails(t)
  BY <1>3, Zenon DEF WalkEmpty, TurnFails, Fail, Leave
<1>4. CASE TurnLoops(t) \/ TurnOn(t)
  BY <1>4, Zenon DEF TurnLoops, TurnOn
<1>5. CASE LoopPanics(t)
  BY <1>5 DEF LoopPanics, callVars
<1>6. CASE TurnLast(t)
  BY <1>6, Zenon DEF TurnLast, Fail, Grant, Leave
<1>7. CASE UnlockBegin(t) \/ UnlockEnd(t)
  BY <1>7, Zenon DEF UnlockBegin, UnlockEnd
<1> QED BY <1>1, <1>2, <1>3, <1>4, <1>5, <1>6, <1>7, ZenonT(60) DEF Calls, Probes, Walks

\* A step of a thread's own call grants a probe of user pages when, and only
\* when, it is valid, and begins to loop only over one that is not.
LEMMA OwnProbeDecides ==
    ASSUME Inv, CallInv, ~panicked, NEW t \in Thread, Calls(t), todo[t] # <<>>,
           IsUser(Head(todo[t]).range), LimitIsUser(Head(todo[t]).range), Head(todo[t]).range.n > 0
    PROVE  /\ todo'[t] # todo[t] /\ Head(todo[t]).unlocks => (held'[t] # held[t] <=> Valid(Head(todo[t])))
           /\ Loops(t)' => ~Valid(Head(todo[t]))
<1> DEFINE p == Head(todo[t])  w == walk[t]
<1>1. CallsTyped /\ RegionsTyped /\ Disjoint /\ p \in ProbeType
  BY HeadProbe DEF CallInv, Inv
<1>2. CASE ProbeCrosses(t) \/ ProbeKernel(t)
  BY <1>2, Zenon DEF ProbeCrosses, ProbeKernel
<1>3. CASE ProbeUser(t)
  <2>1. todo' = todo /\ walk'[t].loops = FALSE
    BY <1>1, <1>3, Zenon DEF ProbeUser, CallsTyped
  <2> QED BY <2>1, Zenon DEF Loops
<1>4. CASE UnlockBegin(t) \/ UnlockEnd(t)
  <2>1. todo[t] = <<>>
    BY <1>4, Zenon DEF UnlockBegin, UnlockEnd, CallInv, Sound
  <2> QED BY <2>1
<1>5. ASSUME walk'[t] = NULL, Fail(t), ~Valid(p)
      PROVE  /\ todo'[t] # todo[t] /\ p.unlocks => (held'[t] # held[t] <=> Valid(p))
             /\ Loops(t)' => ~Valid(p)
  BY <1>5, Zenon DEF Fail, Loops
<1>6. ASSUME Walks(t)
      PROVE  w # NULL /\ Walking(w, p)
  <2>1. w # NULL
    BY <1>6, Zenon DEF Walks, WalkEmpty, TurnFails, TurnLoops, LoopPanics, TurnOn, TurnLast, Turn
  <2> QED BY <2>1, InWalk, Zenon
<1>7. CASE WalkEmpty(t)
  <2>1. w.initial = NULL /\ Fail(t) /\ walk'[t] = NULL /\ Walking(w, p)
    BY <1>1, <1>6, <1>7, Zenon DEF Walks, WalkEmpty, Leave, CallsTyped
  <2>2. ~Valid(p)
    BY <1>1, <2>1, EmptyInvalid, Zenon DEF Walking
  <2> QED BY <1>5, <2>1, <2>2, ZenonT(60)
<1>8. CASE TurnFails(t)
  <2>1. w.initial # NULL /\ ~Extends(w, p.need) /\ Fail(t) /\ walk'[t] = NULL /\ Walking(w, p)
    BY <1>1, <1>6, <1>8, Zenon DEF Walks, TurnFails, Turn, Leave, CallsTyped
  <2>2. ~Valid(p)
    BY <1>1, <2>1, RefusedInvalid, Zenon
  <2> QED BY <1>5, <2>1, <2>2, Zenon
<1>9. CASE TurnLoops(t)
  <2>1. w.initial # NULL /\ ~Extends(w, p.need) /\ todo' = todo /\ Walking(w, p)
    BY <1>6, <1>9, Zenon DEF Walks, TurnLoops, Turn
  <2>2. ~Valid(p)
    BY <1>1, <2>1, RefusedInvalid, Zenon
  <2> QED BY <2>1, <2>2, Zenon
<1>10. CASE LoopPanics(t)
  <2>1. todo' = todo /\ walk' = walk
    BY <1>10, ZenonT(60) DEF LoopPanics, callVars
  <2> QED BY <2>1, LoopsInvalid, Zenon DEF Loops
<1>11. CASE TurnOn(t)
  <2>1. todo' = todo /\ w \in WalkType /\ ~w.loops
    BY <1>6, <1>11, InWalk, Zenon DEF Walks, TurnOn, Turn
  <2>2. walk'[t].loops = w.loops
    BY <1>1, <1>11, <2>1, Zenon DEF TurnOn, CallsTyped, WalkType
  <2> QED BY <2>1, <2>2, Zenon DEF Loops
<1>12. CASE TurnLast(t)
  <2>1. /\ w.initial # NULL /\ Extends(w, p.need) /\ get_next(w.vmr, w.end) = NULL /\ Walking(w, p)
        /\ walk'[t] = NULL
        /\ IF End(w.vmr) < p.range.page + p.range.n THEN Fail(t) ELSE Grant(t)
    BY <1>1, <1>6, <1>12, Zenon DEF Walks, TurnLast, Turn, Leave, CallsTyped
  <2>2. Valid(p) <=> ~(End(w.vmr) < p.range.page + p.range.n)
    BY <1>1, <2>1, EndDecides, Zenon
  <2>3. CASE Valid(p)
    <3>1. Grant(t)
      BY <2>1, <2>2, <2>3, ZenonT(60)
    <3>2. p.unlocks => held'[t] # held[t]
      BY <1>1, <3>1, GrantFacts, ZenonT(60)
    <3> QED BY <2>1, <2>3, <3>2, Zenon DEF Loops
  <2>4. CASE ~Valid(p)
    BY <1>5, <2>1, <2>2, <2>4, Zenon
  <2> QED BY <2>3, <2>4, Zenon
<1> QED BY <1>2, <1>3, <1>4, <1>7, <1>8, <1>9, <1>10, <1>11, <1>12, ZenonT(60) DEF Calls, Probes, Walks

\* The inductive invariant of the system calls, on top of it: the regions of a
\* walk form a chain, the ranges to unlock are laid out, and threads that did
\* not meet find their names.
THEOREM CallInvariance == Spec => []CallInv
BY InitInv, StepInv, CallInit, CallStepInv, PTL DEF Spec

\* Where the threads of a process do not meet in the tree or on a region, only
\* the assertion of misc.cc:412 on an empty range can panic: the layout and the
\* names that mm_unlock_pages checks are those mm_probe_and_lock_pages left.
THEOREM PanicsHaveCause == Spec => []PanicCause
<1>1. CallInv => PanicCause
  BY DEF CallInv
<1> QED BY <1>1, CallInvariance, PTL

\* mm_probe_and_lock_pages (misc.cc:388-460) grants a range of user pages when,
\* and only when, every page of it is in a region that allows the access, and
\* never ends only for a range that is not so.
THEOREM ProbesDecide == Spec => ProbeDecides
<1> DEFINE Decides(t) ==
              todo[t] # <<>> =>
                 LET p == Head(todo[t]) IN
                 IsUser(p.range) /\ LimitIsUser(p.range) /\ p.range.n > 0 =>
                    /\ todo'[t] # todo[t] /\ p.unlocks => (held'[t] # held[t] <=> Valid(p))
                    /\ Loops(t)' => ~Valid(p)
<1>1. ASSUME Inv, CallInv, Next, NEW t \in Thread PROVE Decides(t)
  <2> SUFFICES ASSUME todo[t] # <<>>, IsUser(Head(todo[t]).range), LimitIsUser(Head(todo[t]).range),
                      Head(todo[t]).range.n > 0
               PROVE  /\ todo'[t] # todo[t] /\ Head(todo[t]).unlocks
                            => (held'[t] # held[t] <=> Valid(Head(todo[t])))
                      /\ Loops(t)' => ~Valid(Head(todo[t]))
    BY ZenonT(60)
  <2>0. ~panicked
    BY <1>1, ZenonT(60) DEF Next
  <2>1. phase = "running"
    BY <1>1, Zenon DEF Inv, Quiet
  <2>2. CASE Calls(t)
    BY <1>1, <2>0, <2>2, OwnProbeDecides, Zenon
  <2>3. ASSUME todo'[t] = todo[t], walk'[t] = walk[t]
        PROVE  /\ todo'[t] # todo[t] /\ Head(todo[t]).unlocks
                     => (held'[t] # held[t] <=> Valid(Head(todo[t])))
               /\ Loops(t)' => ~Valid(Head(todo[t]))
    BY <1>1, <2>0, <2>3, LoopsInvalid, Zenon DEF Loops
  <2>4. ASSUME NEW u \in Thread, u # t, Calls(u) PROVE todo'[t] = todo[t] /\ walk'[t] = walk[t]
    BY <1>1, <2>4, OnlyOwnCall, Zenon DEF CallInv
  <2>5. ASSUME NEW u \in Thread, NEW in, NEW out,
               \/ sysent_open(u, in, out) \/ sysent_read(u, in, out)
               \/ sysent_exec_child(u, in, out) \/ sysent_write(u, in)
        PROVE  todo'[t] = todo[t] /\ walk'[t] = walk[t]
    <3>1. Idle(u) /\ walk' = walk /\ \E ps : todo' = [todo EXCEPT ![u] = ps]
      BY <2>5, Zenon DEF sysent_open, sysent_read, sysent_exec_child, sysent_write, TwoProbes
    <3> QED BY <1>1, <3>1, Zenon DEF Idle, CallInv, CallsTyped
  <2>6. \E u \in Thread :
           \/ \E in \in Ins, out \in Outs : \/ sysent_open(u, in, out) \/ sysent_read(u, in, out)
                                           \/ sysent_exec_child(u, in, out)
           \/ \E in \in Ins : sysent_write(u, in)
           \/ Calls(u)
    BY <1>1, <2>1, Zenon DEF Next, BeginSegment, mm_mmap, mm_merge_mapped_area, mm_split_mapped_area,
                      mm_set_page_access, StartThreads, LoadFails
  <2> QED BY <2>2, <2>3, <2>4, <2>5, <2>6, Zenon
<1>2. Inv /\ CallInv /\ [Next]_vars => [\A t \in Thread : Decides(t)]_vars
  BY <1>1, ZenonT(60)
<1> QED BY <1>2, Invariance, CallInvariance, PTL DEF Spec, ProbeDecides
=============================================================================
