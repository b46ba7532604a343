----------------------------- MODULE VmrProofs ------------------------------
(***************************************************************************)
(* Proofs that mapping, merging and splitting keep the regions of a        *)
(* process apart, and that the merges of a loader succeed, for user spaces *)
(* of any size; then what a walk over the regions finds, for the proofs    *)
(* about the system calls in VmrCallProofs.                                *)
(***************************************************************************)
EXTENDS Vmr, WellFoundedInduction, TLAPS

Region == [size : Nat \ {0}, access : Access]
Segment == [start : Page, next : Page, top : 1 .. UserPages, access : Access, mapped : BOOLEAN]

\* The tree is a function on pages.
RegionsTyped == Starts \subseteq Page /\ vmrs \in [Starts -> Region]

\* What is mapped of a segment is one region, and the page mapped last may be
\* another one behind it.
SegmentMapped ==
    phase = "loading" /\ seg # NULL =>
        /\ seg \in Segment /\ seg.start <= seg.next /\ seg.next < seg.top
        /\ seg.start < seg.next => seg.start \in Starts /\ End(seg.start) = seg.next
        /\ seg.mapped => seg.next \in Starts /\ vmrs[seg.next].size = 1

\* No thread of the process makes a system call before it is loaded.
Quiet == phase # "running" =>
            \A t \in Thread : todo[t] = <<>> /\ walk[t] = NULL /\ held[t] = <<>> /\ t \notin unlocking

\* The loader's merges (elf.cc:156), which it panics about, succeed.
MergesSucceed == phase = "loading" => ~panicked

\* The inductive invariant.
Inv == RegionsTyped /\ SegmentMapped /\ Quiet /\ Disjoint /\ MergesSucceed

\* The values of the calls' variables.
CallsTyped ==
    /\ todo \in [Thread -> Seq(ProbeType)] /\ held \in [Thread -> Seq(ProbeType)]
    /\ walk \in [Thread -> WalkType \cup {NULL}] /\ unlocking \subseteq Thread
    /\ locker \in [Page -> Thread \cup {NULL}]
    /\ vmr_mutex \in [thread : Thread \cup {NULL}, times : Int]
    /\ overlapped \in BOOLEAN

\* The regions from a to b allow the access, and each one but b is followed by
\* a neighbour.
Chain(a, b, need) ==
    \A x \in Starts : a <= x /\ x <= b => /\ need \subseteq vmrs[x].access
                                          /\ x < b => End(x) \in Starts

\* The walk over the regions of w, for the probe p.
Walking(w, p) ==
    /\ IsUser(p.range) /\ LimitIsUser(p.range)
    /\ w.initial = find_max_lteq(p.range.page)
    /\ w.end = find_max_lteq(p.range.page + p.range.n - 1)
    /\ w.initial # NULL =>
          /\ w.end # NULL
          /\ w.vmr \in Visited(p.range)
          /\ w.last = NULL <=> w.vmr = w.initial
          /\ w.last # NULL => /\ w.last \in Visited(p.range) /\ IsNext(w.vmr, w.last)
                              /\ Chain(w.initial, w.last, p.need)
    /\ w.loops => w.initial # NULL /\ w.last # NULL /\ ~Extends(w, p.need)

\* The regions that mm_unlock_pages visits for a range follow one another up
\* to the end of the range.
Laid(r) == /\ \A x \in Visited(r) : x <= r.page \/ \E y \in Visited(r) : End(y) = x
           /\ \E x \in Visited(r) : End(x) >= r.page + r.n

\* A thread that walks is at a probe of its call; the ranges its guards will
\* unlock are laid out as mm_unlock_pages expects; inside that function it has
\* a guard left and no probe.
Sound(t) ==
    /\ walk[t] # NULL => /\ todo[t] # <<>> /\ t \notin unlocking
                         /\ ~panicked => Walking(walk[t], Head(todo[t]))
    /\ \A i \in DOMAIN held[t] : IsUser(held[t][i].range) => Laid(held[t][i].range)
    /\ t \in unlocking => /\ todo[t] = <<>> /\ walk[t] = NULL
                          /\ held[t] # <<>> /\ IsUser(LastHeld(t).range)

\* Each of the threads that did not meet finds its name in the regions it
\* locked.
NamesFound == ~overlapped => \A t \in Thread : \A x \in Starts : Needs(t, x) => locker[x] = t

\* One of them is in the tree, and vmr_mutex names it.
TreeAlone ==
    ~overlapped =>
        /\ \A t, u \in Thread : InTree(t) /\ InTree(u) => t = u
        /\ \A t \in Thread : InTree(t) => vmr_mutex.thread = t /\ vmr_mutex.times = 1
        /\ (\A t \in Thread : ~InTree(t)) => vmr_mutex.times = 0

\* The inductive invariant of the calls.
CallInv == /\ CallsTyped /\ \A t \in Thread : Sound(t)
           /\ NamesFound /\ TreeAlone /\ PanicCause

\* What a step of thread t leaves alone.
Others(t) == \A u \in Thread \ {t} : /\ walk'[u] = walk[u] /\ todo'[u] = todo[u] /\ held'[u] = held[u]
                                     /\ u \in unlocking' <=> u \in unlocking

\* What is needed of the assumption on the constants.
LEMMA Sizes == UserPages \in Nat \ {0} /\ NULL \notin Int
BY VmrAssumption

-----------------------------------------------------------------------------
(* find_max_lteq.                                                          *)

\* A nonempty set of naturals up to n has a greatest element: the one whose
\* distance to n is least.
LEMMA GreatestExists ==
    ASSUME NEW n \in Nat, NEW S \in SUBSET (0 .. n), S # {}
    PROVE  \E i \in S : \A j \in S : j <= i
<1> DEFINE D == {n - i : i \in S}
<1>1. D \in SUBSET Nat /\ D # {}
  <2>1. \A i \in S : n - i \in Nat
    OBVIOUS
  <2> QED BY <2>1, Zenon
<1>2. \E d \in D : \A e \in D : ~(<<e, d>> \in OpToRel(<, Nat))
  BY <1>1, WFMin, NatLessThanWellFounded, Zenon
<1>3. \A d, e \in Nat : <<e, d>> \in OpToRel(<, Nat) <=> e < d
  BY DEF OpToRel
<1>4. PICK d \in D : \A e \in D : ~(e < d)
  BY <1>1, <1>2, <1>3, Zenon
<1>5. PICK i \in S : d = n - i
  OBVIOUS
<1>6. \A j \in S : ~(n - j < n - i)
  BY <1>4, <1>5, Zenon
<1>7. \A j \in S : j <= i
  BY <1>6
<1> QED BY <1>7

\* A region lies on pages and is not empty.
LEMMA RegionFacts ==
    ASSUME RegionsTyped, NEW x \in Starts
    PROVE  /\ x \in 0 .. UserPages - 1 /\ x \in Int /\ x >= 0 /\ x < UserPages /\ x # NULL
           /\ End(x) \in Int /\ x < End(x) /\ vmrs[x].access \in Access
<1>1. x \in 0 .. UserPages - 1 /\ vmrs[x].size \in Nat \ {0} /\ vmrs[x].access \in Access
  BY DEF RegionsTyped, Page, Region
<1> QED BY <1>1, Sizes DEF End

\* Among the regions that start at or below an address, one starts last.
LEMMA GreatestStart ==
    ASSUME RegionsTyped, NEW a \in Int, NEW x \in Starts, x <= a
    PROVE  \E m \in Starts : IsMaxLteq(m, a)
<1> DEFINE S == {y \in Starts : y <= a}
<1>1. UserPages \in Nat /\ S \in SUBSET (0 .. UserPages) /\ S # {}
  <2>1. \A y \in Starts : y \in 0 .. UserPages
    BY Sizes DEF RegionsTyped, Page
  <2> QED BY Sizes, <2>1
<1> HIDE DEF S
<1>2. PICK i \in S : \A j \in S : j <= i
  BY <1>1, GreatestExists, Zenon
<1> QED BY <1>2 DEF S, IsMaxLteq

\* The search returns the last region that starts at or below an address.
LEMMA MaxLteqFound ==
    ASSUME RegionsTyped, NEW a \in Int, NEW x \in Starts, x <= a
    PROVE  IsMaxLteq(find_max_lteq(a), a) /\ find_max_lteq(a) # NULL
<1>1. \E y \in Starts : IsMaxLteq(y, a)
  BY GreatestStart
<1>2. find_max_lteq(a) = CHOOSE y \in Starts : IsMaxLteq(y, a)
  BY DEF find_max_lteq
<1>3. IsMaxLteq(find_max_lteq(a), a)
  BY <1>1, <1>2
<1>4. find_max_lteq(a) \in Starts
  BY <1>3 DEF IsMaxLteq
<1> QED BY <1>3, <1>4, RegionFacts

\* What it returns, unless it is null, starts at or below the address and last.
LEMMA MaxLteqMeans ==
    ASSUME RegionsTyped, NEW a \in Int
    PROVE  IF find_max_lteq(a) = NULL THEN \A x \in Starts : ~(x <= a)
           ELSE IsMaxLteq(find_max_lteq(a), a)
<1>1. CASE \E x \in Starts : x <= a
  BY <1>1, MaxLteqFound
<1>2. CASE \A x \in Starts : ~(x <= a)
  BY <1>2 DEF find_max_lteq
<1> QED BY <1>1, <1>2

\* Only the last region that starts at or below a page can hold it.
LEMMA OnlyRegion ==
    ASSUME RegionsTyped, Disjoint, NEW q \in Int, NEW m \in Starts, IsMaxLteq(m, q),
           NEW x \in Starts, x <= q, q < End(x)
    PROVE  x = m
<1>1. x <= m /\ m <= q
  BY DEF IsMaxLteq
<1>2. x < m => End(x) <= m
  BY DEF Disjoint
<1>3. x \in Int /\ m \in Int /\ End(x) \in Int
  BY RegionFacts
<1> QED BY <1>1, <1>2, <1>3

\* get_next returns the region that starts next, when there is one.
LEMMA NextFound ==
    ASSUME RegionsTyped, NEW x \in Starts, NEW last, x # last, NEW y \in Starts, y > x
    PROVE  IsNext(get_next(x, last), x) /\ get_next(x, last) # NULL
<1> DEFINE S == {z \in Starts : z > x}
<1>1. S \in SUBSET Nat /\ S # {}
  <2>1. \A z \in Starts : z \in Nat
    BY RegionFacts, Sizes
  <2> QED BY <2>1
<1>2. \E z \in S : \A w \in S : ~(<<w, z>> \in OpToRel(<, Nat))
  BY <1>1, WFMin, NatLessThanWellFounded, Zenon
<1>3. \A w, z \in Nat : <<w, z>> \in OpToRel(<, Nat) <=> w < z
  BY DEF OpToRel
<1>4. PICK z \in S : \A w \in S : ~(w < z)
  BY <1>1, <1>2, <1>3, Zenon
<1>5. IsNext(z, x)
  <2>1. \A w \in Starts : w > x => z <= w
    <3> SUFFICES ASSUME NEW w \in Starts, w > x PROVE z <= w
      OBVIOUS
    <3>1. ~(w < z) /\ w \in Int /\ z \in Int
      BY <1>4, RegionFacts
    <3> QED BY <3>1
  <2> QED BY <2>1 DEF IsNext
<1>6. get_next(x, last) = CHOOSE w \in Starts : IsNext(w, x)
  BY DEF get_next
<1>7. IsNext(get_next(x, last), x)
  BY <1>5, <1>6 DEF IsNext
<1>8. get_next(x, last) \in Starts
  BY <1>7 DEF IsNext
<1> QED BY <1>7, <1>8, RegionFacts

\* A page that mm_mmap finds uncovered is in no region.
LEMMA UncoveredPage ==
    ASSUME RegionsTyped, Disjoint, NEW v \in Page, ~Covered(v, v), NEW x \in Starts
    PROVE  x # v /\ (x < v => End(x) <= v)
<1> SUFFICES ASSUME x <= v PROVE x # v /\ End(x) <= v
  BY DEF RegionsTyped, Page
<1> DEFINE m == find_max_lteq(v)
<1>0. v \in Int
  BY Sizes DEF Page
<1>1. m \in Starts /\ m <= v /\ x <= m /\ m # NULL
  BY <1>0, MaxLteqFound DEF IsMaxLteq
<1>2. ~(End(m) > v)
  BY <1>1 DEF Covered
<1> HIDE DEF m
<1>3. x \in Int /\ m \in Int /\ v \in Int
  BY <1>1, VmrAssumption DEF RegionsTyped, Page
<1>4. vmrs[x].size \in Nat \ {0} /\ vmrs[m].size \in Nat \ {0}
  BY <1>1 DEF RegionsTyped, Region
<1>5. CASE x = m
  BY <1>2, <1>3, <1>4, <1>5 DEF End
<1>6. CASE x < m
  <2>1. End(x) <= m
    BY <1>1, <1>6 DEF Disjoint
  <2> QED BY <1>1, <1>3, <1>4, <1>6, <2>1 DEF End
<1> QED BY <1>1, <1>3, <1>5, <1>6

-----------------------------------------------------------------------------
(* The steps of the loader.                                                *)

\* A process starts with no region, no segment and no call.
LEMMA InitInv == Init => Inv
BY Sizes DEF Init, Inv, RegionsTyped, SegmentMapped, Quiet, Disjoint, MergesSucceed, Starts, Region

\* A new segment has nothing mapped yet.
LEMMA BeginSegmentInv ==
    ASSUME Inv, ~panicked, NEW v \in Page, NEW n \in 1 .. UserPages, NEW access \in SegAccess,
           BeginSegment(v, n, access)
    PROVE  Inv'
<1>1. seg' \in Segment /\ seg'.start = v /\ seg'.next = v /\ seg'.next < seg'.top /\ ~seg'.mapped
  BY Sizes, VmrAssumption DEF BeginSegment, Segment, Page
<1>2. UNCHANGED <<phase, vmrs, callVars, panicked>>
  BY DEF BeginSegment
<1>3. RegionsTyped' /\ Disjoint' /\ Quiet' /\ MergesSucceed'
  BY <1>2 DEF Inv, RegionsTyped, Disjoint, Quiet, MergesSucceed, Starts, End, callVars
<1>4. SegmentMapped'
  BY <1>1, Sizes DEF SegmentMapped, Page
<1> QED BY <1>3, <1>4 DEF Inv

\* mm_mmap adds a page that no region has, or gives up.
LEMMA MmapInv == ASSUME Inv, ~panicked, mm_mmap PROVE Inv'
<1> DEFINE v == seg.next
<1>1. seg \in Segment /\ seg.start <= v /\ v < seg.top /\ v \in Page /\ phase = "loading"
  BY DEF Inv, SegmentMapped, mm_mmap, Segment
<1>2. CASE /\ ~Covered(v, v) /\ vmrs' = With(v, [size |-> 1, access |-> seg.access])
           /\ seg' = [seg EXCEPT !.mapped = TRUE] /\ UNCHANGED <<phase, panicked>>
  <2>1. Starts' = Starts \cup {v} /\ v \notin Starts
    BY <1>1, <1>2, UncoveredPage DEF Inv, With, Starts
  <2>2. /\ \A x \in Starts : vmrs'[x] = vmrs[x]
        /\ vmrs'[v] = [size |-> 1, access |-> seg.access]
    BY <1>2, <2>1 DEF With, Starts
  <2>3. RegionsTyped'
    <3>1. vmrs'[v] \in Region
      BY <1>1, <2>2 DEF Segment, Region
    <3>2. vmrs' \in [Starts' -> Region]
      BY <1>2, <2>1, <2>2, <3>1 DEF Inv, RegionsTyped, With, Starts
    <3> QED BY <1>1, <2>1, <3>2, Zenon DEF Inv, RegionsTyped, Page
  <2>4. ASSUME NEW x \in Starts', NEW y \in Starts', x < y PROVE End(x)' <= y
    <3>1. x \in Int /\ y \in Int /\ v \in Int
      BY <1>1, <2>1, Sizes DEF Inv, RegionsTyped, Page
    <3>2. CASE x = v
      BY <2>2, <2>4, <3>1, <3>2 DEF End
    <3>3. CASE x \in Starts /\ y = v
      BY <1>1, <1>2, <2>2, <2>4, <3>3, UncoveredPage, Zenon DEF Inv, End
    <3>4. CASE x \in Starts /\ y \in Starts
      BY <2>2, <2>4, <3>4, Zenon DEF Inv, Disjoint, End
    <3> QED BY <2>1, <3>2, <3>3, <3>4
  <2>5. SegmentMapped'
    <3>1. seg' \in Segment /\ seg'.start = seg.start /\ seg'.next = v /\ seg'.top = seg.top
      BY <1>1, <1>2, Zenon DEF Segment
    <3>2. seg.start < v => seg.start \in Starts /\ End(seg.start) = v
      BY <1>1 DEF Inv, SegmentMapped, mm_mmap
    <3>3. seg.start < v => seg.start \in Starts' /\ End(seg.start)' = v
      BY <1>2, <2>1, <2>2, <3>1, <3>2 DEF End
    <3> QED BY <1>1, <2>1, <2>2, <3>1, <3>3 DEF SegmentMapped, End
  <2>6. Quiet' /\ MergesSucceed'
    BY <1>2 DEF Inv, Quiet, MergesSucceed, mm_mmap, callVars
  <2> QED BY <2>3, <2>4, <2>5, <2>6 DEF Inv, Disjoint
<1>3. CASE phase' = "failed" /\ vmrs' = Without(v) /\ UNCHANGED <<seg, panicked>>
  <2>1. Starts' = Starts \ {v} /\ \A x \in Starts' : vmrs'[x] = vmrs[x]
    BY <1>3 DEF Without, Starts
  <2>2. RegionsTyped' /\ Disjoint'
    BY <1>3, <2>1 DEF Inv, RegionsTyped, Disjoint, Without, End, Starts
  <2> QED BY <1>1, <1>3, <2>2 DEF Inv, SegmentMapped, Quiet, MergesSucceed, mm_mmap, callVars
<1> QED BY <1>2, <1>3 DEF mm_mmap

\* What the steps that follow a mapped page do to the segment.
LEMMA SegmentGoesOn ==
    ASSUME Inv, phase = "loading", seg # NULL, seg.mapped,
           phase' = phase, seg.start \in Starts',
           seg.start + vmrs'[seg.start].size = seg.next + 1,
           seg' = IF seg.next + 1 = seg.top THEN NULL
                  ELSE [seg EXCEPT !.next = @ + 1, !.mapped = FALSE]
    PROVE  SegmentMapped'
<1>1. seg \in Segment /\ seg.start <= seg.next /\ seg.next < seg.top
  BY DEF Inv, SegmentMapped
<1>2. /\ seg.start \in 0 .. UserPages - 1 /\ seg.next \in 0 .. UserPages - 1
      /\ seg.top \in 1 .. UserPages
  BY <1>1 DEF Segment, Page
<1>3. SUFFICES ASSUME seg.next + 1 # seg.top PROVE SegmentMapped'
  BY DEF SegmentMapped
<1>4. seg.next + 1 \in Page /\ seg.next + 1 < seg.top
  BY <1>1, <1>2, <1>3, Sizes DEF Page
<1>5. /\ seg' \in Segment /\ seg'.start = seg.start /\ seg'.next = seg.next + 1
      /\ seg'.top = seg.top /\ ~seg'.mapped
  BY <1>1, <1>3, <1>4, Zenon DEF Segment
<1> QED BY <1>1, <1>2, <1>4, <1>5, Sizes DEF SegmentMapped, End

\* mm_merge_mapped_area makes one region of the segment so far and its new page.
LEMMA MergeInv == ASSUME Inv, ~panicked, mm_merge_mapped_area PROVE Inv'
<1> DEFINE a == seg.start  b == seg.next
<1>1. /\ phase = "loading" /\ seg # NULL /\ seg.mapped
      /\ a \in Page /\ b \in Page /\ a <= b /\ b \in Starts /\ vmrs[b].size = 1
      /\ a < b => a \in Starts /\ End(a) = b
  BY DEF mm_merge_mapped_area, Inv, SegmentMapped, Segment
<1>2. a \in Int /\ b \in Int /\ \A x \in Starts : x \in Int
  BY <1>1, Sizes DEF Inv, RegionsTyped, Page
<1>3. /\ UNCHANGED <<phase, callVars>>
      /\ seg' = IF b + 1 = seg.top THEN NULL ELSE [seg EXCEPT !.next = @ + 1, !.mapped = FALSE]
  BY DEF mm_merge_mapped_area
<1>4. Quiet'
  BY <1>3 DEF Inv, Quiet, callVars
<1>5. CASE a = b
  <2>1. UNCHANGED <<vmrs, panicked>>
    BY <1>5 DEF mm_merge_mapped_area
  <2>2. RegionsTyped' /\ Disjoint' /\ MergesSucceed'
    BY <1>3, <2>1 DEF Inv, RegionsTyped, Disjoint, MergesSucceed, Starts, End
  <2>3. a \in Starts' /\ a + vmrs'[a].size = b + 1
    BY <1>1, <1>3, <1>5, <2>1 DEF Starts, End
  <2> QED BY <1>1, <1>3, <1>4, <2>2, <2>3, SegmentGoesOn DEF Inv
<1>6. CASE a # b
  <2>1. a < b /\ a \in Starts /\ End(a) = b
    BY <1>1, <1>2, <1>6
  <2>2. vmrs' = [Without(b) EXCEPT ![a].size = @ + vmrs[b].size] /\ ~panicked'
    BY <1>1, <1>6, <2>1, Zenon DEF mm_merge_mapped_area
  <2>3. /\ Starts' = Starts \ {b}
        /\ \A x \in Starts' \ {a} : vmrs'[x] = vmrs[x]
        /\ vmrs'[a] = [vmrs[a] EXCEPT !.size = @ + 1]
    BY <1>1, <1>6, <2>1, <2>2, Zenon DEF Without, Starts
  <2>4. vmrs[a] \in Region /\ vmrs'[a] \in Region /\ vmrs'[a].size = vmrs[a].size + 1
    BY <2>1, <2>3 DEF Inv, RegionsTyped, Region
  <2>5. RegionsTyped'
    <3>1. vmrs' = [x \in Starts' |-> vmrs'[x]]
      BY <2>2, Zenon DEF Without, Starts
    <3>2. \A x \in Starts' : vmrs'[x] \in Region
      BY <2>3, <2>4 DEF Inv, RegionsTyped
    <3>3. vmrs' \in [Starts' -> Region]
      BY <3>1, <3>2
    <3> QED BY <2>3, <3>3 DEF Inv, RegionsTyped
  <2>6. a \in Starts' /\ a + vmrs'[a].size = b + 1
    <3>1. a + vmrs[a].size = b /\ vmrs[a].size \in Nat
      BY <2>1, <2>4 DEF End, Region
    <3> QED BY <1>2, <1>6, <2>1, <2>3, <2>4, <3>1
  <2>7. ASSUME NEW x \in Starts', NEW y \in Starts', x < y PROVE End(x)' <= y
    <3>1. x \in Starts /\ y \in Starts /\ y # b
      BY <2>3
    <3>2. CASE x # a
      BY <2>3, <2>7, <3>1, <3>2 DEF Inv, Disjoint, End
    <3>3. CASE x = a
      <4>1. b <= y
        BY <2>1, <2>7, <3>1, <3>3 DEF Inv, Disjoint
      <4>2. x + vmrs'[x].size = b + 1
        BY <2>6, <3>3
      <4> QED BY <1>2, <3>1, <4>1, <4>2 DEF End
    <3> QED BY <3>2, <3>3
  <2> QED BY <1>1, <1>3, <1>4, <2>2, <2>5, <2>6, <2>7, SegmentGoesOn, Zenon DEF Inv, Disjoint, MergesSucceed
<1> QED BY <1>5, <1>6

\* mm_split_mapped_area cuts a region in two.
LEMMA SplitInv ==
    ASSUME Inv, ~panicked, NEW a \in Page, NEW s \in Page, mm_split_mapped_area(a, s)
    PROVE  Inv'
<1>1. /\ a < s /\ a \in Starts /\ End(a) > s
      /\ UNCHANGED <<phase, seg, callVars, panicked>> /\ seg = NULL
      /\ vmrs' = [With(s, [size |-> End(a) - s, access |-> vmrs[a].access]) EXCEPT ![a].size = s - a]
  BY DEF mm_split_mapped_area
<1>2. a \in Int /\ s \in Int /\ \A x \in Starts : x \in Int /\ vmrs[x].size \in Nat /\ vmrs[x].size > 0
  BY Sizes DEF Inv, RegionsTyped, Region, Page
<1>3. s \notin Starts
  BY <1>1, <1>2 DEF Inv, Disjoint, End
<1>4. /\ Starts' = Starts \cup {s}
      /\ \A x \in Starts \ {a} : vmrs'[x] = vmrs[x]
      /\ vmrs'[a] = [vmrs[a] EXCEPT !.size = s - a]
      /\ vmrs'[s] = [size |-> End(a) - s, access |-> vmrs[a].access]
  BY <1>1, <1>2, <1>3, Zenon DEF With, Starts
<1>5. vmrs'[a] \in Region /\ vmrs'[a].size = s - a /\ vmrs'[s] \in Region /\ vmrs'[s].size = End(a) - s
  BY <1>1, <1>2, <1>4 DEF Inv, RegionsTyped, Region, End
<1>6. RegionsTyped'
  <2>1. vmrs' = [x \in Starts' |-> vmrs'[x]]
    BY <1>1, Zenon DEF With, Starts
  <2>2. \A x \in Starts' : vmrs'[x] \in Region
    BY <1>4, <1>5 DEF Inv, RegionsTyped
  <2>3. vmrs' \in [Starts' -> Region]
    BY <2>1, <2>2
  <2> QED BY <1>4, <2>3 DEF Inv, RegionsTyped, Page
<1>7. ASSUME NEW x \in Starts', NEW y \in Starts', x < y PROVE End(x)' <= y
  <2>1. \A z \in Starts : z > a => z >= End(a)
    BY <1>1 DEF Inv, Disjoint
  <2>2. \A z \in Starts : z < a => End(z) <= a
    BY <1>1 DEF Inv, Disjoint
  <2>3. End(a) = a + vmrs[a].size
    BY Zenon DEF End
  <2>4. CASE x = a
    BY ONLY <1>1, <1>2, <1>4, <1>5, <1>7, <2>1, <2>3, <2>4, SMTT(60) DEF End
  <2>5. CASE x = s
    BY ONLY <1>1, <1>2, <1>4, <1>5, <1>7, <2>1, <2>3, <2>5, SMTT(60) DEF End
  <2>6. CASE x \in Starts \ {a} /\ y = s
    <3>1. x < a
      BY <1>1, <1>2, <1>7, <2>1, <2>3, <2>6
    <3> QED BY ONLY <1>1, <1>2, <1>4, <2>2, <2>6, <3>1, SMTT(60) DEF End
  <2>7. CASE x \in Starts \ {a} /\ y \in Starts
    BY <1>4, <1>7, <2>7 DEF Inv, Disjoint, End
  <2> QED BY <1>4, <2>4, <2>5, <2>6, <2>7
<1> QED BY <1>1, <1>6, <1>7 DEF Inv, Disjoint, SegmentMapped, Quiet, MergesSucceed, callVars

\* Changing the access of a region leaves where it lies.
LEMMA AccessInv ==
    ASSUME Inv, ~panicked, NEW a \in Page, NEW access \in SegAccess, mm_set_page_access(a, access)
    PROVE  Inv'
<1>1. /\ seg = NULL /\ vmrs' = [vmrs EXCEPT ![a].access = access] /\ a \in Starts
      /\ UNCHANGED <<phase, seg, callVars, panicked>>
  BY DEF mm_set_page_access
<1>2. access \in Access
  BY VmrAssumption
<1>3. vmrs' \in [Starts -> Region] /\ \A x \in Starts : vmrs'[x].size = vmrs[x].size
  BY <1>1, <1>2 DEF Inv, RegionsTyped, Region
<1>4. Starts' = Starts
  BY <1>3 DEF Starts
<1> QED
  BY <1>1, <1>3, <1>4
  DEF Inv, RegionsTyped, Disjoint, End, SegmentMapped, Quiet, MergesSucceed, callVars

-----------------------------------------------------------------------------
(* The threads of the process.                                             *)

\* A system call that is under way shows that the process is loaded; no step of
\* one changes the tree.
LEMMA CallsRun ==
    ASSUME Quiet, NEW t \in Thread, Calls(t)
    PROVE  phase = "running" /\ UNCHANGED loadVars
<1>1. todo[t] # <<>> \/ walk[t] # NULL \/ held[t] # <<>> \/ t \in unlocking
  BY Zenon DEF Calls, Probes, Walks, ProbeCrosses, ProbeKernel, ProbeUser, WalkEmpty, TurnFails, TurnLoops,
         LoopPanics, TurnOn, TurnLast, Turn, UnlockBegin, UnlockEnd
<1>2. UNCHANGED loadVars
  BY DEF Calls, Probes, Walks, ProbeCrosses, ProbeKernel, ProbeUser, WalkEmpty, TurnFails, TurnLoops,
         LoopPanics, TurnOn, TurnLast, UnlockBegin, UnlockEnd
<1> QED BY <1>1, <1>2, Zenon DEF Quiet

\* A step of a process that runs keeps what the invariant says of its loading.
LEMMA RunningInv ==
    ASSUME Inv, phase = "running", UNCHANGED loadVars
    PROVE  Inv'
BY DEF Inv, RegionsTyped, SegmentMapped, Quiet, Disjoint, MergesSucceed, Starts, End, loadVars

\* No step of the process breaks it.
LEMMA StepInv == Inv /\ [Next]_vars => Inv'
<1> SUFFICES ASSUME Inv, [Next]_vars PROVE Inv'
  OBVIOUS
<1>1. CASE UNCHANGED vars
  BY <1>1 DEF Inv, RegionsTyped, SegmentMapped, Quiet, Disjoint, MergesSucceed, Starts, End,
              vars, loadVars, callVars
<1>2. CASE Next
  <2>1. ~panicked
    BY <1>2 DEF Next
  <2>2. CASE StartThreads \/ LoadFails
    BY <2>1, <2>2 DEF StartThreads, LoadFails, Inv, RegionsTyped, SegmentMapped, Quiet, Disjoint,
                      MergesSucceed, Starts, End, callVars
  <2>3. ASSUME NEW t \in Thread, NEW in, NEW out,
               \/ sysent_open(t, in, out) \/ sysent_read(t, in, out)
               \/ sysent_exec_child(t, in, out) \/ sysent_write(t, in)
        PROVE  Inv'
    <3>1. phase = "running" /\ UNCHANGED loadVars
      BY <2>3, Zenon DEF sysent_open, sysent_read, sysent_exec_child, sysent_write, TwoProbes
    <3> QED BY <3>1, RunningInv
  <2>4. ASSUME NEW t \in Thread, Calls(t) PROVE Inv'
    BY <2>4, CallsRun, RunningInv DEF Inv
  <2> QED BY <1>2, <2>1, <2>2, <2>3, <2>4, BeginSegmentInv, MmapInv, MergeInv, SplitInv, AccessInv, Zenon DEF Next
<1> QED BY <1>1, <1>2

\* The inductive invariant: the regions and the segment that the loader
\* (elf.cc:96-170) is mapping page by page.
THEOREM Invariance == Spec => []Inv
BY InitInv, StepInv, PTL DEF Spec

\* The regions of a process never overlap, whatever is mapped, merged and split
\* (misc.cc:21-252), in a user space of any size.
THEOREM RegionsDisjoint == Spec => []Disjoint
<1>1. Inv => Disjoint
  BY DEF Inv
<1> QED BY <1>1, Invariance, PTL

\* The loader never panics about merging the pages of a segment (elf.cc:156).
THEOREM LoaderMerges == Spec => []MergesSucceed
<1>1. Inv => MergesSucceed
  BY DEF Inv
<1> QED BY <1>1, Invariance, PTL

-----------------------------------------------------------------------------
(* The regions of a walk.                                                  *)

\* A chain of regions covers every page from its first region to the end of its
\* last one.
LEMMA ChainCovers ==
    ASSUME RegionsTyped, Disjoint, NEW a \in Starts, NEW b \in Starts, NEW need, Chain(a, b, need),
           NEW q \in Int, a <= q, q < End(b)
    PROVE  \E x \in Starts : x <= q /\ q < End(x) /\ need \subseteq vmrs[x].access
<1>1. PICK m \in Starts : IsMaxLteq(m, q)
  BY GreatestStart
<1>2. m <= q /\ a <= m /\ (b <= q => b <= m)
  BY <1>1 DEF IsMaxLteq
<1>3. /\ a \in Int /\ b \in Int /\ m \in Int /\ End(m) \in Int /\ End(b) \in Int
      /\ m < End(m) /\ b < End(b)
  BY RegionFacts
<1>4. m <= b
  <2>1. b < m => End(b) <= m
    BY DEF Disjoint
  <2> QED BY <1>2, <1>3, <2>1
<1>5. need \subseteq vmrs[m].access /\ (m < b => End(m) \in Starts)
  BY <1>2, <1>4 DEF Chain
<1>6. q < End(m)
  <2>1. CASE m = b
    BY <2>1
  <2>2. CASE m < b
    <3>1. End(m) <= q => End(m) <= m
      BY <1>1, <1>5, <2>2 DEF IsMaxLteq
    <3> QED BY <1>3, <3>1
  <2> QED BY <1>3, <1>4, <2>1, <2>2
<1> QED BY <1>2, <1>5, <1>6

\* Every region of a chain but the first begins where another one ends.
LEMMA ChainNeighbours ==
    ASSUME RegionsTyped, Disjoint, NEW a \in Starts, NEW b \in Starts, NEW need, Chain(a, b, need),
           NEW x \in Starts, a < x, x <= b
    PROVE  \E y \in Starts : a <= y /\ y < x /\ End(y) = x
<1>1. a \in Int /\ b \in Int /\ x \in Int /\ x - 1 \in Int /\ a <= x - 1
  BY RegionFacts
<1>2. PICK m \in Starts : IsMaxLteq(m, x - 1)
  BY <1>1, GreatestStart
<1>3. m \in Int /\ End(m) \in Int /\ m < End(m)
  BY RegionFacts
<1>4. m <= x - 1 /\ a <= m
  BY <1>1, <1>2 DEF IsMaxLteq
<1>5. m < b /\ m <= b /\ m < x
  BY <1>1, <1>3, <1>4
<1>6. End(m) \in Starts
  BY <1>4, <1>5 DEF Chain
<1>7. End(m) <= x - 1 => End(m) <= m
  BY <1>2, <1>6 DEF IsMaxLteq
<1>8. End(m) <= x
  BY <1>5 DEF Disjoint
<1>9. End(m) = x
  BY <1>1, <1>3, <1>7, <1>8
<1> QED BY <1>4, <1>5, <1>9

\* A range is a page number and a number of pages.
LEMMA ProbeFacts ==
    ASSUME NEW p \in ProbeType
    PROVE  /\ p.range \in Buffer /\ p.range.page \in Nat /\ p.range.n \in Nat /\ p.need \in Access
           /\ p.unlocks \in BOOLEAN
           /\ p.range.page + p.range.n - 1 \in Int /\ p.range.page + p.range.n \in Int
BY DEF ProbeType, Buffer

\* Where the regions of a walk lie.
LEMMA WalkFacts ==
    ASSUME RegionsTyped, NEW w, NEW p \in ProbeType, Walking(w, p), w.initial # NULL
    PROVE  /\ IsMaxLteq(w.initial, p.range.page) /\ w.initial \in Starts
           /\ IsMaxLteq(w.end, p.range.page + p.range.n - 1) /\ w.end \in Starts
           /\ w.vmr \in Starts /\ w.initial <= w.vmr /\ (w.initial <= w.end => w.vmr <= w.end)
           /\ w.last # NULL =>
                 /\ w.last \in Starts /\ w.initial <= w.last /\ w.last < w.vmr
                 /\ \A x \in Starts : x < w.vmr => x <= w.last
<1>1. IsMaxLteq(w.initial, p.range.page) /\ w.initial \in Starts
  BY ProbeFacts, MaxLteqMeans, SMTT(60) DEF Walking, IsMaxLteq
<1>2. IsMaxLteq(w.end, p.range.page + p.range.n - 1) /\ w.end \in Starts
  BY ProbeFacts, MaxLteqMeans, Zenon DEF Walking, IsMaxLteq
<1>3. w.vmr \in Starts /\ w.initial <= w.vmr /\ (w.initial <= w.end => w.vmr <= w.end)
  BY DEF Walking, Visited
<1>4. ASSUME w.last # NULL
      PROVE  /\ w.last \in Starts /\ w.initial <= w.last /\ w.last < w.vmr
             /\ \A x \in Starts : x < w.vmr => x <= w.last
  <2>1. w.last \in Starts /\ w.initial <= w.last /\ IsNext(w.vmr, w.last)
    BY <1>4 DEF Walking, Visited
  <2>2. w.last \in Int /\ w.vmr \in Int /\ w.last < w.vmr
    BY <1>3, <2>1, RegionFacts DEF IsNext
  <2>3. ASSUME NEW x \in Starts, x < w.vmr PROVE x <= w.last
    <3>1. x > w.last => w.vmr <= x
      BY <2>1 DEF IsNext
    <3>2. x \in Int
      BY RegionFacts
    <3> QED BY <2>2, <2>3, <3>1, <3>2
  <2> QED BY <2>1, <2>2, <2>3, Zenon
<1> QED BY <1>1, <1>2, <1>3, <1>4, Zenon

\* A region that passes the tests of a walk lengthens its chain.
LEMMA ChainGrows ==
    ASSUME RegionsTyped, NEW w, NEW p \in ProbeType, Walking(w, p), w.initial # NULL,
           Extends(w, p.need)
    PROVE  Chain(w.initial, w.vmr, p.need)
<1>1. w.initial \in Starts /\ w.vmr \in Starts /\ w.initial <= w.vmr
  BY WalkFacts
<1>2. p.need \subseteq vmrs[w.vmr].access
  BY DEF Extends
<1>3. ASSUME NEW x \in Starts, w.initial <= x, x <= w.vmr
      PROVE  p.need \subseteq vmrs[x].access /\ (x < w.vmr => End(x) \in Starts)
  <2>1. x \in Int /\ w.vmr \in Int /\ w.initial \in Int
    BY <1>1, RegionFacts
  <2>2. CASE x = w.vmr
    BY ONLY <1>2, <2>1, <2>2, SMTT(60)
  <2>3. CASE x < w.vmr
    <3>1. w.last # NULL
      <4>1. w.last = NULL => w.vmr = w.initial
        BY DEF Walking
      <4> QED BY ONLY <1>3, <2>1, <2>3, <4>1, SMTT(60)
    <3>2. w.last \in Starts /\ x <= w.last
      BY <2>3, <3>1, WalkFacts, Zenon
    <3>3. Chain(w.initial, w.last, p.need) /\ End(w.last) = w.vmr
      BY <3>1, Zenon DEF Walking, Extends
    <3>4. p.need \subseteq vmrs[x].access /\ (x < w.last => End(x) \in Starts)
      BY <1>3, <3>2, <3>3 DEF Chain
    <3>5. w.last \in Int
      BY <3>2, RegionFacts
    <3>6. x < w.last \/ x = w.last
      BY ONLY <2>1, <3>2, <3>5, SMTT(60)
    <3> QED BY <1>1, <3>3, <3>4, <3>6
  <2> QED BY <1>3, <2>1, <2>2, <2>3
<1> QED BY <1>3 DEF Chain

\* Once no region is left, the walk has visited what mm_unlock_pages will.
LEMMA AllVisited ==
    ASSUME RegionsTyped, NEW w, NEW p \in ProbeType, Walking(w, p), w.initial # NULL,
           get_next(w.vmr, w.end) = NULL
    PROVE  /\ Visited(p.range) = {x \in Starts : w.initial <= x /\ x <= w.vmr}
           /\ w.initial <= w.end => w.vmr = w.end
<1>1. /\ w.initial \in Starts /\ w.end \in Starts /\ w.vmr \in Starts /\ w.initial <= w.vmr
      /\ (w.initial <= w.end => w.vmr <= w.end)
  BY WalkFacts
<1>2. w.vmr = w.end \/ \A y \in Starts : ~(y > w.vmr)
  BY <1>1, NextFound
<1>3. w.initial \in Int /\ w.end \in Int /\ w.vmr \in Int /\ \A x \in Starts : x \in Int
  BY <1>1, RegionFacts
<1>4. w.initial <= w.end => w.vmr = w.end
  BY ONLY <1>1, <1>2, <1>3, SMTT(60)
<1>5. Visited(p.range) = {x \in Starts : w.initial <= x /\ (w.initial <= w.end => x <= w.end)}
  BY DEF Visited, Walking
<1>6. ASSUME NEW x \in Starts
      PROVE  (w.initial <= w.end => x <= w.end) <=> x <= w.vmr
  BY ONLY <1>1, <1>2, <1>3, <1>4, SMTT(60)
<1> QED BY <1>4, <1>5, <1>6, Zenon

\* A range is not valid when one of its pages is in no region, or in one that
\* does not allow the access.
LEMMA BadPage ==
    ASSUME RegionsTyped, Disjoint, NEW p \in ProbeType, NEW q \in Int,
           p.range.page <= q, q <= p.range.page + p.range.n - 1,
           \/ \A x \in Starts : ~(x <= q /\ q < End(x))
           \/ \E m \in Starts : IsMaxLteq(m, q) /\ ~(p.need \subseteq vmrs[m].access)
    PROVE  ~Valid(p)
<1>1. q \in p.range.page .. p.range.page + p.range.n - 1
  BY ProbeFacts
<1>2. SUFFICES ASSUME NEW x \in Starts, x <= q, q < End(x), p.need \subseteq vmrs[x].access PROVE FALSE
  BY <1>1 DEF Valid
<1>3. PICK m \in Starts : IsMaxLteq(m, q) /\ ~(p.need \subseteq vmrs[m].access)
  BY <1>2
<1>4. x = m
  BY <1>2, <1>3, OnlyRegion, Zenon
<1> QED BY <1>2, <1>3, <1>4, Zenon

\* When no region starts at or below a range, its first page is in none.
LEMMA EmptyInvalid ==
    ASSUME RegionsTyped, Disjoint, NEW p \in ProbeType, p.range.n > 0,
           find_max_lteq(p.range.page) = NULL
    PROVE  ~Valid(p)
<1>1. p.range.page \in Int /\ p.range.page <= p.range.page + p.range.n - 1
  BY ProbeFacts
<1>2. \A x \in Starts : ~(x <= p.range.page)
  BY <1>1, MaxLteqMeans
<1> QED BY <1>1, <1>2, BadPage, SMTT(60)

\* A region that fails the tests of the walk shows that the range is not valid:
\* its first page lies behind a gap, or it does not allow the access.
LEMMA RefusedInvalid ==
    ASSUME RegionsTyped, Disjoint, NEW p \in ProbeType, p.range.n > 0,
           NEW w, Walking(w, p), w.initial # NULL, ~Extends(w, p.need)
    PROVE  ~Valid(p)
<1> DEFINE from == p.range.page  limit == p.range.page + p.range.n - 1
<1>1. from \in Int /\ limit \in Int /\ from <= limit
  BY ProbeFacts, SMTT(60)
<1>2. /\ IsMaxLteq(w.initial, from) /\ w.initial \in Starts
      /\ IsMaxLteq(w.end, limit) /\ w.end \in Starts
      /\ w.vmr \in Starts /\ w.initial <= w.vmr /\ (w.initial <= w.end => w.vmr <= w.end)
  BY WalkFacts, Zenon
<1>3. w.initial \in Int /\ w.end \in Int /\ w.vmr \in Int
  BY <1>2, RegionFacts, Zenon
<1> HIDE DEF from, limit
<1>4. w.initial <= from /\ w.end <= limit /\ w.initial <= w.end
  <2>1. w.initial <= from /\ w.end <= limit
    BY <1>2 DEF IsMaxLteq
  <2>2. w.initial <= limit
    BY ONLY <1>1, <1>3, <2>1, SMTT(60)
  <2> QED BY <1>2, <2>1, <2>2, Zenon DEF IsMaxLteq
<1>5. CASE w.vmr = w.initial
  <2>1. ~(p.need \subseteq vmrs[w.initial].access)
    BY <1>5, Zenon DEF Walking, Extends
  <2> QED BY <1>1, <1>2, <2>1, BadPage, SMTT(60) DEF from, limit
<1>6. CASE w.vmr # w.initial
  <2>1. w.last # NULL
    BY <1>6, Zenon DEF Walking
  <2>2. w.last \in Starts /\ w.last < w.vmr /\ \A x \in Starts : x < w.vmr => x <= w.last
    BY <2>1, WalkFacts, Zenon
  <2>3. from < w.vmr /\ w.vmr <= limit
    <3>1. w.vmr <= from => w.vmr <= w.initial
      BY <1>2, Zenon DEF IsMaxLteq
    <3> QED BY ONLY <1>1, <1>2, <1>3, <1>4, <1>6, <3>1, SMTT(60)
  <2>4. CASE ~(p.need \subseteq vmrs[w.vmr].access)
    <3>1. IsMaxLteq(w.vmr, w.vmr)
      BY ONLY <1>2, <1>3, SMTT(60) DEF IsMaxLteq
    <3>2. from <= w.vmr
      BY ONLY <1>1, <1>3, <2>3, SMTT(60)
    <3> QED BY <1>2, <1>3, <2>3, <2>4, <3>1, <3>2, BadPage, Zenon DEF from, limit
  <2>5. CASE End(w.last) # w.vmr
    <3>1. w.vmr - 1 \in Int /\ from <= w.vmr - 1 /\ w.vmr - 1 <= limit
      BY <1>1, <1>3, <2>3
    <3>2. w.last \in Int /\ End(w.last) \in Int /\ End(w.last) <= w.vmr
      BY <1>2, <2>2, RegionFacts, Zenon DEF Disjoint
    <3>3. ASSUME NEW x \in Starts, x <= w.vmr - 1, w.vmr - 1 < End(x) PROVE FALSE
      <4>1. x \in Int /\ End(x) \in Int /\ x < w.vmr
        BY <1>3, <3>3, RegionFacts, SMTT(60)
      <4>2. x <= w.last
        BY <2>2, <4>1, Zenon
      <4>3. x < w.last => End(x) <= w.last
        BY <2>2, Zenon DEF Disjoint
      <4> QED BY ONLY <1>3, <2>2, <2>5, <3>2, <3>3, <4>1, <4>2, <4>3, SMTT(60)
    <3> QED BY <3>1, <3>3, BadPage, Zenon DEF from, limit
  <2> QED BY <2>4, <2>5, Zenon DEF Extends
<1> QED BY <1>5, <1>6, Zenon

\* When every region passed, the end of the last one decides.
LEMMA EndDecides ==
    ASSUME RegionsTyped, Disjoint, NEW p \in ProbeType, p.range.n > 0,
           NEW w, Walking(w, p), w.initial # NULL, Extends(w, p.need), get_next(w.vmr, w.end) = NULL
    PROVE  Valid(p) <=> ~(End(w.vmr) < p.range.page + p.range.n)
<1> DEFINE from == p.range.page  limit == p.range.page + p.range.n - 1
<1>1. /\ from \in Int /\ limit \in Int /\ from <= limit
      /\ \A e \in Int : e < p.range.page + p.range.n <=> e <= limit
  BY ProbeFacts
<1>2. /\ IsMaxLteq(w.initial, from) /\ w.initial \in Starts
      /\ IsMaxLteq(w.end, limit) /\ w.end \in Starts /\ w.vmr \in Starts
  BY WalkFacts, Zenon
<1>3. /\ w.initial \in Int /\ w.end \in Int /\ w.vmr \in Int /\ End(w.vmr) \in Int
      /\ w.vmr < End(w.vmr)
  BY <1>2, RegionFacts, Zenon
<1>4. Chain(w.initial, w.vmr, p.need)
  BY ChainGrows, Zenon
<1>5. w.initial <= from
  BY <1>2, Zenon DEF IsMaxLteq
<1>6. w.vmr = w.end
  <2>1. w.initial <= w.end
    <3>1. w.initial <= limit
      BY ONLY <1>1, <1>3, <1>5, SMTT(60)
    <3> QED BY <1>2, <3>1, Zenon DEF IsMaxLteq
  <2> QED BY <2>1, AllVisited, Zenon
<1>7. Valid(p) = \A q \in from .. limit :
                    \E x \in Starts : x <= q /\ q < End(x) /\ p.need \subseteq vmrs[x].access
  BY DEF Valid
<1>8. CASE End(w.vmr) <= limit
  <2>1. ASSUME NEW x \in Starts, x <= limit, limit < End(x) PROVE FALSE
    <3>1. x = w.end
      BY <1>1, <1>2, <2>1, OnlyRegion, Zenon
    <3> QED BY ONLY <1>1, <1>3, <1>6, <1>8, <2>1, <3>1, SMTT(60)
  <2>2. ~Valid(p)
    BY <1>1, <2>1, BadPage, SMTT(60)
  <2> QED BY <1>1, <1>3, <1>8, <2>2, Zenon
<1>9. CASE ~(End(w.vmr) <= limit)
  <2>1. ASSUME NEW q \in from .. limit
        PROVE  \E x \in Starts : x <= q /\ q < End(x) /\ p.need \subseteq vmrs[x].access
    <3>1. q \in Int /\ w.initial <= q /\ q < End(w.vmr)
      BY ONLY <1>1, <1>3, <1>5, <1>9, SMTT(60)
    <3> QED BY <1>2, <1>4, <3>1, ChainCovers, Zenon
  <2> QED BY <1>1, <1>3, <1>7, <1>9, <2>1, Zenon
<1> QED BY <1>8, <1>9, Zenon

\* And the regions of a walk that passed are laid out as mm_unlock_pages expects.
LEMMA PassedLaid ==
    ASSUME RegionsTyped, Disjoint, NEW p \in ProbeType,
           NEW w, Walking(w, p), w.initial # NULL, Extends(w, p.need), get_next(w.vmr, w.end) = NULL,
           ~(End(w.vmr) < p.range.page + p.range.n)
    PROVE  Laid(p.range)
<1>1. Visited(p.range) = {x \in Starts : w.initial <= x /\ x <= w.vmr}
  BY AllVisited, Zenon
<1>2. IsMaxLteq(w.initial, p.range.page) /\ w.initial \in Starts /\ w.vmr \in Starts
      /\ w.initial <= w.vmr
  BY WalkFacts, Zenon
<1>3. Chain(w.initial, w.vmr, p.need)
  BY ChainGrows, Zenon
<1>4. w.vmr \in Visited(p.range) /\ End(w.vmr) >= p.range.page + p.range.n
  BY <1>1, <1>2, RegionFacts, ProbeFacts, SMTT(60)
<1>5. ASSUME NEW x \in Visited(p.range), ~(x <= p.range.page)
      PROVE  \E y \in Visited(p.range) : End(y) = x
  <2>1. x \in Starts /\ x \in Int /\ w.initial \in Int /\ w.vmr \in Int /\ p.range.page \in Int
        /\ x <= w.vmr
    BY <1>1, <1>2, RegionFacts, ProbeFacts, SMTT(60)
  <2>2. w.initial < x
    BY ONLY <1>2, <1>5, <2>1, SMTT(60) DEF IsMaxLteq
  <2>3. PICK y \in Starts : w.initial <= y /\ y < x /\ End(y) = x
    BY <1>2, <1>3, <2>1, <2>2, ChainNeighbours, Zenon
  <2>4. y <= w.vmr
    BY ONLY <2>1, <2>3, RegionFacts, SMTT(60)
  <2> QED BY <1>1, <2>3, <2>4, Zenon
<1> QED BY <1>4, <1>5 DEF Laid

-----------------------------------------------------------------------------
(* What a step of one thread leaves to the others.                         *)

\* Operators on the tree keep their values while the tree is the same.
LEMMA TreeSame ==
    ASSUME vmrs' = vmrs
    PROVE  /\ Starts' = Starts /\ \A x : End(x)' = End(x)
           /\ \A r : Visited(r)' = Visited(r) /\ (Laid(r)' <=> Laid(r))
           /\ \A w, p : (Walking(w, p)' <=> Walking(w, p)) /\ (Valid(p)' <=> Valid(p))
<1>1. Starts' = Starts /\ \A x : End(x)' = End(x)
  BY DEF Starts, End
<1>2. \A a : find_max_lteq(a)' = find_max_lteq(a)
  BY <1>1 DEF find_max_lteq, IsMaxLteq
<1>3. \A r : Visited(r)' = Visited(r)
  BY <1>1, <1>2 DEF Visited
<1>4. \A r : Laid(r)' <=> Laid(r)
  BY <1>1, <1>3, ZenonT(60) DEF Laid
<1>5. \A w, p : Walking(w, p)' <=> Walking(w, p)
  BY <1>1, <1>2, <1>3 DEF Walking, Chain, IsNext, Extends, IsUser, LimitIsUser
<1>6. \A p : Valid(p)' <=> Valid(p)
  BY <1>1, Zenon DEF Valid
<1> QED BY <1>1, <1>3, <1>4, <1>5, <1>6, Zenon

\* The others go on as they were.
LEMMA OthersSound ==
    ASSUME NEW t \in Thread, vmrs' = vmrs, ~panicked, \A u \in Thread : Sound(u), Others(t), Sound(t)'
    PROVE  \A u \in Thread : Sound(u)'
<1> SUFFICES ASSUME NEW u \in Thread, u # t PROVE Sound(u)'
  BY Zenon
<1>1. Sound(u) /\ walk'[u] = walk[u] /\ todo'[u] = todo[u] /\ held'[u] = held[u]
      /\ (u \in unlocking' <=> u \in unlocking)
  BY Zenon DEF Others
<1>2. walk'[u] # NULL => /\ todo'[u] # <<>> /\ u \notin unlocking'
                         /\ Walking(walk[u], Head(todo[u]))'
  BY <1>1, TreeSame, ZenonT(60) DEF Sound
<1>3. \A i \in DOMAIN held'[u] : IsUser(held'[u][i].range) => Laid(held[u][i].range)'
  BY <1>1, TreeSame, ZenonT(60) DEF Sound
<1>4. u \in unlocking' => /\ todo'[u] = <<>> /\ walk'[u] = NULL
                          /\ held'[u] # <<>> /\ IsUser(LastHeld(u).range)'
  BY <1>1, ZenonT(60) DEF Sound, LastHeld, IsUser
<1> QED BY <1>1, <1>2, <1>3, <1>4, ZenonT(60) DEF Sound, IsUser

\* What the others need, and whether they are in the tree.
LEMMA OthersNeed ==
    ASSUME NEW t \in Thread, vmrs' = vmrs, Others(t), NEW u \in Thread, u # t
    PROVE  /\ \A x : Needs(u, x)' <=> Needs(u, x)
           /\ InTree(u)' <=> InTree(u)
<1>1. walk'[u] = walk[u] /\ held'[u] = held[u] /\ (u \in unlocking' <=> u \in unlocking)
  BY DEF Others
<1>2. \A r : Visited(r)' = Visited(r)
  BY TreeSame, Zenon
<1>3. ASSUME NEW x PROVE Needs(u, x)' <=> Needs(u, x)
  BY <1>1, <1>2 DEF Needs, IsUser
<1>4. InTree(u)' <=> InTree(u)
  BY <1>1 DEF InTree
<1> QED BY <1>3, <1>4

\* Locking a region takes the name of no thread that did not meet this one.
LEMMA NamesKept ==
    ASSUME NEW t \in Thread, vmrs' = vmrs, RegionsTyped, CallsTyped, NamesFound, Others(t),
           overlapped => overlapped',
           ~overlapped' => \A x \in Starts : Needs(t, x)' => locker'[x] = t,
           \/ locker' = locker
           \/ \E y \in Starts : ki_mm_lock_area(t, y)
    PROVE  NamesFound'
<1> SUFFICES ASSUME ~overlapped', NEW u \in Thread, u # t, NEW x \in Starts, Needs(u, x)'
             PROVE  locker'[x] = u
  BY TreeSame, Zenon DEF NamesFound
<1>1. Needs(u, x) /\ locker[x] = u
  BY OthersNeed, Zenon DEF NamesFound
<1>2. CASE locker' = locker
  BY <1>1, <1>2, Zenon
<1>3. ASSUME NEW y \in Starts, ki_mm_lock_area(t, y) PROVE locker'[x] = u
  <2>1. ~Needs(u, y)
    BY <1>3, Zenon DEF ki_mm_lock_area
  <2>2. x # y /\ x \in Page
    BY <1>1, <2>1 DEF RegionsTyped
  <2> QED BY <1>1, <1>3, <2>2 DEF ki_mm_lock_area, CallsTyped
<1> QED BY <1>2, <1>3, Zenon

\* Entering the tree alone takes a free vmr_mutex.
LEMMA EnterTree ==
    ASSUME NEW t \in Thread, vmrs' = vmrs, CallsTyped, TreeAlone, Others(t),
           ~InTree(t), InTree(t)', ki_mm_lock_vmr(t)
    PROVE  TreeAlone' /\ (overlapped => overlapped') /\ vmr_mutex' \in [thread : Thread, times : Int]
<1>1. vmr_mutex'.thread = t /\ vmr_mutex'.times = vmr_mutex.times + 1
      /\ vmr_mutex.times \in Int /\ vmr_mutex' \in [thread : Thread, times : Int]
  BY DEF ki_mm_lock_vmr, CallsTyped
<1>2. overlapped' = (overlapped \/ \E u \in Thread \ {t} : InTree(u))
  BY DEF ki_mm_lock_vmr
<1>3. ASSUME ~overlapped' PROVE vmr_mutex'.times = 1 /\ \A u \in Thread : InTree(u)' => u = t
  <2>1. ~overlapped /\ \A u \in Thread : ~InTree(u)
    BY <1>2, <1>3, Zenon DEF CallsTyped
  <2>2. vmr_mutex.times = 0
    BY <2>1 DEF TreeAlone
  <2>3. \A u \in Thread \ {t} : ~InTree(u)'
    BY <2>1, OthersNeed, Zenon
  <2> QED BY <1>1, <2>2, <2>3
<1> QED BY <1>1, <1>2, <1>3, Zenon DEF TreeAlone

\* Leaving it alone gives vmr_mutex back, and its checks pass.
LEMMA LeaveTree ==
    ASSUME NEW t \in Thread, vmrs' = vmrs, CallsTyped, TreeAlone, Others(t),
           InTree(t), ~InTree(t)', vmr_mutex' = VmrReleased, overlapped => overlapped'
    PROVE  TreeAlone' /\ (VmrCheckFails(t) => overlapped)
           /\ vmr_mutex' \in [thread : Thread \cup {NULL}, times : Int]
<1>1. vmr_mutex'.times = vmr_mutex.times - 1 /\ vmr_mutex.times \in Int
      /\ vmr_mutex' \in [thread : Thread \cup {NULL}, times : Int]
  BY DEF VmrReleased, CallsTyped
<1>2. ASSUME ~overlapped
      PROVE  vmr_mutex.thread = t /\ vmr_mutex.times = 1 /\ \A u \in Thread : ~InTree(u)'
  <2>1. vmr_mutex.thread = t /\ vmr_mutex.times = 1 /\ \A u \in Thread : InTree(u) => u = t
    BY <1>2 DEF TreeAlone
  <2> QED BY <2>1, OthersNeed
<1> QED BY <1>1, <1>2, SMTT(60) DEF TreeAlone, VmrCheckFails

\* Staying in it, or out of it, changes nothing there.
LEMMA StayTree ==
    ASSUME NEW t \in Thread, vmrs' = vmrs, TreeAlone, Others(t),
           InTree(t)' <=> InTree(t), vmr_mutex' = vmr_mutex, overlapped => overlapped'
    PROVE  TreeAlone'
<1>1. \A u \in Thread : InTree(u)' <=> InTree(u)
  BY OthersNeed
<1> QED BY <1>1 DEF TreeAlone

-----------------------------------------------------------------------------
(* The steps of the calls.                                                 *)

\* The first probe of a call.
LEMMA HeadProbe ==
    ASSUME CallsTyped, NEW t \in Thread, todo[t] # <<>>
    PROVE  Head(todo[t]) \in ProbeType /\ Tail(todo[t]) \in Seq(ProbeType)
BY DEF CallsTyped

\* A call that fails forgets its probes and keeps its guards.
LEMMA FailFacts ==
    ASSUME CallsTyped, NEW t \in Thread, Fail(t)
    PROVE  /\ todo' \in [Thread -> Seq(ProbeType)] /\ held' \in [Thread -> Seq(ProbeType)]
           /\ todo'[t] = <<>> /\ held'[t] = held[t]
           /\ \A u \in Thread \ {t} : todo'[u] = todo[u] /\ held'[u] = held[u]
<1>1. <<>> \in Seq(ProbeType)
  OBVIOUS
<1> QED BY <1>1 DEF CallsTyped, Fail

\* A probe that succeeds goes, and a guard may come.
LEMMA GrantFacts ==
    ASSUME CallsTyped, NEW t \in Thread, todo[t] # <<>>, Grant(t)
    PROVE  /\ todo' \in [Thread -> Seq(ProbeType)] /\ held' \in [Thread -> Seq(ProbeType)]
           /\ todo'[t] = Tail(todo[t])
           /\ \A i \in DOMAIN held'[t] : \/ i \in DOMAIN held[t] /\ held'[t][i] = held[t][i]
                                         \/ Head(todo[t]).unlocks /\ held'[t][i] = Head(todo[t])
           /\ Head(todo[t]).unlocks => held'[t] # held[t]
           /\ \A u \in Thread \ {t} : todo'[u] = todo[u] /\ held'[u] = held[u]
<1> DEFINE p == Head(todo[t])
<1>1. p \in ProbeType /\ Tail(todo[t]) \in Seq(ProbeType)
  BY HeadProbe, Zenon
<1>2. held[t] \in Seq(ProbeType) /\ Append(held[t], p) \in Seq(ProbeType)
  BY <1>1, SMTT(60) DEF CallsTyped
<1>3. /\ Len(Append(held[t], p)) = Len(held[t]) + 1 /\ Len(held[t]) \in Nat
      /\ \A i \in DOMAIN Append(held[t], p) :
            \/ i \in DOMAIN held[t] /\ Append(held[t], p)[i] = held[t][i]
            \/ Append(held[t], p)[i] = p
  BY ONLY <1>2, SMTT(60)
<1>4. Append(held[t], p) # held[t]
  BY <1>3
<1>5. /\ todo' = [todo EXCEPT ![t] = Tail(todo[t])]
      /\ held' = IF p.unlocks THEN [held EXCEPT ![t] = Append(held[t], p)] ELSE held
  BY DEF Grant
<1>6. todo \in [Thread -> Seq(ProbeType)] /\ held \in [Thread -> Seq(ProbeType)]
  BY Zenon DEF CallsTyped
<1> HIDE DEF p
<1>7. CASE p.unlocks
  <2>1. held'[t] = Append(held[t], p) /\ held' \in [Thread -> Seq(ProbeType)]
    BY <1>2, <1>5, <1>6, <1>7, Zenon
  <2> QED BY <1>1, <1>3, <1>4, <1>5, <1>6, <1>7, <2>1, Zenon DEF p
<1>8. CASE ~p.unlocks
  <2>1. held' = held
    BY <1>5, <1>8
  <2> QED BY <1>1, <1>5, <1>6, <1>8, <2>1, Zenon DEF p
<1> QED BY <1>7, <1>8, Zenon
=============================================================================
