---------------------------- MODULE MemoryProofs ----------------------------
(***************************************************************************)
(* Proofs about what is kept in memory.  PageList: the free lists of every *)
(* region stay well formed under every sequence of calls, for every number *)
(* of pages and regions.  TmpMap: pages of tables that are mapped for a    *)
(* walk stay mapped, for every number of slots and depth of nesting.       *)
(* SetMap: every node of a set or map has one owner, for every number of   *)
(* containers.  Vga: display memory is a terminal, for every screen.       *)
(***************************************************************************)
EXTENDS PageList, Sequences, WellFoundedInduction, TLAPS

USE PageAssumption, RegionAssumption, ReservedAssumption, NullAssumption

-----------------------------------------------------------------------------
(* The boot lists.                                                         *)

\* Lowest returns the least element of a nonempty set of addresses.
LEMMA LowestIsLeast ==
    ASSUME NEW S \in SUBSET Nat, S # {}
    PROVE  Lowest(S) \in S /\ \A q \in S : Lowest(S) <= q
<1>1. \E x \in S : \A y \in S : ~(<<y, x>> \in OpToRel(<, Nat))
  BY WFMin, NatLessThanWellFounded, Zenon
<1>2. \A x, y \in Nat : <<y, x>> \in OpToRel(<, Nat) <=> y < x
  BY DEF OpToRel
<1>3. \E x \in S : \A y \in S : ~(y < x)
  BY <1>1, <1>2, Zenon
<1>4. \E x \in S : \A y \in S : x <= y
  BY <1>3
<1> QED BY <1>4, ZenonT(60) DEF Lowest

\* The successor of a page is a later page of the same region's list, and no
\* listed page lies between the two.
LEMMA SuccessorProps ==
    ASSUME NEW p \in Page, Successor(p) # NULL
    PROVE  /\ p \in Listed(PmadOf[p])
           /\ Successor(p) \in Listed(PmadOf[p])
           /\ Successor(p) > p
           /\ \A q \in Listed(PmadOf[p]) : q > p => Successor(p) <= q
<1> DEFINE S == {q \in Listed(PmadOf[p]) : q > p}
<1>1. p \notin Reserved /\ Successor(p) = Lowest(S)
  BY DEF Successor
<1>2. S # {}
  BY <1>1 DEF Lowest
<1>3. S \in SUBSET Nat
  BY ZenonT(60) DEF Listed
<1> HIDE DEF S
<1>4. Lowest(S) \in S /\ \A q \in S : Lowest(S) <= q
  BY <1>2, <1>3, LowestIsLeast
<1> QED BY <1>1, <1>4, ZenonT(60) DEF S, Listed

\* Two pages never share a successor.
LEMMA SuccessorInjective ==
    ASSUME NEW p \in Page, NEW q \in Page, Successor(p) # NULL,
           Successor(p) = Successor(q)
    PROVE  p = q
<1>1. PmadOf[p] = PmadOf[q]
  BY SuccessorProps DEF Listed
<1>2. ~(p < q) /\ ~(q < p)
  <2> DEFINE s == Successor(p)
  <2>1. s > p /\ s > q /\ s \in Nat
    BY SuccessorProps, ZenonT(60) DEF Listed
  <2>2. p < q => s <= q
    BY <1>1, SuccessorProps
  <2>3. q < p => s <= p
    BY <1>1, SuccessorProps
  <2> HIDE DEF s
  <2> QED BY <2>1, <2>2, <2>3
<1> QED BY <1>2

\* Predecessor inverts Successor.
LEMMA PredecessorProps ==
    ASSUME NEW p \in Page
    PROVE  /\ Predecessor(p) # NULL => Predecessor(p) \in Page /\ Successor(Predecessor(p)) = p
           /\ \A q \in Page : Successor(q) = p => Predecessor(p) = q
<1> p # NULL
  OBVIOUS
<1>1. ASSUME NEW q \in Page, Successor(q) = p PROVE Predecessor(p) = q
  <2>1. Predecessor(p) \in Page /\ Successor(Predecessor(p)) = p
    BY <1>1 DEF Predecessor
  <2> QED BY <1>1, <2>1, SuccessorInjective, ZenonT(60)
<1>2. Predecessor(p) # NULL => Predecessor(p) \in Page /\ Successor(Predecessor(p)) = p
  BY DEF Predecessor
<1> QED BY <1>1, <1>2

\* The head of a boot list is a page of its region with no predecessor.
LEMMA HeadProps ==
    ASSUME NEW a \in Pmad, Lowest(Listed(a)) # NULL
    PROVE  /\ Lowest(Listed(a)) \in Page
           /\ PmadOf[Lowest(Listed(a))] = a
           /\ Predecessor(Lowest(Listed(a))) = NULL
<1> DEFINE h == Lowest(Listed(a))
<1>1. Listed(a) \in SUBSET Nat /\ Listed(a) # {}
  BY ZenonT(60) DEF Listed, Lowest
<1>2. h \in Listed(a) /\ \A q \in Listed(a) : h <= q
  BY <1>1, LowestIsLeast
<1>3. h \in Page /\ PmadOf[h] = a /\ h # NULL
  BY <1>2, ZenonT(60) DEF Listed
<1> HIDE DEF h
<1>4. ASSUME Predecessor(h) # NULL PROVE FALSE
  <2> DEFINE q == Predecessor(h)
  <2>1. q \in Page /\ Successor(q) = h
    BY <1>3, <1>4, PredecessorProps
  <2>2. q \in Listed(PmadOf[q]) /\ h \in Listed(PmadOf[q]) /\ h > q
    BY <1>3, <2>1, SuccessorProps, ZenonT(60)
  <2>3. q \in Listed(a)
    BY <1>3, <2>2 DEF Listed
  <2> HIDE DEF q
  <2> QED BY <1>2, <1>3, <2>1, <2>2, <2>3
<1> QED BY <1>3, <1>4 DEF h

\* Every other page of a boot list has a predecessor.
LEMMA ListedLinked ==
    ASSUME NEW p \in Page, p \in Listed(PmadOf[p]), p # Lowest(Listed(PmadOf[p]))
    PROVE  \E q \in Page : Successor(q) = p
<1> DEFINE L == Listed(PmadOf[p])
           Below == {x \in L : x < p}
           T == {p - x : x \in Below}
<1>1. L \in SUBSET Nat /\ p \in L /\ L \subseteq Page
  BY ZenonT(60) DEF Listed
<1>2. Lowest(L) \in Below
  <2>1. Lowest(L) \in L /\ Lowest(L) <= p
    BY <1>1, LowestIsLeast
  <2> QED BY <1>1, <2>1
<1>3. T \in SUBSET Nat /\ T # {}
  BY <1>1, <1>2
<1>4. Lowest(T) \in T /\ \A d \in T : Lowest(T) <= d
  <2> HIDE DEF T
  <2> QED BY <1>3, LowestIsLeast
<1>5. PICK q \in Below : Lowest(T) = p - q
  BY <1>4, ZenonT(60)
<1>6. \A x \in Below : x <= q
  <2> SUFFICES ASSUME NEW x \in Below PROVE x <= q
    BY ZenonT(60)
  <2>1. p - x \in T /\ x \in Nat /\ q \in Nat /\ p \in Nat
    BY <1>1
  <2>2. p - q <= p - x
    BY <1>4, <1>5, <2>1, ZenonT(60)
  <2> QED BY <2>1, <2>2
<1>7. q \in Page /\ q \notin Reserved /\ PmadOf[q] = PmadOf[p]
  BY <1>5 DEF Listed
<1> DEFINE S == {x \in L : x > q}
<1>8. Successor(q) = Lowest(S)
  BY <1>7 DEF Successor
<1>9. S \in SUBSET Nat /\ p \in S
  BY <1>1, <1>5
<1>10. Lowest(S) \in S /\ Lowest(S) <= p
  <2> HIDE DEF S
  <2> QED BY <1>9, LowestIsLeast
<1>11. Lowest(S) = p
  BY <1>1, <1>6, <1>7, <1>10
<1> QED BY <1>7, <1>8, <1>11

\* The state hn_mm_init_areas leaves satisfies the invariant.
LEMMA InitInv == Init => Inv
<1> SUFFICES ASSUME Init PROVE Inv
  OBVIOUS
<1> USE DEF Init
<1>1. \A p \in Page : /\ next_free[p] # NULL => next_free[p] \in Page
                                             /\ PmadOf[next_free[p]] = PmadOf[p]
                      /\ prev_free[p] # NULL => prev_free[p] \in Page
                                             /\ next_free[prev_free[p]] = p
                      /\ \A q \in Page : next_free[q] = p => prev_free[p] = q
  BY SuccessorProps, PredecessorProps, ZenonT(60) DEF Listed
<1>2. \A a \in Pmad : free_list[a] # NULL => /\ free_list[a] \in Page
                                             /\ PmadOf[free_list[a]] = a
                                             /\ prev_free[free_list[a]] = NULL
  BY HeadProps
<1>3. TypeOK
  <2>1. free_list \in [Pmad -> Page \cup {NULL}]
    BY <1>2, ZenonT(60)
  <2>2. next_free \in [Page -> Page \cup {NULL}] /\ prev_free \in [Page -> Page \cup {NULL}]
    BY <1>1, ZenonT(60)
  <2>3. ref_count \in [Page -> 0..MaxRef]
    BY MaxRefAssumption
  <2> HIDE DEF Init
  <2>4. \A p \in Page : prev_free[p] # NULL => PmadOf[prev_free[p]] = PmadOf[p]
    <3> SUFFICES ASSUME NEW p \in Page, prev_free[p] # NULL
                 PROVE  PmadOf[prev_free[p]] = PmadOf[p]
      OBVIOUS
    <3>1. prev_free[p] \in Page /\ next_free[prev_free[p]] = p /\ p # NULL
      BY <1>1
    <3> QED BY <1>1, <3>1, ZenonT(60)
  <2> QED BY <1>1, <1>2, <2>1, <2>2, <2>3, <2>4 DEF TypeOK
<1>4. ListedUnused /\ UsedUnlinked
  BY DEF ListedUnused, UsedUnlinked
<1> HIDE DEF Init
<1>5. LinksMutual
  BY <1>1, ZenonT(60) DEF LinksMutual
<1>6. BackListed
  <2> SUFFICES ASSUME NEW p \in Page, prev_free[p] # NULL
               PROVE  prev_free[p] \in OnList /\ p # free_list[PmadOf[p]]
    BY DEF BackListed
  <2>1. p # free_list[PmadOf[p]]
    <3>1. p # NULL /\ PmadOf[p] \in Pmad
      OBVIOUS
    <3> QED BY <1>2, <3>1, ZenonT(60)
  <2> DEFINE q == prev_free[p]
  <2>2. q \in Page /\ Successor(q) = p /\ p # NULL
    <3>1. q \in Page /\ next_free[q] = p /\ p # NULL
      BY <1>1
    <3>2. next_free = [r \in Page |-> Successor(r)]
      BY DEF Init
    <3> QED BY <3>1, <3>2
  <2>3. q \in Listed(PmadOf[q])
    BY <2>2, SuccessorProps, ZenonT(60)
  <2> HIDE DEF q
  <2>4. CASE q = Lowest(Listed(PmadOf[q]))
    <3>1. PmadOf[q] \in Pmad
      BY <2>2
    <3>2. free_list[PmadOf[q]] = q
      BY <2>4, <3>1 DEF Init
    <3> QED BY <2>1, <2>2, <3>2 DEF OnList, q
  <2>5. CASE q # Lowest(Listed(PmadOf[q]))
    <3>1. PICK x \in Page : Successor(x) = q
      BY <2>2, <2>3, <2>5, ListedLinked
    <3>2. prev_free[q] = x
      BY <1>1, <2>2, <3>1, ZenonT(60) DEF Init
    <3> QED BY <2>1, <2>2, <3>1, <3>2 DEF OnList, q
  <2> QED BY <2>1, <2>4, <2>5 DEF q
<1>7. NoStaleForward
  BY <1>1 DEF NoStaleForward
<1>8. Ascending
  BY SuccessorProps, ZenonT(60) DEF Ascending, Init, Listed
<1> QED BY <1>3, <1>4, <1>5, <1>6, <1>7, <1>8 DEF Inv

-----------------------------------------------------------------------------
(* The calls.                                                              *)

\* What the invariant says of a page and its two neighbours.
LEMMA Neighbours ==
    ASSUME Inv, NEW m \in Page
    PROVE  LET n == next_free[m]
               r == prev_free[m]
               h == free_list[PmadOf[m]]
           IN  /\ r # NULL => /\ r \in Page /\ r # m /\ r # n
                              /\ next_free[r] = m /\ PmadOf[r] = PmadOf[m]
               /\ n # NULL => n \in Page /\ PmadOf[n] = PmadOf[m]
               /\ m \in OnList /\ n # NULL => prev_free[n] = m /\ n # m /\ n # h
               /\ m \notin OnList /\ n # NULL => n = h \/ prev_free[n] = NULL
<1> DEFINE n == next_free[m]
           r == prev_free[m]
           h == free_list[PmadOf[m]]
<1>0. TypeOK /\ LinksMutual /\ BackListed /\ Ascending /\ NoStaleForward /\ m # NULL
  BY DEF Inv
<1>1. r \in Page \cup {NULL} /\ n \in Page \cup {NULL}
  BY <1>0 DEF TypeOK
<1>2. r # NULL => r \in Page /\ next_free[r] = m /\ PmadOf[r] = PmadOf[m]
  BY <1>0, <1>1 DEF TypeOK, LinksMutual
<1>3. n # NULL => n \in Page /\ PmadOf[n] = PmadOf[m]
  BY <1>0, <1>1 DEF TypeOK
<1>4. m \in OnList /\ n # NULL => prev_free[n] = m /\ n # m /\ n # h
  <2> SUFFICES ASSUME m \in OnList, n # NULL PROVE prev_free[n] = m /\ n # m /\ n # h
    OBVIOUS
  <2>1. prev_free[n] = m
    BY <1>0 DEF LinksMutual
  <2>2. m < n
    BY <1>0 DEF Ascending
  <2>3. n # free_list[PmadOf[n]]
    BY <1>0, <1>3, <2>1, ZenonT(60) DEF BackListed
  <2> QED BY <1>3, <2>1, <2>2, <2>3
<1>5. m \notin OnList /\ n # NULL => n = h \/ prev_free[n] = NULL
  <2> SUFFICES ASSUME m \notin OnList, n # NULL, n # h, prev_free[n] # NULL PROVE FALSE
    OBVIOUS
  <2>1. n \in OnList /\ n # free_list[PmadOf[n]]
    BY <1>3 DEF OnList
  <2>2. prev_free[n] = m
    BY <1>0, <1>3, <2>1, ZenonT(60) DEF NoStaleForward
  <2> QED BY <1>0, <1>3, <2>1, <2>2, ZenonT(60) DEF BackListed
<1>6. r # NULL => r # m /\ r # n
  <2> SUFFICES ASSUME r # NULL PROVE r # m /\ r # n
    OBVIOUS
  <2>1. m \in OnList
    BY DEF OnList
  <2>2. n # NULL => m < n
    BY <1>0, <2>1 DEF Ascending
  <2>3. ASSUME r = m PROVE FALSE
    BY <1>1, <1>2, <2>2, <2>3
  <2>4. ASSUME r = n PROVE FALSE
    <3>1. prev_free[r] = m
      BY <1>4, <2>1, <2>4
    <3>2. r < m
      BY <1>0, <1>2, <3>1, ZenonT(60) DEF Ascending, OnList
    <3>3. m < r /\ m \in Nat /\ r \in Nat
      BY <1>2, <2>2, <2>4, ZenonT(60)
    <3> QED BY <3>2, <3>3
  <2> QED BY <2>3, <2>4
<1> QED BY <1>2, <1>3, <1>4, <1>5, <1>6

\* Marking an unused page as used takes it off its list and leaves the rest of
\* the list as it was.
LEMMA UnlinkInv ==
    ASSUME Inv, NEW m \in Page, ref_count[m] = 0, Unlink(m),
           ref_count' = [ref_count EXCEPT ![m] = @ + 1],
           ref_count' \in [Page -> 0..MaxRef]
    PROVE  Inv'
<1> DEFINE a == PmadOf[m]
           n == next_free[m]
           r == prev_free[m]
           h == free_list[a]
<1>0. /\ TypeOK /\ ListedUnused /\ UsedUnlinked /\ LinksMutual /\ BackListed
      /\ Ascending /\ NoStaleForward /\ m # NULL /\ a \in Pmad
  BY DEF Inv
<1>1. r # NULL => /\ r \in Page /\ r # m /\ r # n /\ m \in OnList
                  /\ next_free[r] = m /\ PmadOf[r] = a
  BY Neighbours DEF OnList
<1>2. n # NULL => n \in Page /\ PmadOf[n] = a
  BY Neighbours
<1>3. m \in OnList /\ n # NULL => prev_free[n] = m /\ n # m /\ n # h
  BY Neighbours
<1>4. m \notin OnList => r = NULL /\ h # m /\ (n # NULL => n = h \/ prev_free[n] = NULL)
  BY Neighbours DEF OnList
<1>5. h = m => m \in OnList
  BY DEF OnList
<1>6. /\ \A b \in Pmad : free_list'[b] = IF b = a /\ h = m THEN n ELSE free_list[b]
      /\ \A p \in Page : next_free'[p] = IF p = m THEN NULL ELSE IF p = r THEN n ELSE next_free[p]
      /\ \A p \in Page : prev_free'[p] = IF p = m THEN NULL ELSE IF p = n THEN r ELSE prev_free[p]
      /\ \A p \in Page \ {m} : ref_count'[p] = ref_count[p]
  BY <1>0 DEF Unlink, TypeOK
<1>7. TypeOK'
  <2>1. /\ free_list' \in [Pmad -> Page \cup {NULL}]
        /\ next_free' \in [Page -> Page \cup {NULL}]
        /\ prev_free' \in [Page -> Page \cup {NULL}]
    BY <1>0 DEF Unlink, TypeOK
  <2>2. \A b \in Pmad : free_list'[b] # NULL => PmadOf[free_list'[b]] = b
    BY <1>0, <1>2, <1>6 DEF TypeOK
  <2>3. \A p \in Page : next_free'[p] # NULL => PmadOf[next_free'[p]] = PmadOf[p]
    BY <1>0, <1>1, <1>2, <1>6 DEF TypeOK
  <2>4. \A p \in Page : prev_free'[p] # NULL => PmadOf[prev_free'[p]] = PmadOf[p]
    BY <1>0, <1>1, <1>2, <1>6 DEF TypeOK
  <2> QED BY <2>1, <2>2, <2>3, <2>4 DEF TypeOK
\* Exactly m leaves the list.
<1>8. \A p \in Page : p \in OnList' <=> p \in OnList /\ p # m
  <2> SUFFICES ASSUME NEW p \in Page PROVE p \in OnList' <=> p \in OnList /\ p # m
    OBVIOUS
  <2>0. p \in OnList' <=> p = free_list'[PmadOf[p]] \/ prev_free'[p] # NULL
    BY DEF OnList
  <2>a. PmadOf[p] \in Pmad /\ p # NULL
    OBVIOUS
  <2>1. CASE p = m
    BY <1>0, <1>3, <1>5, <1>6, <2>0, <2>1, ZenonT(60)
  <2>2. CASE p # m /\ p = n
    <3>1. p \in OnList' <=> p = free_list'[a] \/ r # NULL
      BY <1>2, <1>6, <2>0, <2>2, <2>a
    <3>2. CASE m \in OnList
      <4>1. p \in OnList /\ n # h
        BY <1>0, <1>3, <2>2, <2>a, <3>2 DEF OnList
      <4>2. m = h \/ r # NULL
        BY <3>2 DEF OnList
      <4> QED BY <1>0, <1>6, <2>2, <3>1, <4>1, <4>2, ZenonT(60)
    <3>3. CASE m \notin OnList
      BY <1>0, <1>2, <1>4, <1>6, <2>2, <2>a, <3>1, <3>3, ZenonT(60) DEF OnList
    <3> QED BY <3>2, <3>3
  <2>3. CASE p # m /\ p # n
    BY <1>0, <1>6, <2>0, <2>3, <2>a, ZenonT(60) DEF OnList
  <2> QED BY <2>1, <2>2, <2>3
<1> HIDE DEF a, n, r, h
<1>9. ListedUnused'
  BY <1>0, <1>6, <1>8 DEF ListedUnused
<1>10. UsedUnlinked'
  <2> SUFFICES ASSUME NEW p \in Page, ref_count'[p] > 0, p # m
               PROVE  next_free'[p] = NULL /\ prev_free'[p] = NULL
    BY <1>6 DEF UsedUnlinked
  <2>1. next_free[p] = NULL /\ prev_free[p] = NULL
    BY <1>0, <1>6 DEF UsedUnlinked
  <2>2. p # r
    BY <1>0, <1>1, <2>1
  <2>3. p = n => r = NULL
    BY <1>0, <1>1, <1>3, <2>1
  <2> QED BY <1>6, <2>1, <2>2, <2>3
<1>11. LinksMutual'
  <2> SUFFICES ASSUME NEW p \in Page
               PROVE  /\ p \in OnList' /\ next_free'[p] # NULL => prev_free'[next_free'[p]] = p
                      /\ prev_free'[p] # NULL => next_free'[prev_free'[p]] = p
    BY DEF LinksMutual
  <2>1. ASSUME p \in OnList', next_free'[p] # NULL PROVE prev_free'[next_free'[p]] = p
    <3>1. p # m /\ p \in OnList
      BY <1>8, <2>1
    <3>2. CASE p = r
      BY <1>1, <1>2, <1>3, <1>6, <2>1, <3>1, <3>2, ZenonT(60)
    <3>3. CASE p # r
      <4> DEFINE q == next_free[p]
      <4>1. next_free'[p] = q /\ q \in Page /\ q # NULL
        BY <1>0, <1>6, <2>1, <3>1, <3>3 DEF TypeOK
      <4>2. prev_free[q] = p /\ q # free_list[PmadOf[q]]
        BY <3>1, <4>1, Neighbours
      <4>3. q # m
        BY <3>3, <4>2 DEF r
      <4>4. q # n
        BY <1>0, <1>2, <1>3, <1>4, <3>1, <4>1, <4>2 DEF h
      <4> QED BY <1>6, <4>1, <4>2, <4>3, <4>4, ZenonT(60)
    <3> QED BY <3>2, <3>3
  <2>2. ASSUME prev_free'[p] # NULL PROVE next_free'[prev_free'[p]] = p
    <3>1. p # m
      BY <1>6, <2>2
    <3>2. CASE p = n
      BY <1>1, <1>6, <2>2, <3>1, <3>2, ZenonT(60)
    <3>3. CASE p # n
      <4> DEFINE x == prev_free[p]
      <4>1. prev_free'[p] = x /\ x # NULL
        BY <1>6, <2>2, <3>1, <3>3
      <4>2. x \in Page /\ next_free[x] = p
        BY <4>1, Neighbours
      <4>3. x # m /\ x # r
        BY <1>1, <3>1, <3>3, <4>2, ZenonT(60) DEF n
      <4> QED BY <1>6, <4>1, <4>2, <4>3, ZenonT(60)
    <3> QED BY <3>2, <3>3
  <2> QED BY <2>1, <2>2
<1>12. BackListed'
  <2> SUFFICES ASSUME NEW p \in Page, prev_free'[p] # NULL
               PROVE  prev_free'[p] \in OnList' <=> p # free_list'[PmadOf[p]]
    BY DEF BackListed
  <2>1. p # m /\ PmadOf[p] \in Pmad
    BY <1>6
  <2>2. CASE p = n
    <3>1. prev_free'[p] = r /\ r # NULL /\ n # NULL
      BY <1>6, <2>1, <2>2
    <3>2. r \in OnList' <=> r \in OnList
      BY <1>1, <1>8, <3>1, ZenonT(60)
    <3>3. r \in OnList <=> m # h
      BY <1>0, <3>1 DEF BackListed, r, h, a
    <3>4. p # free_list'[PmadOf[p]] <=> m # h
      <4>1. PmadOf[p] = a /\ n # h
        BY <1>1, <1>2, <1>3, <2>2, <3>1
      <4>2. free_list'[a] = IF h = m THEN n ELSE h
        BY <1>0, <1>6 DEF h
      <4> QED BY <2>1, <2>2, <4>1, <4>2
    <3> QED BY <3>1, <3>2, <3>3, <3>4
  <2>3. CASE p # n
    <3> DEFINE x == prev_free[p]
    <3>1. prev_free'[p] = x /\ x # NULL
      BY <1>6, <2>1, <2>3
    <3>2. x \in Page /\ next_free[x] = p
      BY <3>1, Neighbours
    <3>3. x # m
      BY <2>3, <3>2 DEF n
    <3>4. x \in OnList' <=> x \in OnList
      BY <1>8, <3>2, <3>3, ZenonT(60)
    <3>5. x \in OnList <=> p # free_list[PmadOf[p]]
      BY <1>0, <3>1 DEF BackListed
    <3>6. p # free_list'[PmadOf[p]] <=> p # free_list[PmadOf[p]]
      BY <1>6, <2>1, <2>3, ZenonT(60) DEF h
    <3> QED BY <3>1, <3>4, <3>5, <3>6
  <2> QED BY <2>2, <2>3
<1>13. Ascending'
  <2> SUFFICES ASSUME NEW p \in Page, p \in OnList', next_free'[p] # NULL
               PROVE  p < next_free'[p]
    BY DEF Ascending
  <2>1. p # m /\ p \in OnList
    BY <1>8
  <2>2. CASE p = r
    <3>1. next_free'[p] = n /\ n # NULL
      BY <1>6, <2>1, <2>2
    <3>2. r < m /\ m < n
      BY <1>0, <1>1, <2>1, <2>2, <3>1 DEF Ascending, n
    <3>3. r \in Nat /\ m \in Nat /\ n \in Nat
      BY <1>2, <2>2, <3>1, ZenonT(60)
    <3> QED BY <2>2, <3>1, <3>2, <3>3
  <2>3. CASE p # r
    BY <1>0, <1>6, <2>1, <2>3 DEF Ascending
  <2> QED BY <2>2, <2>3
<1>14. NoStaleForward'
  <2> SUFFICES ASSUME NEW p \in Page, NEW q \in Page, next_free'[p] = q, q \in OnList',
                      q # free_list'[PmadOf[q]]
               PROVE  prev_free'[q] = p
    BY DEF NoStaleForward
  <2>1. p # m /\ q # m /\ q \in OnList /\ q # NULL /\ PmadOf[q] \in Pmad
    BY <1>6, <1>8
  <2>2. CASE p = r
    BY <1>6, <2>1, <2>2
  <2>3. CASE p # r
    <3>1. next_free[p] = q
      BY <1>6, <2>1, <2>3
    <3>2. q # free_list[PmadOf[q]]
      BY <1>6, <2>1, ZenonT(60) DEF h
    <3>3. prev_free[q] = p
      BY <1>0, <2>1, <3>1, <3>2 DEF NoStaleForward
    <3>4. q # n
      BY <1>2, <1>3, <1>4, <2>1, <3>2, <3>3 DEF h
    <3> QED BY <1>6, <2>1, <3>3, <3>4
  <2> QED BY <2>2, <2>3
<1> QED BY <1>7, <1>9, <1>10, <1>11, <1>12, <1>13, <1>14 DEF Inv

\* ki_set_page_used preserves the invariant on every page, listed or not.
LEMMA UsedInv ==
    ASSUME Inv, NEW m \in Page, ki_set_page_used(m)
    PROVE  Inv'
<1> USE DEF Inv
<1>0. TypeOK
  OBVIOUS
<1>a. ref_count' = [ref_count EXCEPT ![m] = @ + 1] /\ ref_count' \in [Page -> 0..MaxRef]
  BY MaxRefAssumption DEF TypeOK, ki_set_page_used
<1>1. CASE ref_count[m] # 0
  <2>1. UNCHANGED <<free_list, next_free, prev_free>>
    BY <1>1 DEF ki_set_page_used
  <2>2. OnList' = OnList
    BY <2>1 DEF OnList
  <2>3. \A p \in Page : /\ ref_count'[p] = 0 <=> ref_count[p] = 0
                        /\ ref_count'[p] > 0 <=> ref_count[p] > 0
    BY <1>1, <1>a DEF TypeOK
  <2>4. TypeOK'
    BY <1>a, <2>1 DEF TypeOK
  <2>5. ListedUnused'
    BY <2>2, <2>3 DEF ListedUnused
  <2>6. UsedUnlinked'
    BY <2>1, <2>3 DEF UsedUnlinked
  <2>7. LinksMutual'
    BY <2>1, <2>2 DEF LinksMutual
  <2>8. BackListed' /\ Ascending' /\ NoStaleForward'
    BY <2>1, <2>2 DEF BackListed, Ascending, NoStaleForward
  <2> QED BY <2>4, <2>5, <2>6, <2>7, <2>8
<1>2. CASE ref_count[m] = 0
  <2>1. Unlink(m)
    BY <1>2 DEF ki_set_page_used
  <2> HIDE DEF Inv
  <2> QED BY <1>2, <1>a, <2>1, UnlinkInv, ZenonT(60)
<1> QED BY <1>1, <1>2

\* ki_set_page_free preserves the invariant.
LEMMA FreedInv ==
    ASSUME Inv, NEW m \in Page, ki_set_page_free(m)
    PROVE  Inv'
<1> DEFINE a == PmadOf[m]
           h == free_list[a]
<1>0. /\ TypeOK /\ ListedUnused /\ UsedUnlinked /\ LinksMutual /\ BackListed
      /\ Ascending /\ NoStaleForward /\ m # NULL /\ a \in Pmad
  BY DEF Inv
<1>1. /\ ref_count[m] > 0 /\ free_list' = free_list
      /\ ref_count' = [ref_count EXCEPT ![m] = @ - 1]
      /\ ref_count' \in [Page -> 0..MaxRef]
  BY <1>0, MaxRefAssumption DEF ki_set_page_free, TypeOK
<1>2. next_free[m] = NULL /\ prev_free[m] = NULL /\ m \notin OnList /\ m # h
  BY <1>0, <1>1 DEF UsedUnlinked, ListedUnused, OnList
<1>3. CASE ref_count[m] # 1
  <2>1. UNCHANGED <<free_list, next_free, prev_free>> /\ OnList' = OnList
    BY <1>1, <1>3 DEF ki_set_page_free, OnList
  <2>2. \A p \in Page : ref_count'[p] = 0 <=> ref_count[p] = 0
    BY <1>0, <1>1, <1>3 DEF TypeOK
  <2>3. TypeOK' /\ LinksMutual' /\ BackListed' /\ Ascending' /\ NoStaleForward'
    BY <1>0, <1>1, <2>1 DEF TypeOK, LinksMutual, BackListed, Ascending, NoStaleForward
  <2>4. ListedUnused'
    BY <1>0, <2>1, <2>2 DEF ListedUnused
  <2>5. UsedUnlinked'
    BY <1>0, <1>1, <2>1, <2>2 DEF UsedUnlinked, TypeOK
  <2> QED BY <2>3, <2>4, <2>5 DEF Inv
<1>4. CASE ref_count[m] = 1
  <2>1. /\ \A p \in Page : next_free'[p] = IF p = m THEN h ELSE next_free[p]
        /\ \A p \in Page : prev_free'[p] = IF p = h THEN m ELSE prev_free[p]
        /\ \A p \in Page \ {m} : ref_count'[p] = ref_count[p]
    BY <1>0, <1>1, <1>4 DEF ki_set_page_free, TypeOK
  <2>2. h # NULL => h \in Page /\ PmadOf[h] = a
    <3>1. h \in Page \cup {NULL}
      BY <1>0, ZenonT(60) DEF TypeOK
    <3>2. \A b \in Pmad : free_list[b] # NULL => PmadOf[free_list[b]] = b
      BY <1>0 DEF TypeOK
    <3> QED BY <1>0, <3>1, <3>2, ZenonT(60)
  <2>3. OnList' = OnList
    <3>1. \A p \in Page : p = h => p \in OnList
      BY <2>2 DEF OnList
    <3>2. \A p \in Page : p \in OnList' <=> p = free_list[PmadOf[p]] \/ prev_free'[p] # NULL
      BY <1>1 DEF OnList
    <3>3. \A p \in Page : p \in OnList' <=> p \in OnList
      BY <2>1, <2>2, <3>1, <3>2, ZenonT(60) DEF OnList
    <3> QED BY <3>3, ZenonT(60) DEF OnList
  <2> HIDE DEF a, h
  <2>4. TypeOK'
    <3>1. /\ next_free' \in [Page -> Page \cup {NULL}]
          /\ prev_free' \in [Page -> Page \cup {NULL}]
      <4>1. h \in Page \cup {NULL}
        BY <2>2
      <4> QED BY <1>0, <1>4, <4>1 DEF ki_set_page_free, TypeOK, h, a
    <3>2. \A p \in Page : next_free'[p] # NULL => PmadOf[next_free'[p]] = PmadOf[p]
      BY <1>0, <2>1, <2>2 DEF TypeOK, a
    <3>3. \A p \in Page : prev_free'[p] # NULL => PmadOf[prev_free'[p]] = PmadOf[p]
      BY <1>0, <2>1, <2>2 DEF TypeOK, a
    <3> QED BY <1>0, <1>1, <3>1, <3>2, <3>3, ZenonT(60) DEF TypeOK
  <2>5. ListedUnused'
    BY <1>0, <1>2, <2>1, <2>3 DEF ListedUnused
  <2>6. UsedUnlinked'
    <3> SUFFICES ASSUME NEW p \in Page, ref_count'[p] > 0
                 PROVE  next_free'[p] = NULL /\ prev_free'[p] = NULL
      BY DEF UsedUnlinked
    <3>1. p # m
      BY <1>0, <1>1, <1>4 DEF TypeOK
    <3>2. ref_count[p] > 0
      BY <2>1, <3>1
    <3>3. p # h
      BY <1>0, <2>2, <3>2 DEF ListedUnused, OnList, h
    <3> QED BY <1>0, <2>1, <3>1, <3>2, <3>3 DEF UsedUnlinked
  <2>7. LinksMutual'
    <3>1. ASSUME NEW p \in Page, p \in OnList', next_free'[p] # NULL
          PROVE  prev_free'[next_free'[p]] = p
      <4> DEFINE q == next_free[p]
      <4>1. p # m /\ p \in OnList /\ next_free'[p] = q /\ q # NULL
        BY <1>2, <2>1, <2>3, <3>1, ZenonT(60)
      <4>2. q \in Page /\ prev_free[q] = p /\ q # free_list[PmadOf[q]]
        BY <4>1, Neighbours
      <4>3. q # h
        BY <2>2, <4>1, <4>2 DEF h
      <4> QED BY <2>1, <4>1, <4>2, <4>3, ZenonT(60)
    <3>2. ASSUME NEW p \in Page, prev_free'[p] # NULL
          PROVE  next_free'[prev_free'[p]] = p
      <4>1. CASE p = h
        BY <2>1, <4>1
      <4>2. CASE p # h
        <5> DEFINE x == prev_free[p]
        <5>1. prev_free'[p] = x /\ x # NULL
          BY <2>1, <3>2, <4>2
        <5>2. x \in Page /\ next_free[x] = p /\ p # NULL
          BY <5>1, Neighbours
        <5>3. x # m
          BY <1>2, <5>2
        <5> QED BY <2>1, <5>1, <5>2, <5>3, ZenonT(60)
      <4> QED BY <4>1, <4>2
    <3> QED BY <3>1, <3>2 DEF LinksMutual
  <2>8. BackListed'
    <3> SUFFICES ASSUME NEW p \in Page, prev_free'[p] # NULL
                 PROVE  prev_free'[p] \in OnList <=> p # free_list[PmadOf[p]]
      BY <1>1, <2>3 DEF BackListed
    <3>1. CASE p = h
      BY <1>2, <2>1, <2>2, <3>1, ZenonT(60) DEF h
    <3>2. CASE p # h
      BY <1>0, <2>1, <3>2, ZenonT(60) DEF BackListed
    <3> QED BY <3>1, <3>2
  <2>9. Ascending'
    BY <1>0, <1>2, <2>1, <2>3, ZenonT(60) DEF Ascending
  <2>10. NoStaleForward'
    <3> SUFFICES ASSUME NEW p \in Page, NEW q \in Page, next_free'[p] = q, q \in OnList,
                        q # free_list[PmadOf[q]]
                 PROVE  prev_free'[q] = p
      BY <1>1, <2>3 DEF NoStaleForward
    <3>1. q # h
      BY <2>2, Zenon DEF h
    <3>2. p # m
      BY <2>1, <3>1, ZenonT(60)
    <3> QED BY <1>0, <2>1, <3>1, <3>2, ZenonT(60) DEF NoStaleForward
  <2> QED BY <2>4, <2>5, <2>6, <2>7, <2>8, <2>9, <2>10 DEF Inv
<1> QED BY <1>3, <1>4

\* What ki_alloc_free_page returns is the head of some region of the type.
LEMMA AllocatedIsHead ==
    ASSUME TypeOK, NEW type \in Type, ki_alloc_free_page(type) # NULL
    PROVE  \E b \in Pmad : /\ TypeOf[b] = type /\ free_list[b] # NULL
                           /\ ki_alloc_free_page(type) = free_list[b]
<1> DEFINE C == Candidates(type)
<1>1. C \in SUBSET Nat /\ C # {}
  BY ZenonT(60) DEF Candidates, ki_alloc_free_page
<1>2. Lowest(C) \in C /\ \A q \in C : Lowest(C) <= q
  BY <1>1, LowestIsLeast
<1>3. ki_alloc_free_page(type) = free_list[Lowest(C)]
  BY <1>1 DEF ki_alloc_free_page, Lowest
<1> QED BY <1>2, <1>3, ZenonT(60) DEF Candidates

\* Every call preserves the invariant.
LEMMA NextInv == Inv /\ [Next]_vars => Inv'
<1> SUFFICES ASSUME Inv, [Next]_vars PROVE Inv'
  OBVIOUS
<1>1. ASSUME NEW type \in Type, mm_pgalloc(type) PROVE Inv'
  <2> DEFINE addr == ki_alloc_free_page(type)
  <2>1. addr # NULL /\ ki_set_page_used(addr)
    BY <1>1 DEF mm_pgalloc
  <2>2. addr \in Page
    BY <2>1, AllocatedIsHead DEF Inv, TypeOK
  <2> HIDE DEF addr
  <2> QED BY <2>1, <2>2, UsedInv
<1>2. ASSUME NEW m \in Page, mm_refpg(m) PROVE Inv'
  BY <1>2, UsedInv DEF mm_refpg
<1>3. ASSUME NEW m \in Page, mm_pgfree(m) PROVE Inv'
  BY <1>3, FreedInv DEF mm_pgfree
<1>4. CASE UNCHANGED vars
  BY <1>4 DEF vars, Inv, TypeOK, ListedUnused, UsedUnlinked, LinksMutual, BackListed,
              Ascending, NoStaleForward, OnList
<1> QED BY <1>1, <1>2, <1>3, <1>4 DEF Next

-----------------------------------------------------------------------------
(* The results.                                                            *)

\* The free lists of every region are well formed in every reachable state.
THEOREM Invariance == Spec => []Inv
<1> QED BY InitInv, NextInv, PTL DEF Spec

\* A listed page has no user: mm_pgalloc never hands out a page that is held.
THEOREM ListedPagesAreUnused == Spec => []ListedUnused
<1>1. Inv => ListedUnused
  BY DEF Inv
<1> QED BY <1>1, Invariance, PTL

\* Links agree both ways, a list ascends and so ends, and no page off the lists
\* links into the middle of one (pgalloc.cc:53-92).
THEOREM ListsAreWellLinked == Spec => []WellLinked
<1>1. Inv => WellLinked
  BY DEF Inv, WellLinked
<1> QED BY <1>1, Invariance, PTL

\* The assertion at pgalloc.cc:89 never fires.
THEOREM UsedPagesAreUnlinked == Spec => []UsedUnlinked
<1>1. Inv => UsedUnlinked
  BY DEF Inv
<1> QED BY <1>1, Invariance, PTL

\* The head of a list is replaced only by the page behind it.
THEOREM HeadAdvance == Spec => HeadOnlyAdvances
<1> DEFINE A == \A a \in Pmad : free_list'[a] # free_list[a] =>
                    free_list[a] # NULL /\ free_list'[a] = next_free[free_list[a]]
<1>1. Inv /\ [Next]_vars => [A]_vars
  <2> SUFFICES ASSUME Inv, Next PROVE A
    OBVIOUS
  <2>0. TypeOK
    BY DEF Inv
  <2>1. ASSUME NEW m \in Page, ki_set_page_used(m) PROVE A
    BY <2>0, <2>1 DEF ki_set_page_used, Unlink, TypeOK
  <2>2. ASSUME NEW m \in Page, ki_set_page_free(m) PROVE A
    BY <2>2 DEF ki_set_page_free
  <2>3. ASSUME NEW type \in Type, mm_pgalloc(type) PROVE A
    <3>1. /\ ki_alloc_free_page(type) \in Page
          /\ ki_set_page_used(ki_alloc_free_page(type))
      BY <2>0, <2>3, AllocatedIsHead DEF mm_pgalloc, TypeOK
    <3> QED BY <2>1, <3>1, ZenonT(60)
  <2> QED BY <2>1, <2>2, <2>3 DEF Next, mm_refpg, mm_pgfree
<1> QED BY <1>1, Invariance, PTL DEF Spec, HeadOnlyAdvances

-----------------------------------------------------------------------------
(* Temporary mappings.                                                     *)

CONSTANTS Slots, Nesting, Tables
VARIABLES mask, address, stage, held

T == INSTANCE TmpMap

\* The specification of the slots.
TmpSpec == T!Init /\ [][T!Next]_T!tmp

\* A mapping that is held is marked present.
HeldMarked ==
    \A i \in DOMAIN held : /\ "P" \in mask[held[i].slot]
                           /\ address[held[i].slot] = held[i].page
HeldApart == \A i, j \in DOMAIN held : i # j => held[i].slot # held[j].slot

\* The inductive invariant of the slots.
TmpInv == /\ mask \in [T!Slot -> SUBSET {"P", "RW"}] /\ address \in [T!Slot -> Tables \cup {NULL}]
          /\ held \in Seq([slot : T!Slot, page : Tables])
          /\ stage # "panic" => HeldMarked /\ HeldApart

\* First finds a slot of the set it is given.
LEMMA FirstIsMember ==
    ASSUME NEW S \in SUBSET Nat, T!First(S) # NULL
    PROVE  T!First(S) \in S
<1>1. S # {}
  BY DEF T!First
<1>2. Lowest(S) \in S
  BY <1>1, LowestIsLeast, Zenon
<1> QED BY <1>1, <1>2 DEF Lowest, T!First

\* Entering a mapping in a slot that is not present touches no slot that is held.
LEMMA EnterInv ==
    ASSUME TmpInv, stage # "panic", NEW s \in T!Slot, "P" \notin mask[s], NEW p \in Tables,
           NEW m \in SUBSET {"P", "RW"}, "P" \in m, T!Enter(s, p, m)
    PROVE  TmpInv'
<1> DEFINE h == [slot |-> s, page |-> p]
<1>1. /\ mask' = [mask EXCEPT ![s] = m] /\ address' = [address EXCEPT ![s] = p]
      /\ held' = Append(held, h)
  BY DEF T!Enter
<1>2. mask' \in [T!Slot -> SUBSET {"P", "RW"}] /\ address' \in [T!Slot -> Tables \cup {NULL}]
  BY <1>1 DEF TmpInv
<1>3. /\ held' \in Seq([slot : T!Slot, page : Tables]) /\ Len(held) \in Nat
      /\ DOMAIN held = 1 .. Len(held) /\ DOMAIN held' = 1 .. (Len(held) + 1)
      /\ held'[Len(held) + 1] = h /\ \A i \in DOMAIN held : held'[i] = held[i] /\ held[i].slot \in T!Slot
  <2> DEFINE H == [slot : T!Slot, page : Tables]
  <2>1. held \in Seq(H) /\ h \in H /\ \A x \in H : x.slot \in T!Slot
    BY DEF TmpInv
  <2> HIDE DEF H, h
  <2>2. /\ Append(held, h) \in Seq(H) /\ Len(held) \in Nat /\ DOMAIN held = 1 .. Len(held)
        /\ DOMAIN Append(held, h) = 1 .. (Len(held) + 1) /\ Append(held, h)[Len(held) + 1] = h
        /\ \A i \in DOMAIN held : Append(held, h)[i] = held[i] /\ held[i] \in H
    BY ONLY <2>1, SMTT(60)
  <2> QED BY <1>1, <2>1, <2>2, Zenon DEF H
<1>4. \A i \in DOMAIN held' : (i \in DOMAIN held /\ held'[i] = held[i]) \/ (i = Len(held) + 1 /\ held'[i] = h)
  BY <1>3
<1>5. \A i \in DOMAIN held : held[i].slot # s
  BY DEF TmpInv, HeldMarked
<1>6. HeldMarked'
  <2>1. ASSUME NEW i \in DOMAIN held
        PROVE "P" \in mask'[held[i].slot] /\ address'[held[i].slot] = held[i].page
    BY <1>1, <1>3, <1>5 DEF TmpInv, HeldMarked
  <2>2. "P" \in mask'[s] /\ address'[s] = p
    BY <1>1, Zenon DEF TmpInv
  <2> QED BY ONLY <1>4, <2>1, <2>2, SMTT(60) DEF HeldMarked
<1>7. HeldApart'
  <2> SUFFICES ASSUME NEW i \in DOMAIN held', NEW j \in DOMAIN held', i # j
               PROVE  held'[i].slot # held'[j].slot
    BY DEF HeldApart
  <2>1. h.slot = s
    OBVIOUS
  <2>2. \A k, l \in DOMAIN held : k # l => held[k].slot # held[l].slot
    BY DEF TmpInv, HeldApart
  <2> HIDE DEF h
  <2> QED BY <1>4, <1>5, <2>1, <2>2, Zenon
<1> QED BY <1>2, <1>3, <1>6, <1>7 DEF TmpInv

\* Giving back the innermost mapping touches only its slot.
LEMMA LeaveInv ==
    ASSUME TmpInv, stage # "panic", held # <<>>, NEW m \in SUBSET {"P", "RW"},
           mask' = [mask EXCEPT ![T!Innermost] = m], address' = address,
           held' = SubSeq(held, 1, Len(held) - 1)
    PROVE  TmpInv'
<1>1. /\ Len(held) \in Nat \ {0} /\ DOMAIN held = 1 .. Len(held)
      /\ held' \in Seq([slot : T!Slot, page : Tables]) /\ DOMAIN held' = 1 .. (Len(held) - 1)
      /\ \A i \in DOMAIN held' : held'[i] = held[i]
      /\ \A i \in DOMAIN held : held[i].slot \in T!Slot
  <2> DEFINE H == [slot : T!Slot, page : Tables]
  <2>1. held \in Seq(H) /\ \A x \in H : x.slot \in T!Slot
    BY DEF TmpInv
  <2> HIDE DEF H
  <2>2. Len(held) \in Nat \ {0} /\ DOMAIN held = 1 .. Len(held) /\ \A i \in DOMAIN held : held[i] \in H
    BY <2>1
  <2>3. /\ SubSeq(held, 1, Len(held) - 1) \in Seq(H) /\ DOMAIN SubSeq(held, 1, Len(held) - 1) = 1 .. (Len(held) - 1)
        /\ \A i \in 1 .. (Len(held) - 1) : SubSeq(held, 1, Len(held) - 1)[i] = held[i]
    BY <2>1, <2>2
  <2> QED BY <2>1, <2>2, <2>3, Zenon DEF H
<1>2. /\ Len(held) \in DOMAIN held /\ Len(held) \notin DOMAIN held'
      /\ DOMAIN held' \subseteq DOMAIN held
  BY <1>1
<1>3. \A i \in DOMAIN held' : held[i].slot # T!Innermost
  BY <1>2, Zenon DEF TmpInv, HeldApart, T!Innermost
<1>4. mask' \in [T!Slot -> SUBSET {"P", "RW"}]
  BY ZenonT(60) DEF TmpInv
<1>5. HeldMarked'
  BY <1>1, <1>2, <1>3, SMTT(60) DEF TmpInv, HeldMarked
<1>6. HeldApart'
  <2>1. HeldApart
    BY DEF TmpInv
  <2> QED BY <1>1, <1>2, <2>1 DEF HeldApart
<1> QED BY <1>1, <1>4, <1>5, <1>6 DEF TmpInv

\* Every step of the slots keeps their invariant.
LEMMA TmpStepInv ==
    ASSUME Slots \in Nat, TmpInv, [T!Next]_T!tmp
    PROVE  TmpInv'
<1>1. CASE UNCHANGED T!tmp
  BY <1>1, Zenon DEF T!tmp, TmpInv, HeldMarked, HeldApart
<1>2. ASSUME NEW p \in Tables, T!hn_tmpmap_early(p) PROVE TmpInv'
  <2> DEFINE Free == {r \in T!Slot : "P" \notin mask[r]}  s == T!First(Free)
  <2>1. stage = "early" /\ (T!Panic \/ (s # NULL /\ T!Enter(s, p, {"P", "RW"})))
    BY <1>2, Zenon DEF T!hn_tmpmap_early
  <2>2. ASSUME s # NULL PROVE s \in T!Slot /\ "P" \notin mask[s]
    <3>1. Free \in SUBSET Nat
      BY DEF T!Slot
    <3>2. s \in Free
      BY <2>2, <3>1, FirstIsMember, Zenon
    <3> QED BY <3>2
  <2>3. CASE T!Panic
    BY <2>3 DEF T!Panic, TmpInv
  <2> QED BY <1>2, <2>1, <2>2, <2>3, EnterInv
<1>3. ASSUME NEW p \in Tables, NEW m \in {{"P"}, {"P", "RW"}}, T!hn_tmpmap_post(p, m) PROVE TmpInv'
  <2> DEFINE Free == {r \in 0 .. Slots - 3 : mask[r] \subseteq {"P"}}  s == T!First(Free)
  <2>1. stage = "post" /\ (T!Panic \/ (s # NULL /\ "P" \notin mask[s] /\ T!Enter(s, p, m)))
    BY <1>3, Zenon DEF T!hn_tmpmap_post
  <2>2. ASSUME s # NULL PROVE s \in T!Slot
    <3>1. Free \in SUBSET Nat
      OBVIOUS
    <3>2. s \in Free
      BY <2>2, <3>1, FirstIsMember, Zenon
    <3>3. 0 .. Slots - 3 \subseteq T!Slot
      BY DEF T!Slot
    <3> QED BY <3>2, <3>3, ZenonT(60)
  <2>3. CASE T!Panic
    BY <2>3 DEF T!Panic, TmpInv
  <2>4. m \in SUBSET {"P", "RW"} /\ "P" \in m
    BY Zenon
  <2> QED BY <1>3, <2>1, <2>2, <2>3, <2>4, EnterInv, ZenonT(60)
<1>4. CASE T!hn_tmpunmap_early
  <2> DEFINE m == mask[T!Innermost] \ {"P"}
  <2>1. T!Innermost \in T!Slot
    <3> DEFINE H == [slot : T!Slot, page : Tables]
    <3>1. held \in Seq(H) /\ held # <<>> /\ \A x \in H : x.slot \in T!Slot
      BY <1>4 DEF T!hn_tmpunmap_early, TmpInv
    <3> HIDE DEF H
    <3>2. held[Len(held)] \in H
      BY <3>1
    <3> QED BY <3>1, <3>2, Zenon DEF T!Innermost
  <2>2. m \in SUBSET {"P", "RW"} /\ mask' = [mask EXCEPT ![T!Innermost] = m]
    BY <1>4, <2>1 DEF T!hn_tmpunmap_early, TmpInv
  <2> HIDE DEF m
  <2> QED BY <1>4, <2>2, LeaveInv, ZenonT(60) DEF T!hn_tmpunmap_early
<1>5. CASE T!hn_tmpunmap_post
  <2>1. CASE T!Panic
    BY <2>1, Zenon DEF T!Panic, TmpInv
  <2> QED BY <1>5, <2>1, LeaveInv, ZenonT(60) DEF T!hn_tmpunmap_post
<1>6. CASE T!Handover
  BY <1>6 DEF T!Handover, TmpInv, HeldMarked, HeldApart
<1> QED BY <1>1, <1>2, <1>3, <1>4, <1>5, <1>6, Zenon DEF T!Next

\* What a walk of the page tables has mapped stays mapped until the walk gives
\* it back, by the functions used while memory is set up and by the later ones
\* (hn_tmpmap_early, hn_tmpmap_post), for every size of the area.
THEOREM HeldPagesAreReadable ==
    ASSUME Slots \in Nat
    PROVE  TmpSpec => []T!HeldReadable
<1>1. T!Init => TmpInv
  BY DEF T!Init, TmpInv, HeldMarked, HeldApart
<1>2. TmpInv /\ [T!Next]_T!tmp => TmpInv'
  BY TmpStepInv
<1>3. TmpInv => T!HeldReadable
  BY Zenon DEF TmpInv, HeldMarked, HeldApart, T!HeldReadable
<1> QED BY <1>1, <1>2, <1>3, PTL DEF TmpSpec

-----------------------------------------------------------------------------
(* Nodes of sets and maps.                                                 *)

CONSTANTS Box, Cell, SetKey
VARIABLES flavour, boxes, content, allocator, cell, lost, halt

N == INSTANCE SetMap

\* The inductive invariant of the containers.
BoxInv == /\ boxes \subseteq Box /\ lost \subseteq Cell
          /\ content \in [Box -> SUBSET Cell] /\ cell \in [Cell -> SetKey \cup {NULL}]
          /\ N!NodesOwned

\* Allocated nodes are the ones in a container or given up; this is what an
\* action has to keep.
LEMMA BoxKept ==
    ASSUME BoxInv, boxes' \subseteq Box, lost' \subseteq Cell, content' \in [Box -> SUBSET Cell],
           cell' \in [Cell -> SetKey \cup {NULL}],
           \A n \in Cell : cell'[n] # NULL <=> n \in lost' \/ \E x \in Box : n \in content'[x],
           \A x \in Box : /\ x \notin boxes' => content'[x] = {}
                          /\ content'[x] \cap lost' = {},
           \A x, y \in Box : x # y => content'[x] \cap content'[y] = {},
           \A x \in Box : \A m, n \in content'[x] : cell'[m] = cell'[n] => m = n
    PROVE  BoxInv'
BY Zenon DEF BoxInv, N!NodesOwned

\* The invariant in the form in which the steps use it.
LEMMA BoxFacts ==
    ASSUME BoxInv
    PROVE  /\ \A n \in Cell : cell[n] # NULL <=> n \in lost \/ \E x \in Box : n \in content[x]
           /\ \A x \in Box : /\ content[x] \subseteq Cell
                             /\ x \notin boxes => content[x] = {}
                             /\ content[x] \cap lost = {}
           /\ \A x, y \in Box : x # y => content[x] \cap content[y] = {}
           /\ \A x \in Box : \A m, n \in content[x] : cell[m] = cell[n] => m = n
BY DEF BoxInv, N!NodesOwned

\* Insertion takes a node that nobody has and a key that the container lacks.
LEMMA BoxInsertInv ==
    ASSUME NULL \notin SetKey, BoxInv, NEW x \in Box, NEW k \in SetKey, N!insert(x, k)
    PROVE  BoxInv'
<1>1. CASE N!Stop("fault")
  BY <1>1, SMTT(60) DEF N!Stop, BoxInv, N!NodesOwned
<1>2. ASSUME x \in boxes, N!find(x, k) = {}, NEW n \in Cell, cell[n] = NULL,
             cell' = [cell EXCEPT ![n] = k], content' = [content EXCEPT ![x] = @ \cup {n}],
             UNCHANGED <<boxes, lost>>
      PROVE  BoxInv'
  <2>1. /\ cell' \in [Cell -> SetKey \cup {NULL}] /\ content' \in [Box -> SUBSET Cell]
        /\ cell'[n] = k /\ \A m \in Cell \ {n} : cell'[m] = cell[m]
        /\ content'[x] = content[x] \cup {n} /\ \A y \in Box \ {x} : content'[y] = content[y]
    BY <1>2, Zenon DEF BoxInv
  <2>2. n \notin lost /\ \A y \in Box : n \notin content[y]
    BY <1>2, BoxFacts
  <2>3. \A m \in content[x] : cell[m] # k
    BY <1>2, Zenon DEF N!find
  <2>4. \A m \in Cell : cell'[m] # NULL <=> m \in lost \/ \E y \in Box : m \in content'[y]
    BY <2>1, <2>2, BoxFacts, ZenonT(60)
  <2>5. \A y \in Box : /\ y \notin boxes => content'[y] = {}
                       /\ content'[y] \cap lost = {}
    BY <1>2, <2>1, <2>2, BoxFacts, SMTT(60)
  <2>6. \A y, z \in Box : y # z => content'[y] \cap content'[z] = {}
    BY <2>1, <2>2, BoxFacts, SMTT(60)
  <2>7. \A y \in Box : \A l, m \in content'[y] : cell'[l] = cell'[m] => l = m
    BY <2>1, <2>2, <2>3, BoxFacts, SMTT(60)
  <2>8. boxes' \subseteq Box /\ lost' \subseteq Cell /\ lost' = lost /\ boxes' = boxes
    BY <1>2 DEF BoxInv
  <2> QED BY <2>1, <2>4, <2>5, <2>6, <2>7, <2>8, BoxKept, Zenon
<1> QED BY <1>1, <1>2, Zenon DEF N!insert

\* A container gives its nodes up or releases them; the others keep theirs.
LEMMA BoxEmptyInv ==
    ASSUME BoxInv, NEW x \in Box, N!clear(x) \/ \E k \in SetKey : N!remove(x, k)
    PROVE  BoxInv'
<1>1. CASE N!Stop("fault")
  BY <1>1, SMTT(60) DEF N!Stop, BoxInv, N!NodesOwned
<1>2. CASE /\ cell' = N!Released(content[x]) /\ content' = [content EXCEPT ![x] = {}]
           /\ UNCHANGED <<boxes, lost>>
  <2>1. /\ cell' \in [Cell -> SetKey \cup {NULL}] /\ content' \in [Box -> SUBSET Cell]
        /\ \A n \in Cell : cell'[n] = IF n \in content[x] THEN NULL ELSE cell[n]
        /\ content'[x] = {} /\ \A y \in Box \ {x} : content'[y] = content[y]
    BY <1>2, Zenon DEF BoxInv, N!Released
  <2>2. \A n \in Cell : cell'[n] # NULL <=> n \in lost \/ \E y \in Box : n \in content'[y]
    BY <2>1, BoxFacts, Zenon
  <2>3. \A y \in Box : \A m, n \in content'[y] : cell'[m] = cell'[n] => m = n
    BY <2>1, BoxFacts, SMTT(60)
  <2>4. /\ \A y \in Box : (y \notin boxes => content'[y] = {}) /\ content'[y] \cap lost = {}
        /\ \A y, z \in Box : y # z => content'[y] \cap content'[z] = {}
    BY <2>1, BoxFacts
  <2>5. boxes' \subseteq Box /\ lost' \subseteq Cell /\ lost' = lost /\ boxes' = boxes
    BY <1>2, Zenon DEF BoxInv
  <2> QED BY <2>1, <2>2, <2>3, <2>4, <2>5, BoxKept, Zenon
<1>3. ASSUME NEW k \in SetKey, N!remove(x, k) PROVE BoxInv'
  <2> DEFINE F == N!find(x, k)
  <2>1. /\ F \subseteq content[x] /\ content' \in [Box -> SUBSET Cell]
        /\ content'[x] = content[x] \ F /\ \A y \in Box \ {x} : content'[y] = content[y]
        /\ lost' = lost \cup F /\ UNCHANGED <<boxes, cell>>
    BY <1>3, Zenon DEF N!remove, N!find, BoxInv
  <2> HIDE DEF F
  <2>2. \A n \in Cell : cell'[n] # NULL <=> n \in lost' \/ \E y \in Box : n \in content'[y]
    BY <2>1, BoxFacts, Zenon
  <2>3. \A y \in Box : \A m, n \in content'[y] : cell'[m] = cell'[n] => m = n
    BY <2>1, BoxFacts, ZenonT(60)
  <2>4. /\ \A y \in Box : (y \notin boxes => content'[y] = {}) /\ content'[y] \cap lost' = {}
        /\ \A y, z \in Box : y # z => content'[y] \cap content'[z] = {}
    BY <2>1, BoxFacts, SMTT(60)
  <2>5. boxes' \subseteq Box /\ lost' \subseteq Cell /\ boxes' = boxes /\ cell' \in [Cell -> SetKey \cup {NULL}]
    BY <2>1, BoxFacts, ZenonT(60) DEF BoxInv
  <2> QED BY <2>1, <2>2, <2>3, <2>4, <2>5, BoxKept, Zenon
<1> QED BY <1>1, <1>2, <1>3, Zenon DEF N!clear

\* The nodes of y go to x, which had none or releases its own.
LEMMA BoxMoveInv ==
    ASSUME BoxInv, NEW x \in Box, NEW y \in boxes, x # y,
           boxes' = boxes \cup {x}, lost' = lost, cell' = N!Released(content[x]),
           content' = N!Transferred(x, y)
    PROVE  BoxInv'
<1>0. y \in Box
  BY DEF BoxInv
<1>1. /\ cell' \in [Cell -> SetKey \cup {NULL}] /\ content' \in [Box -> SUBSET Cell]
      /\ \A n \in Cell : cell'[n] = IF n \in content[x] THEN NULL ELSE cell[n]
      /\ content'[x] = content[y] /\ content'[y] = {} /\ \A z \in Box \ {x, y} : content'[z] = content[z]
  BY <1>0, Zenon DEF BoxInv, N!Released, N!Transferred
<1>2. \A n \in Cell : cell'[n] # NULL <=> n \in lost \/ \E z \in Box : n \in content'[z]
  BY <1>0, <1>1, BoxFacts, SMTT(60)
<1>3. \A z \in Box : \A m, n \in content'[z] : cell'[m] = cell'[n] => m = n
  <2>1. ASSUME NEW z \in Box, NEW w \in Box, w # x, content'[z] = content[w],
               NEW m \in content'[z], NEW n \in content'[z], cell'[m] = cell'[n]
        PROVE  m = n
    BY <1>1, <2>1, BoxFacts
  <2>2. \A z \in Box : content'[z] = {} \/ \E w \in Box : w # x /\ content'[z] = content[w]
    BY <1>0, <1>1, Zenon
  <2> QED BY ONLY <2>1, <2>2, SMTT(60)
<1>4. /\ \A z \in Box : (z \notin boxes' => content'[z] = {}) /\ content'[z] \cap lost = {}
      /\ \A w, z \in Box : w # z => content'[w] \cap content'[z] = {}
  BY <1>0, <1>1, BoxFacts, SMTT(60)
<1>5. boxes' \subseteq Box /\ lost' \subseteq Cell
  BY DEF BoxInv
<1> QED BY <1>1, <1>2, <1>3, <1>4, <1>5, BoxKept, Zenon

\* Every call of a container keeps the invariant.
LEMMA BoxStepInv ==
    ASSUME NULL \notin SetKey, BoxInv, [N!Next]_N!vars
    PROVE  BoxInv'
<1>0. ASSUME NEW x \in Box, content[x] = {} PROVE N!Released(content[x]) = cell
  BY <1>0, Zenon DEF N!Released, BoxInv
<1>1. ASSUME NEW why, N!Stop(why) PROVE BoxInv'
  BY <1>1, SMTT(60) DEF N!Stop, BoxInv, N!NodesOwned
<1>2. CASE UNCHANGED N!vars
  BY <1>2, SMTT(60) DEF N!vars, BoxInv, N!NodesOwned
<1>3. ASSUME NEW x \in Box, N!Construct(x) \/ N!Destroy(x) PROVE BoxInv'
  <2>1. CASE /\ content[x] = {} /\ boxes' \in {boxes \cup {x}, boxes \ {x}}
             /\ UNCHANGED <<content, cell, lost>>
    <3>1. \A z \in Box : z \notin boxes' => content[z] = {}
      BY <2>1, BoxFacts
    <3>2. boxes' \subseteq Box /\ lost \subseteq Cell /\ content \in [Box -> SUBSET Cell]
          /\ cell \in [Cell -> SetKey \cup {NULL}]
      BY <2>1 DEF BoxInv
    <3> QED BY <2>1, <3>1, <3>2, BoxFacts, BoxKept, SMTT(60)
  <2>2. CASE N!Stop("panic")
    BY <2>2, <1>1, Zenon
  <2> QED BY <1>3, <2>1, <2>2, BoxFacts, Zenon DEF N!Construct, N!Destroy
<1>4. ASSUME NEW x \in Box, NEW y \in Box, N!MoveConstruct(x, y) PROVE BoxInv'
  <2>1. x # y /\ y \in boxes /\ content[x] = {}
    BY <1>4, BoxFacts, Zenon DEF N!MoveConstruct
  <2> QED BY <1>0, <1>4, <2>1, BoxMoveInv, Zenon DEF N!MoveConstruct
<1>5. ASSUME NEW x \in Box, NEW y \in Box, N!SetAssign(x, y) PROVE BoxInv'
  <2>1. CASE N!Stop("panic")
    BY <2>1, <1>1, Zenon
  <2>2. CASE x = y /\ content[x] = {} /\ content' = N!Transferred(x, y) /\ UNCHANGED <<boxes, cell, lost>>
    <3>1. content' = content
      BY <2>2 DEF N!Transferred, BoxInv
    <3> QED BY <2>2, <3>1, ZenonT(60) DEF BoxInv, N!NodesOwned
  <2>3. CASE x # y /\ content[x] = {} /\ content' = N!Transferred(x, y) /\ UNCHANGED <<boxes, cell, lost>>
    <3>1. x \in boxes /\ y \in boxes
      BY <1>5 DEF N!SetAssign
    <3>2. boxes' = boxes \cup {x}
      BY <2>3, <3>1, Zenon
    <3> QED BY <1>0, <2>3, <3>1, <3>2, BoxMoveInv, Zenon
  <2> QED BY <1>5, <2>1, <2>2, <2>3 DEF N!SetAssign
<1>6. ASSUME NEW x \in Box, NEW y \in Box, N!MapAssign(x, y) PROVE BoxInv'
  <2>1. CASE N!Stop("fault")
    BY <2>1, <1>1, ZenonT(60)
  <2>2. CASE /\ x = y /\ cell' = N!Released(content[x]) /\ content' = [content EXCEPT ![x] = {}]
             /\ UNCHANGED <<boxes, lost>>
    <3>1. /\ cell' \in [Cell -> SetKey \cup {NULL}] /\ content' \in [Box -> SUBSET Cell]
          /\ \A n \in Cell : cell'[n] = IF n \in content[x] THEN NULL ELSE cell[n]
          /\ content'[x] = {} /\ \A z \in Box \ {x} : content'[z] = content[z]
      BY <2>2, Zenon DEF BoxInv, N!Released
    <3>2. \A n \in Cell : cell'[n] # NULL <=> n \in lost \/ \E z \in Box : n \in content'[z]
      BY <3>1, BoxFacts, Zenon
    <3>3. \A z \in Box : \A m, n \in content'[z] : cell'[m] = cell'[n] => m = n
      BY <3>1, BoxFacts, SMTT(60)
    <3>4. /\ \A z \in Box : (z \notin boxes => content'[z] = {}) /\ content'[z] \cap lost = {}
          /\ \A w, z \in Box : w # z => content'[w] \cap content'[z] = {}
      BY <3>1, BoxFacts, SMTT(60)
    <3>5. boxes' \subseteq Box /\ lost' \subseteq Cell /\ lost' = lost /\ boxes' = boxes
      BY <2>2 DEF BoxInv
    <3> QED BY <3>1, <3>2, <3>3, <3>4, <3>5, BoxKept, Zenon
  <2>3. CASE /\ x # y /\ cell' = N!Released(content[x]) /\ content' = N!Transferred(x, y)
             /\ UNCHANGED <<boxes, lost>>
    <3>1. x \in boxes /\ y \in boxes
      BY <1>6 DEF N!MapAssign
    <3>2. boxes' = boxes \cup {x}
      BY <2>3, <3>1
    <3> QED BY <2>3, <3>1, <3>2, BoxMoveInv, Zenon
  <2> QED BY <1>6, <2>1, <2>2, <2>3 DEF N!MapAssign
<1>7. ASSUME NEW x \in Box, NEW k \in SetKey, N!at(x, k) PROVE BoxInv'
  BY <1>1, <1>7 DEF N!at
<1> QED BY <1>2, <1>3, <1>4, <1>5, <1>6, <1>7, BoxInsertInv, BoxEmptyInv, Zenon DEF N!Next

\* Whatever is moved, assigned and cleared, every node of a Set or Map that is
\* allocated belongs to one container that exists, or to none because remove
\* gave it up, and a container has one node for a key (set.hh, map.hh).
THEOREM NodesAreOwned ==
    ASSUME NULL \notin SetKey
    PROVE  N!Spec => []N!NodesOwned
<1>1. N!Init => BoxInv
  BY DEF N!Init, BoxInv, N!NodesOwned
<1>2. BoxInv /\ [N!Next]_N!vars => BoxInv'
  BY BoxStepInv
<1>3. BoxInv => N!NodesOwned
  BY DEF BoxInv
<1> QED BY <1>1, <1>2, <1>3, PTL DEF N!Spec

-----------------------------------------------------------------------------
(* The text screen.                                                        *)

CONSTANTS W, H, Char, Colour, blank, MaxWrites
VARIABLES buffer, offset, colour, writes

V == INSTANCE Vga WITH VGA_TEXTDISP_WIDTH <- W, VGA_TEXTDISP_HEIGHT <- H

\* A screen has lines and columns, both numbers are bytes, tabs fill its lines, its offsets
\* fit the registers of the controller, and no letter is a control character.
ScreenSize == /\ W \in Nat \ {0} /\ H \in Nat \ {0} /\ W < 256 /\ H < 256
              /\ W % 4 = 0 /\ W * H < 65536
              /\ Char \cap {"LF", "HT", "BS", "CR", "BEL"} = {}

\* The lines of a buffer, and the one behind them.
Shown(b) == [r \in 1 .. H |-> [c \in 1 .. W |-> b[(r - 1) * W + c - 1]]]
Behind(b) == [c \in 1 .. W |-> b[H * W + c - 1]]
Offset == 0 .. W * H + W - 1
Value == {blank} \cup (Char \X Colour)

\* The inductive invariant of the screen: the cursor is on it.
ScreenInv == /\ buffer \in [Offset -> Value] /\ colour \in Colour
             /\ offset \in 0 .. W * H - 1

\* Multiplication is monotonic.
LEMMA TimesGrows ==
    ASSUME NEW w \in Nat, NEW a \in Int, NEW b \in Int, a < b
    PROVE  a * w + w <= b * w
<1>1. (b - a - 1) * w >= 0
  <2>1. b - a - 1 \in Nat
    OBVIOUS
  <2> DEFINE d == b - a - 1
  <2> HIDE DEF d
  <2>2. d \in Nat => d * w >= 0
    OBVIOUS
  <2> QED BY <2>1, <2>2 DEF d
<1>2. (b - a - 1) * w = b * w - a * w - w
  OBVIOUS
<1>3. a * w \in Int /\ b * w \in Int
  OBVIOUS
<1> QED BY ONLY <1>1, <1>2, <1>3, SMTT(60)

\* An offset determines its line and column.
LEMMA OffsetUnique ==
    ASSUME NEW w \in Nat, NEW a \in Int, NEW b \in Int, NEW x \in 0 .. w - 1, NEW y \in 0 .. w - 1,
           a * w + x = b * w + y
    PROVE  a = b /\ x = y
<1>1. a * w \in Int /\ b * w \in Int
  OBVIOUS
<1>2. ~(a < b) /\ ~(b < a)
  BY <1>1, TimesGrows, SMTT(60)
<1>3. a = b
  BY ONLY <1>2, SMTT(60)
<1> QED BY <1>1, <1>3, SMTT(60)

\* What the divisions of CURSOR_POS_X and CURSOR_POS_Y compute.
LEMMA Divided ==
    ASSUME NEW w \in Nat \ {0}, NEW o \in Nat
    PROVE  /\ o \div w \in Nat /\ o % w \in 0 .. w - 1
           /\ o = (o \div w) * w + (o % w)
<1>1. o \div w \in Int /\ o % w \in 0 .. w - 1
  OBVIOUS
<1>2. o = w * (o \div w) + (o % w)
  BY SMTT(60)
<1> DEFINE q == o \div w  r == o % w
<1> HIDE DEF q, r
<1>3. o = w * q + r /\ q \in Int /\ r \in 0 .. w - 1
  BY <1>1, <1>2, Zenon DEF q, r
<1>4. w * q = q * w
  BY ONLY <1>3, SMTT(60)
<1>5. ~(q < 0)
  <2> SUFFICES ASSUME q < 0 PROVE FALSE
    BY Zenon
  <2>1. q * w + w <= 0 * w
    BY <1>3, TimesGrows, SMTT(60)
  <2> QED BY ONLY <1>3, <1>4, <2>1, SMTT(60)
<1> QED BY ONLY <1>3, <1>4, <1>5, SMTT(60) DEF q, r

\* They undo vga_setpos.
LEMMA LineColumn ==
    ASSUME NEW w \in Nat \ {0}, NEW a \in Nat, NEW x \in 0 .. w - 1, NEW o \in Nat, o = a * w + x
    PROVE  o \div w = a /\ o % w = x
<1>1. o \div w \in Nat /\ o % w \in 0 .. w - 1 /\ o = (o \div w) * w + (o % w)
  BY Divided, ZenonT(60)
<1> QED BY <1>1, OffsetUnique

\* The offsets of a line are on the screen; those behind it are not.
LEMMA CellAt ==
    ASSUME ScreenSize, NEW r \in 0 .. H, NEW c \in 0 .. W - 1
    PROVE  /\ r * W + c \in Offset /\ r * W \in Nat /\ W * H \in Nat /\ H * W = W * H
           /\ r < H => /\ r * W + c < W * H /\ r * W + W <= W * H
                       /\ (r * W + c) + W = (r + 1) * W + c
           /\ r = H => ~(r * W + c < W * H)
<1>1. W \in Nat \ {0} /\ H \in Nat \ {0}
  BY DEF ScreenSize
<1>2. r * W \in Nat /\ W * H \in Nat /\ H * W = W * H
  BY ONLY <1>1, SMTT(60)
<1>3. (r + 1) * W = r * W + W
  BY ONLY <1>1, SMTT(60)
<1>4. r < H => r * W + W <= H * W
  BY ONLY <1>1, TimesGrows, SMTT(60)
<1>5. r < H \/ r = H
  BY ONLY <1>1, SMTT(60)
<1>6. r = H => r * W = H * W
  BY Zenon
<1> HIDE DEF ScreenSize
<1> QED BY ONLY <1>1, <1>2, <1>3, <1>4, <1>5, <1>6, SMTT(60) DEF Offset

\* Writing a cell changes it in its line.
CellWritten(d, b, y, x, v) == d = [b EXCEPT ![y * W + x] = v]
CellShown(d, b, y, x, v) == Shown(d) = [Shown(b) EXCEPT ![y + 1][x + 1] = v] /\ Behind(d) = Behind(b)
LEMMA PutShown ==
    ASSUME ScreenSize, NEW b \in [Offset -> Value], NEW y \in 0 .. H - 1, NEW x \in 0 .. W - 1, NEW v,
           NEW d, CellWritten(d, b, y, x, v)
    PROVE  CellShown(d, b, y, x, v)
<1>1. W \in Nat \ {0} /\ H \in Nat \ {0}
  BY SMTT(60) DEF ScreenSize
<1> DEFINE o == y * W + x
<1>2. y \in 0 .. H /\ o \in Offset /\ o < W * H
  BY <1>1, CellAt
<1>3. ASSUME NEW r \in 0 .. H, NEW c \in 0 .. W - 1
      PROVE  d[r * W + c] = IF r = y /\ c = x THEN v ELSE b[r * W + c]
  <2>1. r * W + c \in Offset
    BY <1>3, CellAt, Zenon
  <2>2. r * W + c = o => r = y /\ c = x
    BY ONLY <1>1, OffsetUnique, SMTT(60)
  <2>3. d[r * W + c] = IF r * W + c = o THEN v ELSE b[r * W + c]
    BY <2>1, Zenon DEF CellWritten
  <2> QED BY <2>2, <2>3, Zenon
<1> HIDE DEF o
<1>4. Shown(d) = [Shown(b) EXCEPT ![y + 1][x + 1] = v]
  <2>1. ASSUME NEW r \in 1 .. H, NEW c \in 1 .. W
        PROVE  d[(r - 1) * W + c - 1] = IF r = y + 1 /\ c = x + 1 THEN v ELSE b[(r - 1) * W + c - 1]
    <3>1. r - 1 \in 0 .. H /\ c - 1 \in 0 .. W - 1
      BY ONLY <1>1, SMTT(60)
    <3>2. (r - 1) * W + c - 1 = (r - 1) * W + (c - 1)
      BY <1>1
    <3>3. d[(r - 1) * W + (c - 1)] = IF r - 1 = y /\ c - 1 = x THEN v ELSE b[(r - 1) * W + (c - 1)]
      BY <1>3, <3>1, Zenon
    <3> QED BY ONLY <1>1, <3>2, <3>3, SMTT(60)
  <2>2. [Shown(b) EXCEPT ![y + 1][x + 1] = v]
          = [r \in 1 .. H |-> [c \in 1 .. W |-> IF r = y + 1 /\ c = x + 1 THEN v ELSE b[(r - 1) * W + c - 1]]]
    BY <1>1, ZenonT(60) DEF Shown
  <2> DEFINE G(r) == [c \in 1 .. W |-> IF r = y + 1 /\ c = x + 1 THEN v ELSE b[(r - 1) * W + c - 1]]
  <2>3. \A r \in 1 .. H : Shown(d)[r] = G(r)
    BY <2>1, Zenon DEF Shown
  <2>4. Shown(d) = [r \in 1 .. H |-> Shown(d)[r]]
    BY Zenon DEF Shown
  <2> HIDE DEF G
  <2>5. Shown(d) = [r \in 1 .. H |-> G(r)]
    BY <2>3, <2>4, Zenon
  <2> QED BY <2>2, <2>5, Zenon DEF G
<1>5. Behind(d) = Behind(b)
  <2>1. ASSUME NEW c \in 1 .. W PROVE d[H * W + c - 1] = b[H * W + c - 1]
    <3>1. c - 1 \in 0 .. W - 1 /\ H \in 0 .. H /\ H # y /\ H * W + c - 1 = H * W + (c - 1)
      BY ONLY <1>1, SMTT(60)
    <3> QED BY <1>3, <3>1, Zenon
  <2> QED BY <2>1, Zenon DEF Behind
<1> QED BY <1>4, <1>5, Zenon DEF CellShown

\* Scrolling moves every line up, and the line behind the screen in.
LEMMA ScrollShown ==
    ASSUME ScreenSize, NEW b \in [Offset -> Value]
    PROVE  /\ Shown(V!vga_scroll(b)) = Append(Tail(Shown(b)), Behind(b))
           /\ Behind(V!vga_scroll(b)) = Behind(b) /\ V!vga_scroll(b) \in [Offset -> Value]
<1>1. W \in Nat \ {0} /\ H \in Nat \ {0}
  BY DEF ScreenSize
<1> DEFINE d == V!vga_scroll(b)
<1>2. d = [o \in Offset |-> IF o < W * H THEN b[o + W] ELSE b[o]]
  BY Zenon DEF V!vga_scroll, V!Cells
<1> HIDE DEF d
<1>3. ASSUME NEW r \in 0 .. H - 1, NEW c \in 0 .. W - 1 PROVE d[r * W + c] = b[(r + 1) * W + c]
  <2>1. r \in 0 .. H /\ r < H
    BY ONLY <1>1, SMTT(60)
  <2>2. r * W + c \in Offset /\ r * W + c < W * H /\ (r * W + c) + W = (r + 1) * W + c
    BY <2>1, CellAt, Zenon
  <2> QED BY <1>2, <2>2, Zenon
<1>4. ASSUME NEW c \in 0 .. W - 1 PROVE d[H * W + c] = b[H * W + c]
  <2>1. H \in 0 .. H
    BY ONLY <1>1, SMTT(60)
  <2>2. H * W + c \in Offset /\ ~(H * W + c < W * H)
    BY <2>1, CellAt, Zenon
  <2> QED BY <1>2, <2>2, Zenon
<1>5. Behind(d) = Behind(b)
  <2>1. ASSUME NEW c \in 1 .. W PROVE d[H * W + c - 1] = b[H * W + c - 1]
    <3>1. c - 1 \in 0 .. W - 1 /\ H * W + c - 1 = H * W + (c - 1)
      BY ONLY <1>1, SMTT(60)
    <3> QED BY <1>4, <3>1, Zenon
  <2> QED BY <2>1, Zenon DEF Behind
<1>6. ASSUME NEW r \in 1 .. H
      PROVE  Shown(d)[r] = IF r < H THEN Shown(b)[r + 1] ELSE Behind(b)
  <2>1. ASSUME NEW c \in 1 .. W PROVE d[(r - 1) * W + c - 1] = b[r * W + c - 1]
    <3>1. /\ r - 1 \in 0 .. H - 1 /\ c - 1 \in 0 .. W - 1 /\ (r - 1) + 1 = r
          /\ (r - 1) * W + c - 1 = (r - 1) * W + (c - 1) /\ r * W + c - 1 = r * W + (c - 1)
      BY ONLY <1>1, SMTT(60)
    <3>2. d[(r - 1) * W + (c - 1)] = b[((r - 1) + 1) * W + (c - 1)]
      BY <1>3, <3>1, Zenon
    <3> QED BY <3>1, <3>2, Zenon
  <2>2. Shown(d)[r] = [c \in 1 .. W |-> b[r * W + c - 1]]
    BY <2>1, Zenon DEF Shown
  <2>3. r < H => Shown(b)[r + 1] = [c \in 1 .. W |-> b[r * W + c - 1]]
    BY ONLY <1>1, SMTT(60) DEF Shown
  <2>4. ~(r < H) => r = H
    BY ONLY <1>1, SMTT(60)
  <2> QED BY <2>2, <2>3, <2>4, ZenonT(60) DEF Behind
<1>7. Shown(d) = Append(Tail(Shown(b)), Behind(b))
  <2> DEFINE S == Shown(b)  L == Shown(d)  f == Behind(b)  Any == {S[i] : i \in 1 .. H} \cup {f}
  <2>1. S = [i \in 1 .. H |-> S[i]] /\ L = [i \in 1 .. H |-> L[i]]
    BY DEF Shown
  <2> HIDE DEF S, L, f
  <2>2. S \in Seq(Any) /\ Len(S) = H /\ S # << >>
    <3>1. S \in [1 .. H -> Any]
      BY <2>1, Zenon
    <3> HIDE DEF Any
    <3> QED BY ONLY <1>1, <3>1, SMTT(60)
  <2>3. /\ Tail(S) \in Seq(Any) /\ Len(Tail(S)) = H - 1 /\ \A i \in 1 .. H - 1 : Tail(S)[i] = S[i + 1]
    BY ONLY <1>1, <2>2, SMTT(60)
  <2>4. Append(Tail(S), f) = [i \in 1 .. H |-> IF i < H THEN S[i + 1] ELSE f]
    <3> DEFINE s == Tail(S)
    <3> HIDE DEF s
    <3>1. s \in Seq(Any) /\ Len(s) = H - 1 /\ f \in Any
      BY <2>3, Zenon DEF s
    <3> HIDE DEF Any
    <3>2. /\ Append(s, f) \in Seq(Any) /\ Len(Append(s, f)) = H
          /\ \A i \in 1 .. H : Append(s, f)[i] = IF i < H THEN s[i] ELSE f
      BY ONLY <1>1, <3>1, SMTT(60)
    <3>3. \A i \in 1 .. H : Append(s, f)[i] = IF i < H THEN S[i + 1] ELSE f
      BY ONLY <1>1, <2>3, <3>2, SMTT(60) DEF s
    <3>4. Append(s, f) = [i \in 1 .. H |-> Append(s, f)[i]]
      <4> DEFINE a == Append(s, f)
      <4> HIDE DEF a
      <4>1. a \in Seq(Any) /\ Len(a) = H
        BY <3>2, Zenon DEF a
      <4>2. a = [i \in 1 .. H |-> a[i]]
        BY ONLY <4>1, SMTT(60)
      <4> QED BY <4>2, ZenonT(60) DEF a
    <3> QED BY <3>3, <3>4, ZenonT(60) DEF s
  <2>5. \A r \in 1 .. H : L[r] = IF r < H THEN S[r + 1] ELSE f
    BY <1>6 DEF S, L, f
  <2>6. L = Append(Tail(S), f)
    BY <2>1, <2>4, <2>5, ZenonT(60)
  <2> QED BY <2>6, Zenon DEF S, L, f
<1>8. d \in [Offset -> Value]
  <2>1. ASSUME NEW o \in Offset, o < W * H PROVE o + W \in Offset
    BY ONLY <1>1, <2>1, SMTT(60) DEF Offset
  <2> QED BY <1>2, <2>1, Zenon
<1> QED BY <1>5, <1>7, <1>8, Zenon DEF d

\* The cursor on the screen, as line and column.
LEMMA Cursor ==
    ASSUME ScreenSize, ScreenInv
    PROVE  /\ V!X \in 0 .. W - 1 /\ V!Y \in 0 .. H - 1 /\ offset = V!Y * W + V!X
<1>1. W \in Nat \ {0} /\ H \in Nat \ {0} /\ W * H \in Nat /\ offset \in Nat /\ offset < W * H
  BY DEF ScreenSize, ScreenInv
<1>2. V!X = offset % W /\ V!Y = offset \div W
  BY DEF V!X, V!Y, V!CURSOR_POS_X, V!CURSOR_POS_Y
<1>3. V!X \in 0 .. W - 1 /\ V!Y \in Nat /\ offset = V!Y * W + V!X
  BY <1>1, <1>2, Divided, ZenonT(60)
<1>4. V!Y < H
  <2> SUFFICES ASSUME ~(V!Y < H) PROVE FALSE
    BY Zenon
  <2> DEFINE y == V!Y
  <2>1. y = H \/ H < y
    BY <1>1, <1>3, SMTT(60)
  <2>2. H * W <= y * W
    <3>1. H < y => H * W + W <= y * W
      BY ONLY <1>1, <1>3, TimesGrows, SMTT(60)
    <3>2. H * W \in Int /\ y * W \in Int
      BY ONLY <1>1, <1>3, SMTT(60)
    <3> QED BY ONLY <1>1, <2>1, <3>1, <3>2, SMTT(60)
  <2>3. H * W = W * H
    BY ONLY <1>1, SMTT(60)
  <2> HIDE DEF y
  <2>4. y * W \in Int /\ offset >= y * W
    BY ONLY <1>1, <1>3, SMTT(60) DEF y
  <2> QED BY ONLY <1>1, <2>2, <2>3, <2>4, SMTT(60)
<1> QED BY ONLY <1>1, <1>3, <1>4, SMTT(60)

\* A number of 16 bits is not cut off.
LEMMA Fits == ASSUME NEW o \in Nat, o < 65536 PROVE o % 65536 = o
BY SMTT(60)

\* Neither are a line and a column, the ones behind the last included.
LEMMA CellFits ==
    ASSUME ScreenSize, NEW y \in 0 .. H, NEW x \in 0 .. W
    PROVE  V!Cell(x, y) = y * W + x
<1>1. x \in 0 .. 255 /\ y \in 0 .. 255
  BY SMTT(60) DEF ScreenSize
<1>2. x % 256 = x /\ y % 256 = y
  BY ONLY <1>1, x \in Int, y \in Int, SMTT(60)
<1> QED BY <1>2, Zenon DEF V!Cell

\* vga_setpos on the screen or behind its last cell loses no bit, and the
\* column and the line can be read back.
LEMMA SetPos ==
    ASSUME ScreenSize, NEW y \in 0 .. H, NEW x \in 0 .. W - 1, y * W + x <= W * H
    PROVE  /\ V!vga_setpos(x, y) = y * W + x
           /\ V!CURSOR_POS_X(V!vga_setpos(x, y)) = x /\ V!CURSOR_POS_Y(V!vga_setpos(x, y)) = y
<1>1. W \in Nat \ {0} /\ W * H \in Nat /\ W * H < 65536 /\ y * W + x \in Nat /\ y \in Nat
  BY DEF ScreenSize
<1> DEFINE o == y * W + x  m == W * H
<1>2. m \in Nat /\ m < 65536 /\ o \in Nat /\ o <= m
  BY <1>1, SMTT(60)
<1>3. o \div W = y /\ o % W = x
  <2>1. o = y * W + x /\ o \in Nat
    BY ONLY <1>1, SMTT(60)
  <2>2. W \in Nat \ {0} /\ y \in Nat /\ x \in 0 .. W - 1
    BY ONLY <1>1, SMTT(60)
  <2> HIDE DEF o, m
  <2> QED BY ONLY <2>1, <2>2, LineColumn, SMTT(60)
<1>4. V!vga_setpos(x, y) = o % 65536
  <2>1. x \in 0 .. W
    BY <1>1, SMTT(60)
  <2> QED BY <2>1, CellFits, SMTT(60) DEF V!vga_setpos
<1> HIDE DEF o, m
<1>5. o \in Nat /\ o < 65536
  BY ONLY <1>2, SMTT(60)
<1>6. o % 65536 = o
  BY ONLY <1>5, Fits, SMTT(60)
<1>7. V!CURSOR_POS_X(o) = x /\ V!CURSOR_POS_Y(o) = y
  BY <1>3 DEF V!CURSOR_POS_X, V!CURSOR_POS_Y
<1> QED BY ONLY <1>4, <1>6, <1>7, SMTT(60) DEF o

\* What Right of Terminal says of the column cx and the lines of b.
MovesRight(b, cx) ==
    IF cx < W THEN V!X' = cx /\ V!Y' = V!Y /\ Shown(buffer') = Shown(b)
    ELSE /\ V!X' = cx - W
         /\ IF V!Y + 1 < H THEN V!Y' = V!Y + 1 /\ Shown(buffer') = Shown(b)
            ELSE V!Y' = V!Y /\ Shown(buffer') = Append(Tail(Shown(b)), Behind(b))

\* The end of vga_putcchar: a cursor that leaves a line goes to the next one,
\* and one that leaves the screen scrolls it.
LEMMA SettleMoves ==
    ASSUME ScreenSize, ScreenInv, NEW b \in [Offset -> Value], NEW cx \in 0 .. W,
           V!Settle(b, V!vga_setpos(cx, V!Y))
    PROVE  /\ buffer' \in [Offset -> Value] /\ offset' \in 0 .. W * H - 1
           /\ Behind(buffer') = Behind(b) /\ MovesRight(b, cx)
<1> DEFINE y == V!Y
<1>1. W \in Nat \ {0} /\ H \in Nat \ {0} /\ y \in 0 .. H - 1
  BY Cursor DEF ScreenSize
<1>2. V!X' = V!CURSOR_POS_X(offset') /\ V!Y' = V!CURSOR_POS_Y(offset')
  BY Zenon DEF V!X, V!Y, V!CURSOR_POS_X, V!CURSOR_POS_Y
<1>3. ASSUME NEW o, V!Settle(b, o), V!CURSOR_POS_Y(o) # H PROVE buffer' = b /\ offset' = o
  BY <1>3, Zenon DEF V!Settle
<1>4. ASSUME NEW o, V!Settle(b, o), V!CURSOR_POS_Y(o) = H
      PROVE  buffer' = V!vga_scroll(b) /\ offset' = V!vga_setpos(V!CURSOR_POS_X(o), H - 1)
  BY <1>4, Zenon DEF V!Settle
<1>5. V!Settle(b, V!vga_setpos(cx, y))
  BY Zenon
<1> HIDE DEF y
<1>6. ASSUME NEW r \in 0 .. H - 1, NEW c \in 0 .. W - 1
      PROVE  /\ V!vga_setpos(c, r) \in 0 .. W * H - 1
             /\ V!CURSOR_POS_X(V!vga_setpos(c, r)) = c /\ V!CURSOR_POS_Y(V!vga_setpos(c, r)) = r
  <2>1. r \in 0 .. H /\ r < H
    BY ONLY <1>1, SMTT(60)
  <2>2. r * W + c < W * H /\ W * H \in Nat /\ r * W \in Nat
    BY <2>1, CellAt, Zenon
  <2>3. r * W + c <= W * H
    BY ONLY <1>1, <2>2, SMTT(60)
  <2>4. /\ V!vga_setpos(c, r) = r * W + c
        /\ V!CURSOR_POS_X(V!vga_setpos(c, r)) = c /\ V!CURSOR_POS_Y(V!vga_setpos(c, r)) = r
    BY <2>1, <2>3, SetPos, Zenon
  <2>5. r * W + c \in 0 .. W * H - 1
    BY ONLY <1>1, <2>2, SMTT(60)
  <2> QED BY <2>4, <2>5, Zenon
<1>7. CASE cx < W
  <2> DEFINE o == V!vga_setpos(cx, y)
  <2>1. cx \in 0 .. W - 1
    BY ONLY <1>1, <1>7, SMTT(60)
  <2>2. o \in 0 .. W * H - 1 /\ V!CURSOR_POS_X(o) = cx /\ V!CURSOR_POS_Y(o) = y
    BY <1>1, <1>6, <2>1, Zenon
  <2>3. y # H
    BY ONLY <1>1, SMTT(60)
  <2>4. buffer' = b /\ offset' = o
    BY <1>3, <1>5, <2>2, <2>3, ZenonT(60)
  <2> HIDE DEF o
  <2> QED BY <1>2, <1>7, <2>2, <2>4, ZenonT(60) DEF MovesRight, y
<1>8. CASE ~(cx < W)
  <2>1. cx = W /\ cx - W = 0 /\ 0 \in 0 .. W - 1 /\ y + 1 \in 0 .. H /\ y \in 0 .. H /\ y < H
    BY ONLY <1>1, <1>8, SMTT(60)
  <2>2. y * W + W <= W * H /\ y * W \in Nat /\ W * H \in Nat
    BY <2>1, CellAt, Zenon
  <2>3. (y + 1) * W + 0 = y * W + cx
    BY ONLY <1>1, <2>1, SMTT(60)
  <2> DEFINE o == V!vga_setpos(0, y + 1)
  <2>4. V!vga_setpos(cx, y) = o
    <3>1. 0 \in 0 .. W /\ cx \in 0 .. W
      BY ONLY <1>1, <2>1, SMTT(60)
    <3>2. V!Cell(cx, y) = y * W + cx /\ V!Cell(0, y + 1) = (y + 1) * W + 0
      BY <2>1, <3>1, CellFits, Zenon
    <3> QED BY ONLY <2>3, <3>2, SMTT(60) DEF V!vga_setpos
  <2>5. (y + 1) * W + 0 <= W * H
    BY <2>1, <2>2, <2>3, ZenonT(60)
  <2>6. V!CURSOR_POS_X(o) = 0 /\ V!CURSOR_POS_Y(o) = y + 1 /\ o = (y + 1) * W + 0
    BY <2>1, <2>5, SetPos, SMTT(60)
  <2> HIDE DEF o
  <2>7. V!Settle(b, o)
    BY <1>5, <2>4, Zenon
  <2>8. CASE y + 1 < H
    <3>1. y + 1 \in 0 .. H - 1 /\ y + 1 # H
      BY ONLY <1>1, <2>8, SMTT(60)
    <3>2. buffer' = b /\ offset' = o
      BY <1>3, <2>6, <2>7, <3>1, Zenon
    <3>3. o \in 0 .. W * H - 1
      BY <1>6, <2>1, <3>1, Zenon DEF o
    <3> QED BY <1>2, <1>8, <2>1, <2>6, <2>8, <3>2, <3>3, ZenonT(60) DEF MovesRight, y
  <2>9. CASE ~(y + 1 < H)
    <3>1. y + 1 = H /\ H - 1 = y
      BY ONLY <1>1, <2>9, SMTT(60)
    <3>2. buffer' = V!vga_scroll(b) /\ offset' = V!vga_setpos(0, y)
      BY <1>4, <2>6, <2>7, <3>1, Zenon
    <3>3. offset' \in 0 .. W * H - 1 /\ V!CURSOR_POS_X(offset') = 0 /\ V!CURSOR_POS_Y(offset') = y
      BY <1>1, <1>6, <2>1, <3>2, Zenon
    <3>4. /\ Shown(buffer') = Append(Tail(Shown(b)), Behind(b)) /\ Behind(buffer') = Behind(b)
          /\ buffer' \in [Offset -> Value]
      BY <3>2, ScrollShown, Zenon
    <3> QED BY <1>2, <1>8, <2>1, <2>9, <3>3, <3>4, ZenonT(60) DEF MovesRight, y
  <2> QED BY <2>8, <2>9, Zenon
<1> QED BY <1>7, <1>8, Zenon

\* The variables of Terminal, as Vga maps them.
LEMMA Mapped ==
    /\ [r \in 1 .. H |-> V!Line(r - 1)] = Shown(buffer) /\ V!Line(H) = Behind(buffer)
    /\ [r \in 1 .. H |-> V!Line(r - 1)]' = Shown(buffer') /\ V!Line(H)' = Behind(buffer')
BY Zenon DEF V!Line, Shown, Behind

\* A step right on the screen is one of the terminal.
LEMMA RightImplements ==
    ASSUME NEW b, NEW cx, MovesRight(b, cx), Behind(b) = Behind(buffer)
    PROVE  V!T!Right(Shown(b), cx)
BY Mapped, ZenonT(60) DEF MovesRight, V!T!Right, V!T!Below

\* Every character is a step of the terminal, or leaves it alone.
LEMMA PutImplements ==
    ASSUME ScreenSize, ScreenInv, NEW c \in Char \cup {"LF", "HT", "BS", "CR", "BEL"}, V!vga_putcchar(c)
    PROVE  ScreenInv' /\ [V!T!Next]_V!T!vars
<1> DEFINE x == V!X  y == V!Y
<1>1. W \in Nat \ {0} /\ H \in Nat \ {0} /\ x \in 0 .. W - 1 /\ y \in 0 .. H - 1 /\ offset = y * W + x
  BY Cursor DEF ScreenSize
<1>2. buffer \in [Offset -> Value] /\ colour \in Colour /\ colour' = colour
  BY Zenon DEF ScreenInv, V!vga_putcchar
<1>3. ASSUME NEW b \in [Offset -> Value], NEW cx \in 0 .. W, V!Settle(b, V!vga_setpos(cx, y)),
             Behind(b) = Behind(buffer)
      PROVE  /\ ScreenInv' /\ V!T!Right(Shown(b), cx) /\ MovesRight(b, cx)
             /\ Behind(buffer') = Behind(buffer)
  BY <1>2, <1>3, SettleMoves, RightImplements, Zenon DEF ScreenInv
<1>4. CASE c = "LF"
  <2>1. (y + 1) * W + 0 = y * W + W /\ W \in 0 .. W
    BY <1>1
  <2>2. V!Settle(buffer, V!vga_setpos(W, y))
    <3>1. 0 \in 0 .. W /\ y \in 0 .. H /\ y + 1 \in 0 .. H
      BY ONLY <1>1, SMTT(60)
    <3>2. V!Cell(W, y) = y * W + W /\ V!Cell(0, y + 1) = (y + 1) * W + 0
      BY <2>1, <3>1, CellFits, Zenon
    <3>3. V!vga_setpos(W, y) = V!vga_setpos(0, y + 1)
      BY ONLY <2>1, <3>2, SMTT(60) DEF V!vga_setpos
    <3> QED BY <1>4, <3>3, Zenon DEF V!vga_putcchar
  <2>3. ScreenInv' /\ V!T!Right(Shown(buffer), W) /\ Behind(buffer') = Behind(buffer)
    BY <1>2, <1>3, <2>1, <2>2, ZenonT(60)
  <2>4. V!T!Below(Shown(buffer), 0)
    <3>1. ~(W < W) /\ W - W = 0
      BY ONLY <1>1, SMTT(60)
    <3> QED BY ONLY <2>3, <3>1, SMTT(60) DEF V!T!Right
  <2>5. V!T!Next
    BY <2>3, <2>4, Mapped, ZenonT(60) DEF V!T!Next, V!T!NewLine
  <2> QED BY <2>3, <2>5, Zenon
<1>5. CASE c = "HT"
  <2> DEFINE cx == x + 4 - (x % 4)
  <2>1. cx \in 0 .. W
    <3>1. W % 4 = 0
      BY SMTT(60) DEF ScreenSize
    <3> HIDE DEF x
    <3> QED BY ONLY <1>1, <3>1, SMTT(60)
  <2>2. (IF x % 4 # 0 THEN x + (4 - (x % 4)) ELSE x + 4) = cx
    BY <1>1
  <2>3. V!Settle(buffer, V!vga_setpos(cx, y))
    BY <1>5, <2>2, Zenon DEF V!vga_putcchar
  <2> HIDE DEF cx
  <2>4. ScreenInv' /\ V!T!Right(Shown(buffer), cx) /\ Behind(buffer') = Behind(buffer)
    BY <1>2, <1>3, <2>1, <2>3, Zenon
  <2>5. V!T!Next
    BY <2>4, Mapped, ZenonT(60) DEF V!T!Next, V!T!Tab, cx
  <2> QED BY ONLY <2>4, <2>5, SMTT(60)
<1>6. ASSUME NEW cx \in 0 .. W - 1, V!Settle(buffer, V!vga_setpos(cx, y))
      PROVE  /\ ScreenInv' /\ Behind(buffer') = Behind(buffer)
             /\ V!X' = cx /\ V!Y' = V!Y /\ Shown(buffer') = Shown(buffer)
  <2>1. cx \in 0 .. W /\ cx < W
    BY ONLY <1>1, SMTT(60)
  <2> QED BY ONLY <1>2, <1>3, <1>6, <2>1, SMTT(60) DEF MovesRight
<1>7. V!vga_setpos(x, y) = offset
  <2>1. y \in 0 .. H /\ y < H
    BY ONLY <1>1, SMTT(60)
  <2>2. y * W + x < W * H /\ y * W \in Nat /\ W * H \in Nat
    BY <1>1, <2>1, CellAt, Zenon
  <2>3. y * W + x <= W * H
    BY ONLY <1>1, <2>2, SMTT(60)
  <2> QED BY <1>1, <2>1, <2>3, SetPos, ZenonT(60)
<1>8. CASE c = "BS"
  <2>1. CASE x # 0
    <3>1. x - 1 \in 0 .. W - 1 /\ x > 0
      BY ONLY <1>1, <2>1, SMTT(60)
    <3>2. V!Settle(buffer, V!vga_setpos(x - 1, y))
      BY <1>8, <2>1, Zenon DEF V!vga_putcchar
    <3>3. /\ ScreenInv' /\ Behind(buffer') = Behind(buffer)
          /\ V!X' = x - 1 /\ V!Y' = V!Y /\ Shown(buffer') = Shown(buffer)
      BY <1>6, <3>1, <3>2, Zenon
    <3>4. V!T!Next
      BY <3>1, <3>3, Mapped, ZenonT(60) DEF V!T!Next, V!T!Back
    <3> QED BY <3>3, <3>4, Zenon
  <2>2. CASE x = 0
    <3>1. V!Settle(buffer, V!vga_setpos(x, y))
      BY <1>7, <1>8, <2>2, ZenonT(60) DEF V!vga_putcchar
    <3>2. /\ ScreenInv' /\ Behind(buffer') = Behind(buffer)
          /\ V!X' = x /\ V!Y' = V!Y /\ Shown(buffer') = Shown(buffer)
      BY ONLY <1>1, <1>6, <3>1, SMTT(60)
    <3> QED BY <3>2, Mapped DEF V!T!vars
  <2> QED BY <2>1, <2>2, Zenon
<1>9. CASE c = "CR"
  <2>1. V!Settle(buffer, V!vga_setpos(0, y)) /\ 0 \in 0 .. W - 1
    BY <1>1, <1>9, SMTT(60) DEF V!vga_putcchar
  <2>2. /\ ScreenInv' /\ Behind(buffer') = Behind(buffer)
        /\ V!X' = 0 /\ V!Y' = V!Y /\ Shown(buffer') = Shown(buffer)
    BY <1>6, <2>1, ZenonT(60)
  <2>3. V!T!Next
    BY ONLY <2>2, Mapped, SMTT(60) DEF V!T!Next, V!T!Return
  <2> QED BY ONLY <2>2, <2>3, SMTT(60)
<1>10. CASE c = "BEL"
  <2>1. V!Settle(buffer, V!vga_setpos(x, y))
    BY <1>7, <1>10, ZenonT(60) DEF V!vga_putcchar
  <2>2. /\ ScreenInv' /\ Behind(buffer') = Behind(buffer)
        /\ V!X' = x /\ V!Y' = V!Y /\ Shown(buffer') = Shown(buffer)
    BY <1>1, <1>6, <2>1
  <2> QED BY <2>2, Mapped DEF V!T!vars
<1>11. CASE c \notin {"LF", "HT", "BS", "CR", "BEL"}
  <2> DEFINE v == <<c, colour>>  b == [buffer EXCEPT ![y * W + x] = v]
  <2>1. c \in Char /\ v \in Char \X Colour /\ v \in Value
    BY ONLY <1>2, <1>11, SMTT(60) DEF Value
  <2>2. V!Settle(b, V!vga_setpos(x + 1, y))
    <3>1. x \in 0 .. W /\ y \in 0 .. H
      BY ONLY <1>1, SMTT(60)
    <3>2. V!Cell(x, y) = y * W + x
      BY <3>1, CellFits, Zenon
    <3>3. V!vga_chwrite(c, x, y) = b
      BY <3>2, Zenon DEF V!vga_chwrite
    <3> QED BY <1>11, <3>3 DEF V!vga_putcchar
  <2>3. b \in [Offset -> Value]
    BY <1>2, <2>1, ZenonT(60)
  <2>4. Shown(b) = [Shown(buffer) EXCEPT ![y + 1][x + 1] = v] /\ Behind(b) = Behind(buffer)
    <3>1. CellWritten(b, buffer, y, x, v)
      BY DEF CellWritten
    <3>2. y \in 0 .. H - 1 /\ x \in 0 .. W - 1 /\ buffer \in [Offset -> Value]
      BY <1>1, <1>2, Zenon
    <3> HIDE DEF b, x, y, v
    <3>3. CellShown(b, buffer, y, x, v)
      BY ONLY ScreenSize, <3>1, <3>2, PutShown, SMTT(60)
    <3> QED BY ONLY <3>3, Zenon DEF CellShown
  <2>5. x + 1 \in 0 .. W
    BY ONLY <1>1, SMTT(60)
  <2> HIDE DEF b, v
  <2>6. ScreenInv' /\ V!T!Right(Shown(b), x + 1) /\ Behind(buffer') = Behind(buffer)
    BY <1>3, <2>2, <2>3, <2>4, <2>5, ZenonT(60)
  <2>7. V!T!Put(v)
    BY <2>4, <2>6, Mapped, ZenonT(60) DEF V!T!Put
  <2>8. V!T!Next
    BY ONLY <2>1, <2>6, <2>7, Mapped, SMTT(60) DEF V!T!Next
  <2> QED BY ONLY <2>6, <2>8, SMTT(60)
<1> QED BY <1>4, <1>5, <1>8, <1>9, <1>10, <1>11, ZenonT(60)

\* The screen implements the terminal: what vga.cc does with linear offsets and
\* block copies is what lines and columns promise, for every size of screen that
\* the 16 bits of the cursor registers can address.
THEOREM ScreenIsTerminal ==
    ASSUME ScreenSize
    PROVE  V!Spec => V!ImplementsTerminal
<1>0. W \in Nat \ {0} /\ H \in Nat \ {0} /\ W * H \in Nat /\ W * H # 0 /\ 0 \in 0 .. W - 1 /\ 0 \in 0 .. H - 1
  BY SMTT(60) DEF ScreenSize
<1>1. 0 % W = 0 /\ 0 \div W = 0
  <2>1. 0 = 0 * W + 0 /\ 0 \in Nat
    BY ONLY <1>0, SMTT(60)
  <2> QED BY ONLY <1>0, <2>1, LineColumn, SMTT(60)
<1>2. ASSUME NEW b \in [Offset -> Value], \A o \in Offset : o < W * H => b[o] = blank
      PROVE  Shown(b) = [r \in 1 .. H |-> [c \in 1 .. W |-> blank]] /\ Behind(b) \in [1 .. W -> Value]
  <2>1. ASSUME NEW r \in 1 .. H, NEW c \in 1 .. W PROVE b[(r - 1) * W + c - 1] = blank
    <3>1. r - 1 \in 0 .. H /\ r - 1 < H /\ c - 1 \in 0 .. W - 1 /\ (r - 1) * W + c - 1 = (r - 1) * W + (c - 1)
      BY ONLY <1>0, SMTT(60)
    <3>2. (r - 1) * W + (c - 1) \in Offset /\ (r - 1) * W + (c - 1) < W * H
      BY <3>1, CellAt, Zenon
    <3> QED BY <1>2, <3>1, <3>2, Zenon
  <2>2. ASSUME NEW c \in 1 .. W PROVE b[H * W + c - 1] \in Value
    <3>1. H \in 0 .. H /\ c - 1 \in 0 .. W - 1 /\ H * W + c - 1 = H * W + (c - 1)
      BY ONLY <1>0, SMTT(60)
    <3>2. H * W + (c - 1) \in Offset
      BY <3>1, CellAt, Zenon
    <3> QED BY <3>1, <3>2, Zenon
  <2> QED BY <2>1, <2>2, Zenon DEF Shown, Behind
<1>3. V!Init => ScreenInv /\ V!T!Init
  <2> SUFFICES ASSUME V!Init PROVE ScreenInv /\ V!T!Init
    BY SMTT(60)
  <2>1. buffer \in [Offset -> Value] /\ \A o \in Offset : o < W * H => buffer[o] = blank
    BY SMTT(60) DEF V!Init, V!Cells, Offset, Value
  <2>2. V!X = 0 /\ V!Y = 0 /\ offset \in 0 .. W * H - 1 /\ colour \in Colour
    BY <1>0, <1>1 DEF V!Init, V!X, V!Y, V!CURSOR_POS_X, V!CURSOR_POS_Y
  <2>3. ScreenInv
    BY <2>1, <2>2, Zenon DEF ScreenInv
  <2>4. Shown(buffer) = [r \in 1 .. H |-> [c \in 1 .. W |-> blank]] /\ Behind(buffer) \in [1 .. W -> Value]
    BY <1>2, <2>1, Zenon
  <2> QED BY <2>2, <2>3, <2>4, Mapped, ZenonT(60) DEF V!T!Init, Value
<1>4. ScreenInv /\ [V!Next]_V!vars => ScreenInv' /\ [V!T!Next]_V!T!vars
  <2> SUFFICES ASSUME ScreenInv, [V!Next]_V!vars PROVE ScreenInv' /\ [V!T!Next]_V!T!vars
    BY Zenon
  <2>1. ASSUME UNCHANGED <<buffer, offset>>, colour' \in Colour PROVE ScreenInv' /\ [V!T!Next]_V!T!vars
    BY <2>1, Zenon DEF ScreenInv, V!T!vars, V!X, V!Y, V!CURSOR_POS_X, V!CURSOR_POS_Y, V!Line
  <2>2. CASE UNCHANGED V!vars
    BY <2>1, <2>2, SMTT(60) DEF V!vars, ScreenInv
  <2>3. ASSUME NEW c \in Colour, V!vga_setcolor(c) PROVE ScreenInv' /\ [V!T!Next]_V!T!vars
    BY <2>1, <2>3 DEF V!vga_setcolor
  <2>4. CASE V!vga_clear
    <3>1. /\ buffer' \in [Offset -> Value] /\ offset' = 0 /\ colour' = colour
          /\ \A o \in Offset : buffer'[o] = IF o < W * H THEN blank ELSE buffer[o]
      BY <2>4, Zenon DEF V!vga_clear, ScreenInv, V!Cells, Value
    <3>2. Shown(buffer') = [r \in 1 .. H |-> [c \in 1 .. W |-> blank]]
      BY <1>2, <3>1, Zenon
    <3>3. Behind(buffer') = Behind(buffer)
      <4>1. ASSUME NEW c \in 1 .. W PROVE buffer'[H * W + c - 1] = buffer[H * W + c - 1]
        <5>1. H \in 0 .. H /\ c - 1 \in 0 .. W - 1 /\ H * W + c - 1 = H * W + (c - 1)
          BY ONLY <1>0, SMTT(60)
        <5>2. H * W + (c - 1) \in Offset /\ ~(H * W + (c - 1) < W * H)
          BY <5>1, CellAt, Zenon
        <5> QED BY <3>1, <5>1, <5>2, Zenon
      <4> QED BY <4>1, Zenon DEF Behind
    <3>4. V!X' = 0 /\ V!Y' = 0
      BY <1>1, <3>1, Zenon DEF V!X, V!Y, V!CURSOR_POS_X, V!CURSOR_POS_Y
    <3>5. ScreenInv'
      BY <1>0, <3>1, SMTT(60) DEF ScreenInv
    <3>6. V!T!Next
      BY <3>2, <3>3, <3>4, Mapped, ZenonT(60) DEF V!T!Next, V!T!Clear
    <3> QED BY <3>5, <3>6, Zenon
  <2> QED BY <2>2, <2>3, <2>4, PutImplements, Zenon DEF V!Next
<1> QED BY <1>3, <1>4, PTL DEF V!Spec, V!ImplementsTerminal, V!T!Spec
=============================================================================
