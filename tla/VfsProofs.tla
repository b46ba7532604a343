----------------------------- MODULE VfsProofs ------------------------------
(***************************************************************************)
(* Proofs that the reference counts of the file nodes are exact, so that   *)
(* no node is ever destroyed, that the archive is mounted as it is laid    *)
(* out, and that descriptors are stable, for every archive and any number  *)
(* of processes.  VfsCallProofs has the invariant and the walk of a path,  *)
(* VfsProcProofs the system calls and the start of the boot; the entries   *)
(* of the archive and the theorems are here.                               *)
(***************************************************************************)
EXTENDS VfsProcProofs, FiniteSetTheorems

\* What the proofs of the calls assume of finite sets.
LEMMA Finiteness == FiniteSetFacts
<1>1. \A S : IsFiniteSet(S) => Cardinality(S) \in Nat /\ (Cardinality(S) = 0 <=> S = {})
  BY FS_CardinalityType, FS_EmptySet, Zenon
<1>2. \A S : IsFiniteSet(S) => \A T \in SUBSET S : IsFiniteSet(T)
  BY FS_Subset
<1>3. \A S, x : IsFiniteSet(S) => /\ IsFiniteSet(S \cup {x})
                                  /\ x \notin S => Cardinality(S \cup {x}) = Cardinality(S) + 1
  BY FS_AddElement
<1>4. \A n \in Nat : IsFiniteSet(1 .. n)
  BY FS_Interval
<1> QED BY <1>1, <1>2, <1>3, <1>4, Zenon DEF FiniteSetFacts

-----------------------------------------------------------------------------
(* The tree.                                                               *)

\* The links of the tree: every node but the root is in one directory, once.
LEMMA LinksOnce ==
    ASSUME Typed, Tree, NEW n \in Node
    PROVE  Cardinality({h \in {<<"dir", d, x>> : d \in Node, x \in UNION {DOMAIN fnodes[d].subnodes : d \in Node}} :
                           h[3] \in DOMAIN fnodes[h[2]].subnodes /\ fnodes[h[2]].subnodes[h[3]] = n})
              = (1 - Is(n, ROOT))
<1> DEFINE X == UNION {DOMAIN fnodes[d].subnodes : d \in Node}
           L == {h \in {<<"dir", d, x>> : d \in Node, x \in X} :
                   h[3] \in DOMAIN fnodes[h[2]].subnodes /\ fnodes[h[2]].subnodes[h[3]] = n}
<1> SUFFICES Cardinality(L) = (1 - Is(n, ROOT))
  OBVIOUS
<1>0. Len(fnodes) \in Nat /\ \A m : m \in Node <=> m \in Int /\ 1 <= m /\ m <= Len(fnodes)
  BY NodeNumbers, Zenon
<1>1. \A h \in L : \E d \in Node, x \in X : h = <<"dir", d, x>> /\ x \in DOMAIN fnodes[d].subnodes
                                             /\ fnodes[d].subnodes[x] = n
  OBVIOUS
<1>2. \A d \in Node : \A x \in DOMAIN fnodes[d].subnodes :
          fnodes[d].subnodes[x] = n => <<"dir", d, x>> \in L
  OBVIOUS
<1> HIDE DEF L, X
<1>3. \A d \in Node : d \notin {ROOT, CAR} => DOMAIN fnodes[d].subnodes = {}
  <2>1. \A d \in Files : fnodes[d].subnodes = << >>
    BY DEF Tree, FileNode
  <2>2. DOMAIN << >> = {}
    OBVIOUS
  <2> QED BY <2>1, <2>2, Zenon DEF Files
<1>4. CASE CAR \notin Node
  <2>1. Node = {ROOT} /\ Len(fnodes) = 1
    <3>1. Len(fnodes) = 1
      <4>1. Len(fnodes) \in Nat /\ n \in Int /\ 1 <= n /\ n <= Len(fnodes)
        BY <1>0, Zenon
      <4>2. CAR \in Int /\ 1 <= CAR
        BY ONLY TRUE DEF CAR
      <4>3. ~(CAR <= Len(fnodes))
        BY <1>0, <1>4, <4>2, Zenon
      <4> DEFINE l == Len(fnodes)
      <4> HIDE DEF l
      <4>4. l \in Nat /\ 1 <= l /\ ~(2 <= l)
        BY ONLY <4>1, <4>3 DEF CAR, l
      <4>5. l = 1
        BY ONLY <4>4
      <4> QED BY <4>5, Zenon DEF l
    <3> QED BY ONLY <1>0, <3>1, SMTT(60) DEF ROOT
  <2>2. DOMAIN fnodes[ROOT].subnodes = {}
    <3>1. DOMAIN << >> = {}
      OBVIOUS
    <3> QED BY <2>1, <3>1 DEF Tree
  <2>3. L = {}
    BY <1>1, <2>1, <2>2
  <2>4. n = ROOT
    BY <2>1
  <2> QED BY ONLY <2>3, <2>4, FS_EmptySet, SMTT(60) DEF Is
<1>5. CASE CAR \in Node
  <2>0. ROOT \in Node /\ ROOT # CAR
    BY ONLY <1>0, <1>5, SMTT(60) DEF CAR, ROOT
  <2>1. fnodes[ROOT].subnodes = [x \in {"initcar"} |-> CAR]
    BY <1>5, Zenon DEF Tree
  <2>2. DOMAIN fnodes[ROOT].subnodes = {"initcar"} /\ fnodes[ROOT].subnodes["initcar"] = CAR
    BY <2>1, Zenon
  <2>3. \A m \in Files : Name(m) \in DOMAIN fnodes[CAR].subnodes /\ fnodes[CAR].subnodes[Name(m)] = m
    BY <1>5, Zenon DEF Tree, FileNode
  <2>4. \A x \in DOMAIN fnodes[CAR].subnodes : \E m \in Files : x = Name(m)
    BY <1>5, SMTT(60) DEF Tree
  <2>5. \A h \in L : \/ h = <<"dir", ROOT, "initcar">> /\ n = CAR
                     \/ \E m \in Files : h = <<"dir", CAR, Name(m)>> /\ n = m
    BY ONLY <1>1, <1>3, <2>2, <2>3, <2>4, SMTT(60)
  <2>6. CASE n = ROOT
    <3>1. L = {}
      BY <2>0, <2>5, <2>6, Zenon DEF Files
    <3> QED BY ONLY <2>6, <3>1, FS_EmptySet, SMTT(60) DEF Is
  <2>7. CASE n = CAR
    <3>1. L = {<<"dir", ROOT, "initcar">>}
      BY <1>2, <2>0, <2>2, <2>5, <2>7, ZenonT(60) DEF Files
    <3>2. Cardinality({<<"dir", ROOT, "initcar">>}) = 1
      BY FS_Singleton, Zenon
    <3>3. Is(n, ROOT) = 0
      BY <2>0, <2>7, Zenon DEF Is
    <3> QED BY ONLY <3>1, <3>2, <3>3, SMTT(60)
  <2>8. CASE n \in Files
    <3>1. L = {<<"dir", CAR, Name(n)>>}
      BY <1>2, <1>5, <2>3, <2>5, <2>8, ZenonT(60) DEF Files
    <3>2. Cardinality({<<"dir", CAR, Name(n)>>}) = 1
      BY FS_Singleton, Zenon
    <3>3. Is(n, ROOT) = 0
      BY <2>8, Zenon DEF Is, Files
    <3> QED BY ONLY <3>1, <3>2, <3>3, SMTT(60)
  <2> QED BY <2>6, <2>7, <2>8, Zenon DEF Files
<1> QED BY <1>4, <1>5, Zenon

\* So the references to a node are what holds it.
LEMMA ReferencesHeld ==
    ASSUME Typed, Tree, NEW n \in Node
    PROVE  References(n) = Held(n)
<1> DEFINE C1 == Count(DOMAIN fcbs, fcbs, n)  C2 == Count(Proc, cur_dir, n)
           C3 == Count(Actor, FileOf, n)  C4 == Count(Actor, NewOf, n)
           D1 == Cardinality({i \in DOMAIN fcbs : fcbs[i] = n})
           D2 == Cardinality({p \in Proc : cur_dir[p] = n})
           D3 == Cardinality({a \in Actor : frame[a].file = n})
           D4 == Cardinality({a \in Actor : frame[a].new_file = n})
           b == IF n \in {ROOT, CAR} THEN 1 ELSE 0
<1>1. C1 \in Nat /\ C2 \in Nat /\ C3 \in Nat /\ C4 \in Nat
  BY Finiteness, Finite, CountNat, Zenon
<1>2. C1 = D1 /\ C2 = D2
  BY DEF Count
<1>3. C3 = D3 /\ C4 = D4
  <2>1. {a \in Actor : FileOf[a] = n} = {a \in Actor : frame[a].file = n}
    BY DEF FileOf
  <2>2. {a \in Actor : NewOf[a] = n} = {a \in Actor : frame[a].new_file = n}
    BY Zenon DEF NewOf
  <2> QED BY <2>1, <2>2, Zenon DEF Count
<1>4. References(n) = b + (1 - Is(n, ROOT)) + D1 + D2 + D3 + D4
  BY LinksOnce, SMTT(60) DEF References
<1>5. b + (1 - Is(n, ROOT)) = 1 + Is(n, CAR) /\ b \in Int /\ (1 - Is(n, ROOT)) \in Int /\ Is(n, CAR) \in Int
  BY DEF Is, ROOT, CAR
<1>6. Held(n) = 1 + Is(n, CAR) + C1 + C2 + C3 + C4
  BY DEF Held
<1> HIDE DEF C1, C2, C3, C4, D1, D2, D3, D4, b
<1> DEFINE o1 == (1 - Is(n, ROOT))  o2 == Is(n, CAR)
<1>7. /\ References(n) = b + o1 + D1 + D2 + D3 + D4 /\ Held(n) = 1 + o2 + C1 + C2 + C3 + C4
      /\ b + o1 = 1 + o2 /\ b \in Int /\ o1 \in Int /\ o2 \in Int
  BY <1>4, <1>5, <1>6, Zenon
<1> HIDE DEF o1, o2
<1> QED BY <1>1, <1>2, <1>3, <1>7, Zenon

\* The data of a file are as many bytes as its entry says, within what is read.
LEMMA MountedFile ==
    ASSUME Typed, Tree, NEW n \in Files
    PROVE  /\ Child(CAR, Name(n)) = n /\ Cardinality(DataOf(n)) = Size(n)
           /\ fnodes[n].exdata[1] \in Nat /\ Size(n) \in Nat /\ fnodes[n].exdata[2] = Size(n)
           /\ DataOf(n) = fnodes[n].exdata[1] .. fnodes[n].exdata[1] + Size(n) - 1
<1>1. FileNode(n) /\ n \in Node /\ n # ROOT /\ n # CAR
  BY DEF Tree, Files
<1>2. CAR \in Node /\ CAR # NULL
  BY <1>1, NodeNumbers, SMTT(60) DEF ROOT, CAR, NULL
<1>3. Child(CAR, Name(n)) = n
  <2>1. IsDir(CAR) /\ Name(n) \in DOMAIN fnodes[CAR].subnodes
    BY <1>2, Zenon DEF Tree, IsDir
  <2> QED BY <1>1, <1>2, <2>1, ZenonT(60) DEF Child, FileNode
<1>4. Size(n) \in Nat
  <2>1. archive.chain \in Seq([name : STRING, size : Nat])
    BY VfsAssumption, Zenon DEF Typed
  <2>2. archive.chain[n - CAR] \in [name : STRING, size : Nat]
    <3>1. \A R : \A c \in Seq(R) : \A i \in DOMAIN c : c[i] \in R
      OBVIOUS
    <3>2. \A i \in DOMAIN archive.chain : archive.chain[i] \in [name : STRING, size : Nat]
      BY <2>1, <3>1, Zenon
    <3> QED BY <1>1, <3>2, Zenon DEF FileNode
  <2> QED BY <2>2, Zenon DEF Size
<1>5. fnodes[n].exdata[1] \in Nat
  <2>1. fnodes[n].exdata \in Seq(Nat) /\ Len(fnodes[n].exdata) = 2
    <3>1. fnodes[n] \in NodeRec
      BY <1>1, SMTT(60) DEF Typed, Node
    <3> QED BY <1>1, <3>1, Zenon DEF NodeRec, FileNode
  <2> QED BY ONLY <2>1, SMTT(60)
<1>6. fnodes[n].exdata[2] = Size(n)
  BY <1>1, Zenon DEF FileNode
<1>7. DataOf(n) = fnodes[n].exdata[1] .. fnodes[n].exdata[1] + Size(n) - 1
  BY <1>6, Zenon DEF DataOf
<1>8. \A b, z \in Nat : Cardinality(b .. b + z - 1) = z
  <2> SUFFICES ASSUME NEW b \in Nat, NEW z \in Nat PROVE Cardinality(b .. b + z - 1) = z
    OBVIOUS
  <2>1. b \in Int /\ b + z - 1 \in Int
    OBVIOUS
  <2>2. Cardinality(b .. b + z - 1) = IF b > b + z - 1 THEN 0 ELSE b + z - 1 - b + 1
    BY ONLY <2>1, FS_Interval, SMTT(60)
  <2> QED BY ONLY <2>2, SMTT(60)
<1> QED BY <1>3, <1>4, <1>5, <1>6, <1>7, <1>8, ZenonT(60)

\* The tree means that the archive is mounted.
LEMMA TreeMounted == ASSUME Typed, Tree PROVE ArchiveMounted
<1> SUFFICES ASSUME Mounted PROVE
        /\ Entry.name = "END"
        /\ \A n \in Files : /\ Child(CAR, Name(n)) = n /\ Cardinality(DataOf(n)) = Size(n)
                            /\ DataOf(n) \subseteq 0 .. archive.size - 1
        /\ \A m, n \in Files : m # n => DataOf(m) \cap DataOf(n) = {}
  BY Zenon DEF ArchiveMounted, Name, Size
<1>1. /\ Entry.name = "END" /\ p_cur \in Nat /\ HEADER \in Nat /\ archive.size \in Nat
      /\ p_cur + HEADER <= archive.size
  BY VfsAssumption, Zenon DEF Tree, Typed
<1>2. ASSUME NEW n \in Files
      PROVE  DataOf(n) \subseteq 0 .. archive.size - 1
  <2>1. fnodes[n].exdata[1] + Size(n) <= p_cur
    BY DEF Tree, FileNode
  <2>2. \A b, z, c, h, s \in Nat : b + z <= c /\ c + h <= s => b .. b + z - 1 \subseteq 0 .. s - 1
    OBVIOUS
  <2> DEFINE b == fnodes[n].exdata[1]  z == Size(n)
  <2>3. b \in Nat /\ z \in Nat /\ DataOf(n) = b .. b + z - 1 /\ b + z <= p_cur
    BY <2>1, MountedFile, Zenon
  <2> HIDE DEF b, z
  <2> QED BY <1>1, <2>2, <2>3, ZenonT(60)
<1>3. ASSUME NEW m \in Files, NEW n \in Files, m < n PROVE DataOf(m) \cap DataOf(n) = {}
  <2>1. fnodes[m].exdata[1] + Size(m) <= fnodes[n].exdata[1]
    BY <1>3, Zenon DEF Tree, Laid
  <2>2. \A b, y, c, z \in Nat : b + y <= c => (b .. b + y - 1) \cap (c .. c + z - 1) = {}
    BY SMTT(60)
  <2> DEFINE b == fnodes[m].exdata[1]  y == Size(m)  c == fnodes[n].exdata[1]  z == Size(n)
  <2>3. /\ b \in Nat /\ y \in Nat /\ c \in Nat /\ z \in Nat /\ b + y <= c
        /\ DataOf(m) = b .. b + y - 1 /\ DataOf(n) = c .. c + z - 1
    BY <2>1, MountedFile, Zenon
  <2> HIDE DEF b, y, c, z
  <2> QED BY <2>2, <2>3, ZenonT(60)
<1>4. \A m, n \in Files : m # n => m < n \/ n < m
  <2>1. \A n \in Files : n \in Int
    BY NodeNumbers, Zenon DEF Files
  <2> QED BY ONLY <2>1, SMTT(60)
<1>5. \A m, n \in Files : m # n => DataOf(m) \cap DataOf(n) = {}
  BY <1>3, <1>4, Zenon
<1> QED BY <1>1, <1>2, <1>5, MountedFile, ZenonT(60)

-----------------------------------------------------------------------------
(* The boot.                                                               *)

\* While the entries are read there is one to read: none before it is the last.
LEMMA EntryTyped ==
    ASSUME Inv, pc[KERNEL] = "entries"
    PROVE  /\ Len(fnodes) \in Nat /\ Len(fnodes) >= 2 /\ ROOT \in Node /\ CAR \in Node /\ ROOT # CAR
           /\ (Len(fnodes) + 1) - CAR \in DOMAIN archive.chain /\ Entry.name \in STRING /\ Entry.size \in Nat
           /\ Name(Len(fnodes) + 1) = Entry.name /\ Size(Len(fnodes) + 1) = Entry.size
<1>1. Typed /\ Tree /\ Len(fnodes) \in Nat /\ Len(fnodes) # 0 /\ Len(fnodes) # 1
  BY NodeNumbers, Zenon DEF Inv, Tree
<1>2. Len(fnodes) >= 2
  <2>1. \A l \in Nat : l # 0 /\ l # 1 => l >= 2
    OBVIOUS
  <2> QED BY <1>1, <2>1, Zenon
<1>3. ROOT \in Node /\ CAR \in Node /\ ROOT # CAR
  BY ONLY <1>1, <1>2, NodeNumbers, SMTT(60) DEF ROOT, CAR
<1>4. archive.chain \in Seq([name : STRING, size : Nat]) /\ \E i \in DOMAIN archive.chain : archive.chain[i].name = "END"
  BY <1>1, VfsAssumption, Zenon DEF Typed
<1> DEFINE c == archive.chain
<1>5. PICK i \in DOMAIN c : c[i].name = "END"
  BY <1>4, Zenon
<1>6. DOMAIN c = 1 .. Len(c) /\ Len(c) \in Nat /\ i \in Nat /\ i >= 1 /\ i <= Len(c)
  BY ONLY <1>4, SMTT(60)
<1>7. i > Len(fnodes) - 2
  <2> SUFFICES ASSUME i <= Len(fnodes) - 2 PROVE FALSE
    BY <1>1, <1>6, SMTT(60)
  <2>1. i + 2 \in Int /\ 1 <= i + 2 /\ i + 2 <= Len(fnodes) /\ i + 2 # ROOT /\ i + 2 # CAR /\ (i + 2) - CAR = i
    BY <1>1, <1>6, SMTT(60) DEF ROOT, CAR
  <2>2. i + 2 \in Files
    BY <1>1, <2>1, NodeNumbers, Zenon DEF Files
  <2>3. Name(i + 2) # "END"
    BY <1>1, <2>2, Zenon DEF Tree, FileNode
  <2> QED BY <1>5, <2>1, <2>3, ZenonT(60) DEF Name
<1>8. /\ (Len(fnodes) + 1) - CAR \in DOMAIN c /\ (Len(fnodes) + 1) - CAR = Len(fnodes) - CAR + 1
  <2>1. \A l \in Nat, m \in Nat, j \in Nat : l >= 2 /\ j <= m /\ j > l - 2 => (l + 1) - 2 \in 1 .. m
    OBVIOUS
  <2>2. \A l \in Nat : (l + 1) - 2 = l - 2 + 1
    OBVIOUS
  <2> QED BY <1>1, <1>2, <1>6, <1>7, <2>1, <2>2, ZenonT(60) DEF CAR
<1>9. Entry = c[(Len(fnodes) + 1) - CAR] /\ Entry \in [name : STRING, size : Nat]
  <2>0. \A R : \A s \in Seq(R) : \A j \in DOMAIN s : s[j] \in R
    OBVIOUS
  <2>1. \A j \in DOMAIN c : c[j] \in [name : STRING, size : Nat]
    BY <1>4, <2>0, Zenon
  <2> QED BY <1>8, <2>1, Zenon DEF Entry
<1> QED BY <1>1, <1>2, <1>3, <1>8, <1>9, ZenonT(60) DEF Name, Size

\* One more entry.
LEMMA LinkEntryInv == ASSUME Inv, pc[KERNEL] = "entries", LinkEntry PROVE Inv'
<1> DEFINE n == Len(fnodes) + 1  e == <<p_cur + HEADER, Entry.size>>  x == Entry.name  L == fnodes'
<1>1. /\ Len(fnodes) \in Nat /\ Len(fnodes) >= 2 /\ ROOT \in Node /\ CAR \in Node /\ ROOT # CAR
      /\ n - CAR \in DOMAIN archive.chain /\ x \in STRING /\ Entry.size \in Nat
      /\ Name(n) = x /\ Size(n) = Entry.size
  BY EntryTyped, Zenon
<1>2. /\ x # "END" /\ x \notin DOMAIN fnodes[CAR].subnodes
      /\ L = Linked(Append(fnodes, NewNode("file", "initcar", e, 0)), CAR, x, n)
      /\ p_cur' = p_cur + HEADER + Entry.size
      /\ UNCHANGED <<archive, fcbs, pc, frame, cur_dir, ufcb_set, last_fd, used, stop>>
  BY Zenon DEF LinkEntry, proc
<1>3. Typed /\ Tree /\ fnodes \in Seq(NodeRec) /\ p_cur \in Nat /\ HEADER \in Nat
  BY VfsAssumption, Zenon DEF Inv, Typed
<1>4. p_cur' \in Nat /\ p_cur <= p_cur' /\ e \in Seq(Nat) /\ p_cur + HEADER + Entry.size <= p_cur' /\ Len(e) = 2
  BY <1>1, <1>2, <1>3, SMTT(60)
<1>5. Made(fnodes, CAR, x, e, "file", 0, n, L)
  <2>1. x \in Names /\ "file" \in {"dir", "file"} /\ 0 \in Nat /\ CAR \in DOMAIN fnodes
    BY <1>1, Zenon DEF Names, Node
  <2> HIDE DEF n, e, x, L
  <2> QED BY <1>2, <1>3, <1>4, <2>1, LinkedFacts, ZenonT(60) DEF n
<1>6. /\ L \in Seq(NodeRec) /\ Len(L) = n /\ Node' = Node \cup {n} /\ n \notin Node
      /\ L[n].type = "file" /\ L[n].exdata = e /\ L[n].subnodes = << >> /\ L[n].ref_count = 1 /\ ~L[n].destroyed
      /\ \A k \in Node : /\ L[k].type = fnodes[k].type /\ L[k].exdata = fnodes[k].exdata
                         /\ L[k].ref_count = fnodes[k].ref_count /\ L[k].destroyed = fnodes[k].destroyed
                         /\ k # CAR => L[k].subnodes = fnodes[k].subnodes
      /\ L[CAR].subnodes = Bind(fnodes[CAR].subnodes, x, n)
  BY ONLY <1>5, SMTT(60) DEF Made, Node
<1>7. /\ n \in Nat /\ n # 0 /\ n # 1 /\ n # ROOT /\ n # CAR /\ Files' = Files \cup {n} /\ n \notin Files
      /\ \A m \in Files : m \in Node /\ m # ROOT /\ m # CAR /\ m \in Nat /\ m < n
  <2>1. n \in Nat /\ n > 2
    BY ONLY <1>1, SMTT(60)
  <2>2. \A m \in Node : m \in Nat /\ m < n
    BY ONLY <1>1, <1>3, NodeNumbers, SMTT(60)
  <2> QED BY ONLY <1>6, <2>1, <2>2, SMTT(60) DEF Files, ROOT, CAR
<1>8. /\ DOMAIN L[CAR].subnodes = DOMAIN fnodes[CAR].subnodes \cup {x} /\ L[CAR].subnodes[x] = n
      /\ \A y \in DOMAIN fnodes[CAR].subnodes : L[CAR].subnodes[y] = fnodes[CAR].subnodes[y]
  BY <1>2, <1>6, ZenonT(60) DEF Bind
<1>9. DOMAIN fnodes[CAR].subnodes = {Name(m) : m \in Files} /\ \A m \in Files : FileNode(m) /\ fnodes[m] \in NodeRec
  BY <1>1, <1>3, <1>7, NodeTyped, ZenonT(60) DEF Tree
<1> HIDE DEF n, x, L
<1>10. e[1] = p_cur + HEADER /\ e[2] = Entry.size
  OBVIOUS
<1> HIDE DEF e
<1>11. \A m \in Files : /\ m - CAR \in DOMAIN archive.chain /\ Name(m) # "END" /\ Size(m) \in Nat
                        /\ fnodes[m].exdata[1] \in Nat /\ fnodes[m].exdata[1] + Size(m) <= p_cur
  <2> SUFFICES ASSUME NEW m \in Files
               PROVE  /\ m - CAR \in DOMAIN archive.chain /\ Name(m) # "END" /\ Size(m) \in Nat
                      /\ fnodes[m].exdata[1] \in Nat /\ fnodes[m].exdata[1] + Size(m) <= p_cur
    OBVIOUS
  <2>1. /\ m - CAR \in DOMAIN archive.chain /\ Name(m) # "END" /\ fnodes[m].exdata[1] + Size(m) <= p_cur
        /\ Len(fnodes[m].exdata) = 2 /\ fnodes[m].exdata[2] = Size(m)
    BY <1>9, Zenon DEF FileNode
  <2>2. fnodes[m].exdata \in Seq(Nat)
    BY <1>9, Zenon DEF NodeRec
  <2>3. ASSUME NEW s \in Seq(Nat), Len(s) = 2 PROVE s[1] \in Nat /\ s[2] \in Nat
    <3>1. 1 \in DOMAIN s /\ 2 \in DOMAIN s
      BY ONLY <2>3, s \in Seq(Nat), SMTT(60)
    <3> QED BY ONLY <3>1, s \in Seq(Nat), SMTT(60)
  <2> QED BY <2>1, <2>2, <2>3, ZenonT(60)
<1>12. /\ \A m \in Files' : Name(m)' = Name(m) /\ Size(m)' = Size(m)
       /\ archive' = archive /\ pc'[KERNEL] = "entries"
  BY <1>2, Zenon DEF Name, Size
<1>13. ASSUME NEW m \in Files' PROVE FileNode(m)'
  <2>1. CASE m = n
    <3>1. L[m].exdata[1] = p_cur + HEADER /\ L[m].exdata[2] = Size(m) /\ Len(L[m].exdata) = 2
      BY <1>1, <1>4, <1>6, <1>10, <2>1, ZenonT(60)
    <3>2. L[m].exdata[1] + Size(m) <= p_cur'
      BY <1>1, <1>4, <2>1, <3>1, ZenonT(60)
    <3> QED BY <1>1, <1>2, <1>6, <1>8, <1>12, <2>1, <3>1, <3>2, ZenonT(60) DEF FileNode, L
  <2>2. CASE m \in Files
    <3>1. m \in Node /\ m # CAR /\ L[m].type = fnodes[m].type /\ L[m].exdata = fnodes[m].exdata
          /\ L[m].subnodes = fnodes[m].subnodes
      BY <1>6, <1>7, <2>2, ZenonT(60)
    <3>2. L[CAR].subnodes[Name(m)] = fnodes[CAR].subnodes[Name(m)]
      BY <1>8, <1>9, <2>2, ZenonT(60)
    <3>3. fnodes[m].exdata[1] + Size(m) <= p_cur'
      BY <1>3, <1>4, <1>11, <2>2, SMTT(60)
    <3> QED BY <1>9, <1>12, <2>2, <3>1, <3>2, <3>3, ZenonT(60) DEF FileNode, L
  <2> QED BY <1>7, <2>1, <2>2, ZenonT(60)
<1>14. ASSUME NEW l \in Files', NEW m \in Files' PROVE Laid(l, m)'
  <2> SUFFICES ASSUME l < m PROVE L[l].exdata[1] + Size(l) <= L[m].exdata[1]
    BY <1>12, Zenon DEF Laid, L
  <2>1. l \in Files
    BY <1>7, SMTT(60)
  <2>2. L[l].exdata = fnodes[l].exdata
    BY <1>6, <1>7, <2>1, ZenonT(60)
  <2>3. CASE m = n
    <3>1. L[m].exdata[1] = p_cur + HEADER
      BY <1>6, <1>10, <2>3, ZenonT(60)
    <3> QED BY ONLY <1>3, <1>11, <2>1, <2>2, <3>1, SMTT(60)
  <2>4. CASE m \in Files
    <3>1. L[m].exdata = fnodes[m].exdata
      BY <1>6, <1>7, <2>4, ZenonT(60)
    <3> QED BY <1>3, <2>1, <2>2, <2>4, <3>1, ZenonT(60) DEF Tree, Laid
  <2> QED BY <1>7, <2>3, <2>4, ZenonT(60)
<1>15. DOMAIN L[CAR].subnodes = {Name(m)' : m \in Files'}
  <2>1. {Name(m)' : m \in Files'} = {Name(m) : m \in Files'}
    BY <1>12
  <2> QED BY <1>1, <1>7, <1>8, <1>9, <2>1, ZenonT(60)
<1>16. Tree'
  <2>1. /\ L[ROOT].type = "dir" /\ L[CAR].type = "dir" /\ L[ROOT].subnodes = [y \in {"initcar"} |-> CAR]
    BY <1>1, <1>3, <1>6, ZenonT(60) DEF Tree
  <2>2. Len(fnodes') # 0 /\ Len(fnodes') # 1 /\ ~Mounted'
    BY <1>6, <1>7, <1>12, ZenonT(60) DEF Mounted, L
  <2> QED BY <1>12, <1>13, <1>14, <1>15, <2>1, <2>2, ZenonT(60) DEF Tree, L
<1>17. \A k \in DOMAIN fnodes' : ~fnodes'[k].destroyed /\ fnodes'[k].ref_count = 1 + Is(k, CAR)
  <2> SUFFICES ASSUME NEW k \in Node' PROVE ~L[k].destroyed /\ L[k].ref_count = 1 + Is(k, CAR)
    BY Zenon DEF Node, L
  <2>1. CASE k = n
    BY ONLY <1>6, <1>7, <2>1, IsInt, SMTT(60)
  <2>2. CASE k \in Node
    <3>1. k # NULL /\ fnodes[k].ref_count = 1 + Is(k, CAR) /\ ~fnodes[k].destroyed
      BY Finiteness, <1>3, <2>2, BootHeld, NodeTyped, ZenonT(60) DEF Inv, Counted, NoneDestroyed, Booting
    <3> QED BY <1>6, <2>2, <3>1, ZenonT(60)
  <2> QED BY <1>6, <2>1, <2>2, ZenonT(60)
<1>18. pc' = [pc EXCEPT ![KERNEL] = "entries"]
  BY <1>2, <1>3, ZenonT(60) DEF Typed
<1> QED BY <1>2, <1>4, <1>6, <1>16, <1>17, <1>18, Finiteness, BootStep, ZenonT(60) DEF Booting, L

\* After the last entry the kernel opens the first program.
LEMMA LastEntryInv == ASSUME Inv, pc[KERNEL] = "entries", stop = "none", LastEntry PROVE Inv'
<1> DEFINE g == Start(ROOT, InitPath, 0)
<1>1. /\ p_cur + HEADER <= archive.size /\ Entry.name = "END" /\ fnodes' = Ref(fnodes, ROOT)
      /\ pc' = [pc EXCEPT ![KERNEL] = "resolve"] /\ frame' = [frame EXCEPT ![KERNEL] = g]
      /\ UNCHANGED <<archive, p_cur, fcbs, cur_dir, ufcb_set, last_fd, used, stop>>
  <2>1. p_cur + HEADER \in Nat /\ archive.size \in Nat
    BY VfsAssumption, SMTT(60) DEF Inv, Typed
  <2>2. ~(p_cur + HEADER > archive.size)
    BY DEF LastEntry, Premature
  <2> QED BY <2>1, <2>2, SMTT(60) DEF LastEntry, Goto, proc
<1>2. Typed /\ Tree /\ ROOT \in Node /\ ROOT \in Nat /\ fnodes \in Seq(NodeRec)
  BY EntryTyped, Zenon DEF Inv, Typed, ROOT
<1>3. /\ KERNEL \in Actor /\ Proc \subseteq Actor /\ KERNEL \notin Proc /\ frame[KERNEL] = Idle
      /\ fcbs = << >> /\ \A p \in Proc : pc[p] = "none" /\ cur_dir[p] = NULL /\ ufcb_set[p] = << >>
  BY Finiteness, BootHeld, ZenonT(60) DEF Booting
<1>4. /\ g \in FrameRec /\ g.i = 1 /\ g.base = ROOT /\ g.file = ROOT /\ g.new_file = NULL
      /\ g.fd = 0 /\ g.i \in 1 .. Len(g.path)
  <2>1. InitPath \in Seq(STRING) /\ InitPath # << >> /\ 0 \in Nat
    BY VfsAssumption, Zenon
  <2> QED BY ONLY <1>2, <2>1, StartTyped, SMTT(60)
<1> HIDE DEF g
<1>5. /\ pc' \in [Actor -> KernelLabel \cup ProcLabel] /\ pc'[KERNEL] = "resolve"
      /\ \A b \in Actor \ {KERNEL} : pc'[b] = pc[b]
  BY <1>1, <1>2, <1>3, ZenonT(60) DEF Typed, KernelLabel
<1>6. /\ frame' \in [Actor -> FrameRec] /\ frame'[KERNEL] = g /\ \A b \in Actor \ {KERNEL} : frame'[b] = frame[b]
  BY <1>1, <1>2, <1>3, <1>4, Zenon DEF Typed
<1>7. /\ fnodes' \in Seq(NodeRec) /\ SameShape(fnodes, fnodes')
      /\ \A k \in Node : /\ fnodes'[k].ref_count = fnodes[k].ref_count + Is(ROOT, k)
                         /\ fnodes'[k].destroyed = fnodes[k].destroyed
  BY <1>1, <1>2, RefFacts, ZenonT(60) DEF Node
<1>8. Node' = Node /\ Ptr' = Ptr
  BY <1>7, Zenon DEF SameShape, Node, Ptr
<1>9. Typed'
  <2>1. pc'[KERNEL] \in KernelLabel /\ \A p \in Proc : pc'[p] \in ProcLabel
    BY <1>2, <1>3, <1>5, ZenonT(60) DEF KernelLabel, Typed
  <2>2. \A b \in Actor : frame'[b].base \in Ptr' /\ frame'[b].file \in Ptr' /\ frame'[b].new_file \in Ptr'
    <3>1. ROOT \in Ptr /\ NULL \in Ptr
      BY <1>2, Zenon DEF Ptr
    <3> QED BY <1>2, <1>4, <1>6, <1>8, <3>1, ZenonT(60) DEF Typed
  <2> QED BY <1>1, <1>2, <1>5, <1>6, <1>7, <1>8, <2>1, <2>2, ZenonT(60) DEF Typed
<1>10. Tree'
  BY <1>1, <1>2, <1>5, <1>7, TreeStays, ZenonT(60)
<1>11. Alone'
  BY <1>1, <1>3, <1>5, Zenon DEF Alone, Booting
<1>12. Counted'
  <2>1. ASSUME NEW k \in Node
        PROVE  fnodes'[k].ref_count
                  = fnodes[k].ref_count - Is(frame[KERNEL].file, k) - Is(frame[KERNEL].new_file, k)
                    + Is(frame'[KERNEL].file, k) + Is(frame'[KERNEL].new_file, k)
    <3>1. Is(NULL, k) = 0 /\ Is(ROOT, k) \in 0 .. 1 /\ fnodes[k].ref_count \in Int
      BY <1>2, IsInt, NodeTyped, ZenonT(60)
    <3>2. /\ frame[KERNEL].file = NULL /\ frame[KERNEL].new_file = NULL
          /\ frame'[KERNEL].file = ROOT /\ frame'[KERNEL].new_file = NULL
      BY <1>3, <1>4, <1>6, IdleTyped, ZenonT(60)
    <3>3. fnodes'[k].ref_count = fnodes[k].ref_count + Is(ROOT, k)
      BY <1>7, Zenon
    <3> QED BY ONLY <3>1, <3>2, <3>3, SMTT(60)
  <2>2. Counted /\ UNCHANGED <<fcbs, cur_dir>> /\ DOMAIN fnodes' = DOMAIN fnodes
    BY <1>1, <1>8, Zenon DEF Inv, Node
  <2> QED BY Finiteness, <1>2, <1>3, <1>6, <2>1, <2>2, CountedMoves, ZenonT(60)
<1>13. NoneDestroyed'
  BY <1>7, <1>8, Zenon DEF Inv, NoneDestroyed
<1>14. \A a \in Actor : Frame(a)'
  <2>1. Frame(KERNEL)'
    BY <1>4, <1>5, <1>6, ZenonT(60) DEF Frame, Booting
  <2>2. ASSUME NEW p \in Proc PROVE Frame(p)'
    <3>1. frame'[p] = Idle /\ pc'[p] = "none"
      BY Finiteness, <1>3, <1>5, <1>6, BootHeld, ZenonT(60) DEF Booting
    <3> QED BY <3>1, Zenon DEF Frame
  <2> QED BY <2>1, <2>2, Zenon DEF Actor
<1>15. ASSUME NEW p \in Proc PROVE Descriptors(p)'
  <2>1. pc'[p] = "none" /\ ufcb_set[p] = << >> /\ DOMAIN << >> = {}
    BY ONLY <1>3, <1>5, SMTT(60)
  <2> QED BY <1>1, <2>1, ZenonT(60) DEF Inv, Descriptors
<1> QED BY <1>9, <1>10, <1>11, <1>12, <1>13, <1>14, <1>15, ZenonT(60) DEF Inv

\* One entry of the archive.
LEMMA EntryInv == ASSUME Inv, initcar_entry PROVE Inv'
<1>1. pc[KERNEL] = "entries" /\ stop = "none"
  BY DEF initcar_entry, At, Running
<1> QED BY <1>1, StopInv, LinkEntryInv, LastEntryInv, Zenon DEF initcar_entry

-----------------------------------------------------------------------------
(* The theorems.                                                           *)

\* The invariant holds at the start.
LEMMA InitInv == Init => Inv
<1> SUFFICES ASSUME Init PROVE Inv
  OBVIOUS
<1>1. KERNEL \in Actor /\ KERNEL \notin Proc /\ Proc \subseteq Actor
  BY VfsAssumption, Zenon DEF Actor
<1>2. /\ Node = {} /\ Files = {} /\ Ptr = {NULL} /\ Len(fnodes) = 0 /\ DOMAIN << >> = {}
      /\ fnodes \in Seq(NodeRec) /\ fcbs \in Seq(Nat) /\ ROOT \notin Node /\ CAR \notin Node
  BY DEF Init, Node, Files, Ptr
<1>3. /\ pc[KERNEL] = "ki_fs_init" /\ \A p \in Proc : pc[p] = "none"
  BY <1>1, Zenon DEF Init
<1>4. << >> \in Table
  <2>1. << >> \in [{} -> Nat] /\ {} \in SUBSET (0 .. MaxFd)
    BY SMTT(60)
  <2> QED BY <2>1, Zenon DEF Table
<1>5. Typed
  <2>1. pc \in [Actor -> KernelLabel \cup ProcLabel] /\ pc[KERNEL] \in KernelLabel /\ \A p \in Proc : pc[p] \in ProcLabel
    BY <1>1, <1>3, Zenon DEF Init, KernelLabel, ProcLabel, Booting
  <2>2. frame \in [Actor -> FrameRec] /\ \A a \in Actor : frame[a] = Idle
    BY IdleTyped, Zenon DEF Init
  <2>3. /\ cur_dir \in [Proc -> Nat] /\ ufcb_set \in [Proc -> Table] /\ last_fd \in [Proc -> Nat]
        /\ used \in [Proc -> SUBSET Nat] /\ \A p \in Proc : cur_dir[p] = NULL
    BY <1>4, Zenon DEF Init, NULL
  <2>4. archive \in Archives /\ p_cur \in Nat /\ stop \in {"none", "panic", "fault"} /\ fcbs = << >>
    BY Zenon DEF Init
  <2> QED BY <1>2, <2>1, <2>2, <2>3, <2>4, IdleTyped, ZenonT(60) DEF Typed
<1>6. Tree
  BY ONLY <1>2, <1>3, SMTT(60) DEF Tree, Mounted
<1>7. Alone /\ Counted /\ NoneDestroyed
  BY <1>2, <1>3, Zenon DEF Init, Alone, Counted, NoneDestroyed
<1>8. \A a \in Actor : Frame(a)
  BY <1>3, Zenon DEF Init, Frame, Actor
<1>9. \A p \in Proc : Descriptors(p)
  <2> SUFFICES ASSUME NEW p \in Proc PROVE Descriptors(p)
    OBVIOUS
  <2>1. DOMAIN ufcb_set[p] = {} /\ used[p] = {} /\ last_fd[p] = 0 /\ pc[p] = "none"
    BY <1>2, <1>3, Zenon DEF Init
  <2>2. 0 <= MaxFd
    BY ONLY VfsAssumption, SMTT(60)
  <2> QED BY <2>1, <2>2, Zenon DEF Descriptors
<1> QED BY <1>5, <1>6, <1>7, <1>8, <1>9, Zenon DEF Inv

\* Every step keeps it.
LEMMA StepInv == Inv /\ [Next]_vars => Inv'
<1> SUFFICES ASSUME Inv, [Next]_vars PROVE Inv'
  OBVIOUS
<1>1. CASE Boot
  BY <1>1, Finiteness, FsInitInv, InitcarInitInv, EntryInv, KernelExecInv, ZenonT(60) DEF Boot
<1>2. CASE \E a \in Actor : Call(a)
  BY Finiteness, <1>2, ResolveInv, OpenInv, UfcbInv, InitcarReadInv, ZenonT(60) DEF Call
<1>3. ASSUME NEW p \in Proc,
             \/ \E path \in Paths : sysent_open(p, path)
             \/ \E fd \in 0 .. MaxFd - 1 : sysent_close(p, fd) \/ sysent_read(p, fd)
             \/ \E fd \in 0 .. MaxFd - 1, q \in Proc : sysent_exec_child(p, fd, q)
             \/ \E n \in Dirs \cap Node : ps_set_cwd(p, n)
             \/ ps_unset_cwd(p)
      PROVE  Inv'
  <2>1. CASE \E path \in Paths : sysent_open(p, path)
    BY Finiteness, <2>1, SysOpenInv, ZenonT(60)
  <2>2. CASE \E fd \in 0 .. MaxFd - 1 : sysent_close(p, fd) \/ sysent_read(p, fd)
    BY Finiteness, <2>2, CloseInv, ReadInv, ZenonT(60)
  <2>3. CASE \E fd \in 0 .. MaxFd - 1, q \in Proc : sysent_exec_child(p, fd, q)
    BY <2>3, ExecChildInv, Zenon
  <2>4. CASE \E n \in Dirs \cap Node : ps_set_cwd(p, n)
    BY Finiteness, <2>4, SetCwdInv, ZenonT(60)
  <2>5. CASE ps_unset_cwd(p)
    BY Finiteness, <2>5, UnsetCwdInv, ZenonT(60)
  <2> QED BY <1>3, <2>1, <2>2, <2>3, <2>4, <2>5, ZenonT(60)
<1>4. CASE UNCHANGED vars
  <2>1. UNCHANGED <<archive, p_cur, fnodes, fcbs, pc, frame, cur_dir, ufcb_set, last_fd, used, stop>>
    BY <1>4, Zenon DEF vars, proc
  <2>2. Node' = Node /\ Files' = Files /\ Ptr' = Ptr
    BY <2>1, Zenon DEF Node, Files, Ptr
  <2>3. Typed' /\ Alone' /\ NoneDestroyed'
    BY <2>1, <2>2, ZenonT(60) DEF Inv, Typed, Alone, NoneDestroyed
  <2>4. Tree'
    BY <2>1, TreeSame, Zenon DEF Inv
  <2>5. Counted'
    BY <2>1, <2>2, ZenonT(60) DEF Inv, Counted, Held, FileOf, NewOf
  <2>6. (\A a \in Actor : Frame(a)') /\ \A p \in Proc : Descriptors(p)'
    BY <2>1, ZenonT(60) DEF Inv, Frame, Descriptors
  <2> QED BY <2>3, <2>4, <2>5, <2>6, ZenonT(60) DEF Inv
<1> QED BY <1>1, <1>2, <1>3, <1>4, ZenonT(60) DEF Next

\* The inductive invariant holds in every behaviour.
THEOREM Invariance == Spec => []Inv
BY InitInv, StepInv, PTL DEF Spec

\* Every reference to a file node is counted and nothing else is, for every
\* archive, any number of processes and however their calls interleave.
THEOREM CountsAreExact == Spec => []RefsCounted
<1>1. Inv => RefsCounted
  BY ReferencesHeld, ZenonT(60) DEF Inv, RefsCounted, Counted
<1> QED BY <1>1, Invariance, PTL

\* No file node is ever destroyed: ki_destroy_fnode, which panics for every
\* type of node, is not reached.
THEOREM NodesSurvive == Spec => []NoneDestroyed
<1>1. Inv => NoneDestroyed
  BY ZenonT(60) DEF Inv
<1> QED BY <1>1, Invariance, PTL

\* An archive that is mounted has every entry before its last one, once, with
\* its data inside the archive and apart from the others'.
THEOREM MountIsComplete == Spec => []ArchiveMounted
<1>1. Inv => ArchiveMounted
  BY TreeMounted, Zenon DEF Inv
<1> QED BY <1>1, Invariance, PTL

\* What a process has open changes in the last step of sys_open and in
\* sys_close, and nowhere else.
LEMMA TableSteps ==
    ASSUME [Next]_vars
    PROVE  \/ UNCHANGED ufcb_set
           \/ \E p \in Proc : /\ pc[p] = "ufcb"
                              /\ ufcb_set' = [ufcb_set EXCEPT ![p] = Bind(@, frame[p].fd, frame[p].fcb)]
           \/ \E p \in Proc : \E fd : ufcb_set' = [ufcb_set EXCEPT ![p] = [x \in DOMAIN @ \ {fd} |-> @[x]]]
<1>1. ASSUME NEW why, Stop(why) PROVE UNCHANGED ufcb_set
  BY <1>1, Zenon DEF Stop, proc
<1>2. ASSUME NEW a, NEW N, Fails(a, N) PROVE UNCHANGED ufcb_set
  BY <1>2, Zenon DEF Fails, proc
<1>3. CASE Boot
  <2>1. CASE ki_fs_init \/ kh_initcar_init
    BY <1>1, <2>1, ZenonT(60) DEF ki_fs_init, kh_initcar_init, proc
  <2>2. CASE initcar_entry
    BY <1>1, <2>2, ZenonT(60) DEF initcar_entry, LinkEntry, LastEntry, proc
  <2>3. CASE \E q \in Proc : kernel_exec(q)
    BY <1>1, <2>3, Zenon DEF kernel_exec, proc
  <2> QED BY <1>3, <2>1, <2>2, <2>3, ZenonT(60) DEF Boot
<1>4. ASSUME NEW a \in Actor, fs_resolve_path(a) PROVE UNCHANGED ufcb_set
  <2>1. ASSUME NEW N, NEW f, NEW n, Descend(a, N, f, n) \/ Resolved(a, N, f, n) PROVE UNCHANGED ufcb_set
    BY <2>1, Zenon DEF Descend, Resolved, proc
  <2>2. PICK f, last : \/ EmptyComponent(a, f, last)
                       \/ NamedComponent(a, f, last, Child(f.file, f.path[f.i]))
    BY <1>4, Zenon DEF fs_resolve_path
  <2>3. CASE EmptyComponent(a, f, last)
    BY <2>1, <2>3, ZenonT(60) DEF EmptyComponent
  <2>4. CASE NamedComponent(a, f, last, Child(f.file, f.path[f.i]))
    BY <1>2, <2>1, <2>4, ZenonT(60) DEF NamedComponent
  <2> QED BY <2>2, <2>3, <2>4, Zenon
<1>5. ASSUME NEW a \in Actor, fs_open(a) PROVE UNCHANGED ufcb_set
  BY <1>1, <1>2, <1>5, ZenonT(60) DEF fs_open, proc
<1>6. ASSUME NEW p \in Proc, NEW off, kh_initcar_read(p, off) PROVE UNCHANGED ufcb_set
  BY <1>1, <1>6, ZenonT(60) DEF kh_initcar_read, proc
<1>7. ASSUME NEW p \in Proc, NEW fd, NEW q, sysent_read(p, fd) \/ sysent_exec_child(p, fd, q)
      PROVE  UNCHANGED ufcb_set
  BY <1>1, <1>7, ZenonT(60) DEF sysent_read, sysent_exec_child, proc
<1>8. ASSUME NEW p \in Proc, NEW path, NEW n, sysent_open(p, path) \/ ps_set_cwd(p, n) \/ ps_unset_cwd(p)
      PROVE  UNCHANGED ufcb_set
  BY <1>8, Zenon DEF sysent_open, ps_set_cwd, ps_unset_cwd
<1>9. ASSUME NEW p \in Proc, ps_alloc_ufcb(p)
      PROVE  \/ UNCHANGED ufcb_set
             \/ pc[p] = "ufcb" /\ ufcb_set' = [ufcb_set EXCEPT ![p] = Bind(@, frame[p].fd, frame[p].fcb)]
  BY <1>1, <1>9, Zenon DEF ps_alloc_ufcb, At
<1>10. ASSUME NEW p \in Proc, NEW fd, sysent_close(p, fd)
       PROVE  ufcb_set' = [ufcb_set EXCEPT ![p] = [x \in DOMAIN @ \ {fd} |-> @[x]]]
  BY <1>10, Zenon DEF sysent_close
<1>11. CASE \E a \in Actor : Call(a)
  BY <1>4, <1>5, <1>6, <1>9, <1>11, ZenonT(60) DEF Call
<1>12. CASE UNCHANGED vars
  BY <1>12, Zenon DEF vars, proc
<1>13. CASE \E p \in Proc : \/ \E path \in Paths : sysent_open(p, path)
                            \/ \E fd \in 0 .. MaxFd - 1 : sysent_close(p, fd) \/ sysent_read(p, fd)
                            \/ \E fd \in 0 .. MaxFd - 1, q \in Proc : sysent_exec_child(p, fd, q)
                            \/ \E n \in Dirs \cap Node : ps_set_cwd(p, n)
                            \/ ps_unset_cwd(p)
  BY <1>7, <1>8, <1>10, <1>13, ZenonT(60)
<1> QED BY <1>3, <1>11, <1>12, <1>13, ZenonT(60) DEF Next

\* A descriptor keeps its file until its process closes it, and its number is
\* never given to it again.
THEOREM DescriptorsAreStable == Spec => DescriptorsStable
<1> DEFINE Stable(p) ==
               /\ \A fd \in DOMAIN ufcb_set[p] \cap DOMAIN ufcb_set'[p] : ufcb_set'[p][fd] = ufcb_set[p][fd]
               /\ (DOMAIN ufcb_set'[p] \ DOMAIN ufcb_set[p]) \cap used[p] = {}
<1>1. ASSUME Inv, [Next]_vars, NEW p \in Proc PROVE Stable(p)
  <2>0. ufcb_set \in [Proc -> Table]
    BY <1>1, ZenonT(60) DEF Inv, Typed
  <2>1. CASE UNCHANGED ufcb_set
    BY <2>1, Zenon
  <2>2. ASSUME NEW q \in Proc, pc[q] = "ufcb",
               ufcb_set' = [ufcb_set EXCEPT ![q] = Bind(@, frame[q].fd, frame[q].fcb)]
        PROVE  Stable(p)
    <3>1. CASE p # q
      BY <2>0, <2>2, <3>1, ZenonT(60)
    <3>2. CASE p = q
      <4>1. frame[p].fd \notin used[p] /\ DOMAIN ufcb_set[p] \subseteq used[p]
        BY <1>1, <2>2, <3>2, ZenonT(60) DEF Inv, Descriptors
      <4>2. ufcb_set'[p] = Bind(ufcb_set[p], frame[p].fd, frame[p].fcb)
        BY <2>0, <2>2, <3>2, ZenonT(60)
      <4> QED BY <4>1, <4>2, ZenonT(60) DEF Bind
    <3> QED BY <3>1, <3>2, Zenon
  <2>3. ASSUME NEW q \in Proc, NEW fd, ufcb_set' = [ufcb_set EXCEPT ![q] = [x \in DOMAIN @ \ {fd} |-> @[x]]]
        PROVE  Stable(p)
    BY <2>0, <2>3, ZenonT(60)
  <2> QED BY <1>1, <2>1, <2>2, <2>3, TableSteps, ZenonT(60)
<1>2. Inv /\ [Next]_vars => [\A p \in Proc : Stable(p)]_vars
  BY <1>1
<1> QED BY <1>2, Invariance, PTL DEF Spec, DescriptorsStable
=============================================================================
