--------------------------- MODULE VfsCallProofs ----------------------------
(***************************************************************************)
(* The inductive invariant of Vfs, for every archive and any number of     *)
(* processes, and the proofs that fs_resolve_path and fs_open keep it.     *)
(***************************************************************************)
EXTENDS Vfs, TLAPS

Names == STRING \cup {"initcar"}   \* the provers do not know a literal to be a STRING
Subnodes == UNION {[X -> Nat] : X \in SUBSET Names}
NodeRec == [type : {"dir", "file"}, fs : {"rootfs", "initcar"}, exdata : Seq(Nat),
            subnodes : Subnodes, ref_count : Int, destroyed : BOOLEAN]
FrameRec == [path : Seq(STRING), i : Nat, base : Nat, file : Nat, new_file : Nat, fd : Nat, fcb : Nat]
Booting == {"ki_fs_init", "kh_initcar_init", "entries"}
KernelLabel == Booting \cup {"resolve", "open", "exec", "sched"}
ProcLabel == {"none", "idle", "resolve", "open", "ufcb", "read"}
Ptr == Node \cup {NULL}
Table == UNION {[X -> Nat] : X \in SUBSET (0 .. MaxFd)}

\* The values of the variables; every pointer is to a node there is.
Typed ==
    /\ archive \in Archives /\ p_cur \in Nat
    /\ fnodes \in Seq(NodeRec) /\ fcbs \in Seq(Nat) /\ \A i \in DOMAIN fcbs : fcbs[i] \in Ptr
    /\ pc \in [Actor -> KernelLabel \cup ProcLabel] /\ pc[KERNEL] \in KernelLabel
    /\ \A p \in Proc : pc[p] \in ProcLabel
    /\ frame \in [Actor -> FrameRec]
    /\ \A a \in Actor : frame[a].base \in Ptr /\ frame[a].file \in Ptr /\ frame[a].new_file \in Ptr
    /\ cur_dir \in [Proc -> Nat] /\ \A p \in Proc : cur_dir[p] \in Ptr
    /\ ufcb_set \in [Proc -> Table] /\ last_fd \in [Proc -> Nat] /\ used \in [Proc -> SUBSET Nat]
    /\ stop \in {"none", "panic", "fault"}

\* The tree: the root, the directory of the archive in it, and in that one the
\* entries of the archive so far, each with its data before those of the next.
Name(n) == archive.chain[n - CAR].name
Size(n) == archive.chain[n - CAR].size
FileNode(n) ==
    /\ n - CAR \in DOMAIN archive.chain /\ Name(n) # "END"
    /\ fnodes[n].type = "file" /\ fnodes[n].subnodes = << >> /\ fnodes[CAR].subnodes[Name(n)] = n
    /\ Len(fnodes[n].exdata) = 2 /\ fnodes[n].exdata[2] = Size(n)
    /\ fnodes[n].exdata[1] + Size(n) <= p_cur
Laid(m, n) == m < n => fnodes[m].exdata[1] + Size(m) <= fnodes[n].exdata[1]
Tree ==
    /\ pc[KERNEL] = "ki_fs_init" <=> Len(fnodes) = 0
    /\ pc[KERNEL] = "kh_initcar_init" <=> Len(fnodes) = 1
    /\ ROOT \in Node => fnodes[ROOT].type = "dir"
    /\ Len(fnodes) = 1 => fnodes[ROOT].subnodes = << >>
    /\ CAR \in Node => /\ fnodes[CAR].type = "dir"
                       /\ fnodes[ROOT].subnodes = [x \in {"initcar"} |-> CAR]
                       /\ DOMAIN fnodes[CAR].subnodes = {Name(n) : n \in Files}
    /\ \A n \in Files : FileNode(n)
    /\ \A m, n \in Files : Laid(m, n)
    /\ Mounted => Entry.name = "END" /\ p_cur + HEADER <= archive.size

\* What the frame of an actor holds where the actor is.
Frame(a) ==
    LET f == frame[a] IN
    /\ pc[a] \in Booting \cup {"none", "idle", "sched"} => f = Idle
    /\ stop = "none" =>
        /\ pc[a] = "resolve" => /\ f.i \in 1 .. Len(f.path)
                                /\ IF f.i = 1 THEN f.new_file = NULL
                                   ELSE f.new_file # NULL /\ f.file = f.new_file
        /\ pc[a] = "open" => f.file = NULL
        /\ pc[a] \in {"ufcb", "exec"} => f.file = NULL /\ f.new_file = NULL /\ f.fcb \in DOMAIN fcbs
        /\ pc[a] = "ufcb" => fcbs[f.fcb] # NULL
        /\ pc[a] = "read" => f.file # NULL /\ f.new_file = NULL /\ fnodes[f.file].type = "file"

\* Before the kernel has started the first program there is no process.
Alone == /\ pc[KERNEL] \in Booting => fcbs = << >>
         /\ pc[KERNEL] # "sched" => \A p \in Proc : pc[p] = "none" /\ cur_dir[p] = NULL /\ ufcb_set[p] = << >>

\* The descriptors of a process were given to it, are smaller than the next
\* one, and name open FCBs; the one a call is about to bind was not.
Descriptors(p) ==
    /\ DOMAIN ufcb_set[p] \subseteq used[p] /\ last_fd[p] <= MaxFd
    /\ \A fd \in used[p] : fd < last_fd[p]
    /\ \A fd \in DOMAIN ufcb_set[p] : ufcb_set[p][fd] \in DOMAIN fcbs /\ fcbs[ufcb_set[p][fd]] # NULL
    /\ pc[p] \in {"resolve", "open", "ufcb"} => frame[p].fd < last_fd[p] /\ frame[p].fd \notin used[p]

\* How many of the variables in f, over S, are pointers to n.
Count(S, f, n) == Cardinality({x \in S : f[x] = n})
Is(m, n) == IF m = n THEN 1 ELSE 0
FileOf == [a \in Actor |-> frame[a].file]
NewOf == [a \in Actor |-> frame[a].new_file]

\* The references to a node, given the tree: two to the directory of the
\* archive, one to every other node, and the pointers.
Held(n) == 1 + Is(n, CAR) + Count(DOMAIN fcbs, fcbs, n) + Count(Proc, cur_dir, n)
             + Count(Actor, FileOf, n) + Count(Actor, NewOf, n)
Counted == \A n \in Node : fnodes[n].ref_count = Held(n)

\* No node was ever destroyed.
NoneDestroyed == \A n \in Node : ~fnodes[n].destroyed

\* The inductive invariant.
Inv == /\ Typed /\ Tree /\ Alone /\ Counted /\ NoneDestroyed
       /\ \A a \in Actor : Frame(a)
       /\ \A p \in Proc : Descriptors(p)

-----------------------------------------------------------------------------
(* Finite sets.                                                            *)

\* What the counting rests on.  VfsProofs derives it from the library; as a
\* hypothesis it keeps the library out of the obligations of this module.
FiniteSetFacts ==
    /\ \A S : IsFiniteSet(S) => Cardinality(S) \in Nat /\ (Cardinality(S) = 0 <=> S = {})
    /\ \A S : IsFiniteSet(S) => \A T \in SUBSET S : IsFiniteSet(T)
    /\ \A S, x : IsFiniteSet(S) => /\ IsFiniteSet(S \cup {x})
                                   /\ x \notin S => Cardinality(S \cup {x}) = Cardinality(S) + 1
    /\ \A n \in Nat : IsFiniteSet(1 .. n)

\* The cardinality of a finite set is a number, zero for the empty set only.
LEMMA CardinalityFacts ==
    ASSUME FiniteSetFacts, NEW S, IsFiniteSet(S)
    PROVE  Cardinality(S) \in Nat /\ (Cardinality(S) = 0 <=> S = {})
BY DEF FiniteSetFacts

\* A subset of a finite set is finite.
LEMMA SubsetFinite == ASSUME FiniteSetFacts, NEW S, IsFiniteSet(S), NEW T \in SUBSET S PROVE IsFiniteSet(T)
BY DEF FiniteSetFacts

\* A new element counts one.
LEMMA ElementCounts ==
    ASSUME FiniteSetFacts, NEW S, IsFiniteSet(S), NEW x
    PROVE  IsFiniteSet(S \cup {x}) /\ (x \notin S => Cardinality(S \cup {x}) = Cardinality(S) + 1)
BY DEF FiniteSetFacts

\* The domain of a sequence is finite.
LEMMA IntervalFinite == ASSUME FiniteSetFacts, NEW n \in Nat PROVE IsFiniteSet(1 .. n)
BY DEF FiniteSetFacts

-----------------------------------------------------------------------------
(* Pointers.                                                               *)

\* A count of a finite set of pointers is a number, at least one where one of
\* them is to the node.
LEMMA CountNat ==
    ASSUME FiniteSetFacts, NEW S, IsFiniteSet(S), NEW f, NEW n
    PROVE  Count(S, f, n) \in Nat /\ \A x \in S : f[x] = n => Count(S, f, n) >= 1
<1> DEFINE A == {x \in S : f[x] = n}
<1>1. IsFiniteSet(A)
  BY SubsetFinite
<1>2. Cardinality(A) \in Nat
  BY <1>1, CardinalityFacts
<1>3. ASSUME NEW x \in S, f[x] = n PROVE Cardinality(A) # 0
  BY <1>1, <1>3, CardinalityFacts
<1> HIDE DEF A
<1>4. ASSUME NEW x \in S, f[x] = n PROVE Cardinality(A) >= 1
  BY <1>2, <1>3, <1>4
<1> QED BY <1>2, <1>4 DEF Count, A

\* A pointer that moves is counted where it goes and no more where it was.
Moved(S, f, g, x, n) == Count(S, g, n) = Count(S, f, n) - Is(f[x], n) + Is(g[x], n)

\* So it is where the pointer at x moves and no other does.
LEMMA CountMoves ==
    ASSUME FiniteSetFacts, NEW S, IsFiniteSet(S), NEW f, NEW g, NEW x \in S, \A y \in S \ {x} : g[y] = f[y], NEW n
    PROVE  Moved(S, f, g, x, n)
<1> DEFINE R == {y \in S \ {x} : f[y] = n}
<1>1. IsFiniteSet(R) /\ x \notin R
  BY SubsetFinite
<1>2. IsFiniteSet(R \cup {x}) /\ Cardinality(R \cup {x}) = Cardinality(R) + 1 /\ Cardinality(R) \in Nat
  BY <1>1, ElementCounts, CardinalityFacts, Zenon
<1>3. {y \in S : f[y] = n} = IF f[x] = n THEN R \cup {x} ELSE R
  OBVIOUS
<1>4. {y \in S : g[y] = n} = IF g[x] = n THEN R \cup {x} ELSE R
  OBVIOUS
<1>5. \A m : Cardinality(IF m = n THEN R \cup {x} ELSE R) = Cardinality(R) + Is(m, n)
  BY <1>2 DEF Is
<1>6. /\ Count(S, f, n) = Cardinality(R) + Is(f[x], n)
      /\ Count(S, g, n) = Cardinality(R) + Is(g[x], n)
  BY <1>3, <1>4, <1>5, Zenon DEF Count
<1> HIDE DEF R
<1>7. Is(f[x], n) \in Int /\ Is(g[x], n) \in Int
  BY DEF Is
<1> QED BY <1>2, <1>6, <1>7 DEF Moved

\* A pointer more at the end of a sequence.
LEMMA CountAppends ==
    ASSUME FiniteSetFacts, NEW s \in Seq(Nat), NEW m \in Nat, NEW n
    PROVE  Count(DOMAIN Append(s, m), Append(s, m), n) = Count(DOMAIN s, s, n) + Is(m, n)
<1> DEFINE e == Len(s) + 1  A == {i \in DOMAIN s : s[i] = n}
<1>1. /\ DOMAIN Append(s, m) = DOMAIN s \cup {e} /\ e \notin DOMAIN s /\ Append(s, m)[e] = m
      /\ \A i \in DOMAIN s : Append(s, m)[i] = s[i]
  OBVIOUS
<1>2. IsFiniteSet(DOMAIN s)
  <2>1. DOMAIN s = 1 .. Len(s) /\ Len(s) \in Nat
    OBVIOUS
  <2> QED BY <2>1, IntervalFinite
<1>3. IsFiniteSet(A) /\ e \notin A
  BY <1>1, <1>2, SubsetFinite
<1>4. Cardinality(A \cup {e}) = Cardinality(A) + 1 /\ Cardinality(A) \in Nat
  BY <1>3, ElementCounts, CardinalityFacts, Zenon
<1>5. {i \in DOMAIN Append(s, m) : Append(s, m)[i] = n} = IF m = n THEN A \cup {e} ELSE A
  BY <1>1
<1>6. Cardinality(IF m = n THEN A \cup {e} ELSE A) = Cardinality(A) + Is(m, n)
  BY <1>4 DEF Is
<1> QED BY <1>5, <1>6, Zenon DEF Count

-----------------------------------------------------------------------------
(* References.                                                             *)

\* Two sequences of nodes that differ in their counts only.
SameShape(N, M) ==
    /\ DOMAIN M = DOMAIN N /\ Len(M) = Len(N)
    /\ \A k \in DOMAIN N : /\ M[k].type = N[k].type /\ M[k].fs = N[k].fs
                           /\ M[k].exdata = N[k].exdata /\ M[k].subnodes = N[k].subnodes

\* A reference more, and nothing else.
LEMMA RefFacts ==
    ASSUME NEW N \in Seq(NodeRec), NEW n \in DOMAIN N
    PROVE  /\ Ref(N, n) \in Seq(NodeRec) /\ SameShape(N, Ref(N, n))
           /\ \A k \in DOMAIN N : /\ Ref(N, n)[k].ref_count = N[k].ref_count + Is(n, k)
                                  /\ Ref(N, n)[k].destroyed = N[k].destroyed
<1> DEFINE r == [N[n] EXCEPT !.ref_count = @ + 1]  M == Ref(N, n)
<1>1. N[n] \in NodeRec
  OBVIOUS
<1>2. r \in NodeRec /\ r.ref_count = N[n].ref_count + 1 /\ r.destroyed = N[n].destroyed
      /\ r.type = N[n].type /\ r.fs = N[n].fs /\ r.exdata = N[n].exdata /\ r.subnodes = N[n].subnodes
  <2>1. N[n].ref_count + 1 \in Int
    BY <1>1 DEF NodeRec
  <2> QED BY <1>1, <2>1, Zenon DEF NodeRec
<1>3. M = [N EXCEPT ![n] = r]
  BY DEF Ref
<1> HIDE DEF r, M
<1>4. M \in Seq(NodeRec) /\ DOMAIN M = DOMAIN N /\ Len(M) = Len(N) /\ M[n] = r
      /\ \A k \in DOMAIN N : k # n => M[k] = N[k]
  BY <1>2, <1>3
<1>5. \A k \in DOMAIN N : N[k] \in NodeRec
  OBVIOUS
<1>6. ASSUME NEW k \in DOMAIN N
      PROVE  M[k].ref_count = N[k].ref_count + Is(n, k) /\ M[k].destroyed = N[k].destroyed
  <2>1. N[k].ref_count \in Int
    BY <1>5 DEF NodeRec
  <2>2. CASE k = n
    BY <1>2, <1>4, <2>1, <2>2 DEF Is
  <2>3. CASE k # n
    BY <1>4, <2>1, <2>3 DEF Is
  <2> QED BY <2>2, <2>3
<1>7. SameShape(N, M)
  BY <1>2, <1>4 DEF SameShape
<1> QED BY <1>4, <1>6, <1>7 DEF M

\* A reference less; the node is destroyed where it was the last.
LEMMA UnrefFacts ==
    ASSUME NEW N \in Seq(NodeRec), NEW n \in DOMAIN N \cup {NULL}
    PROVE  /\ Unref(N, n) \in Seq(NodeRec) /\ SameShape(N, Unref(N, n))
           /\ \A k \in DOMAIN N : /\ Unref(N, n)[k].ref_count = N[k].ref_count - Is(n, k)
                                  /\ k # n \/ N[k].ref_count # 1
                                        => Unref(N, n)[k].destroyed = N[k].destroyed
<1>0. \A k \in DOMAIN N : N[k] \in NodeRec /\ k # NULL
  BY DEF NULL
<1>1. CASE n = NULL
  BY <1>0, <1>1 DEF Unref, SameShape, Is, NodeRec
<1>2. CASE n # NULL
  <2> DEFINE r == [N[n] EXCEPT !.ref_count = @ - 1, !.destroyed = @ \/ N[n].ref_count = 1]
             M == Unref(N, n)
  <2>1. n \in DOMAIN N /\ N[n] \in NodeRec
    BY <1>0, <1>2
  <2>2. r \in NodeRec /\ r.ref_count = N[n].ref_count - 1
        /\ (N[n].ref_count # 1 => r.destroyed = N[n].destroyed)
        /\ r.type = N[n].type /\ r.fs = N[n].fs /\ r.exdata = N[n].exdata /\ r.subnodes = N[n].subnodes
    <3>1. N[n].ref_count \in Int /\ N[n].ref_count - 1 \in Int /\ N[n].destroyed \in BOOLEAN
      BY <2>1 DEF NodeRec
    <3>2. (N[n].destroyed \/ N[n].ref_count = 1) \in BOOLEAN
      OBVIOUS
    <3>3. N[n].ref_count # 1 => (N[n].destroyed \/ N[n].ref_count = 1) = N[n].destroyed
      BY <3>1, Zenon
    <3> QED BY <2>1, <3>1, <3>2, <3>3, Zenon DEF NodeRec
  <2>3. M = [N EXCEPT ![n] = r]
    BY <1>2, <2>1, Zenon DEF Unref
  <2> HIDE DEF r, M
  <2>4. M \in Seq(NodeRec) /\ DOMAIN M = DOMAIN N /\ Len(M) = Len(N) /\ M[n] = r
        /\ \A k \in DOMAIN N : k # n => M[k] = N[k]
    BY <2>1, <2>2, <2>3
  <2>5. ASSUME NEW k \in DOMAIN N
        PROVE  /\ M[k].ref_count = N[k].ref_count - Is(n, k)
               /\ k # n \/ N[k].ref_count # 1 => M[k].destroyed = N[k].destroyed
    <3>1. N[k].ref_count \in Int
      BY <1>0 DEF NodeRec
    <3>2. CASE k = n
      BY <2>2, <2>4, <3>1, <3>2 DEF Is
    <3>3. CASE k # n
      BY <2>4, <3>1, <3>3 DEF Is
    <3> QED BY <3>2, <3>3
  <2>6. SameShape(N, M)
    BY <2>2, <2>4 DEF SameShape
  <2> QED BY <2>4, <2>5, <2>6 DEF M
<1> QED BY <1>1, <1>2

-----------------------------------------------------------------------------
(* What holds a node.                                                      *)

\* The sets of the holders are finite.
LEMMA Finite == ASSUME FiniteSetFacts, Typed PROVE IsFiniteSet(Actor) /\ IsFiniteSet(Proc) /\ IsFiniteSet(DOMAIN fcbs)
<1>1. IsFiniteSet(Actor)
  BY VfsAssumption, ElementCounts DEF Actor
<1>2. DOMAIN fcbs = 1 .. Len(fcbs) /\ Len(fcbs) \in Nat
  BY DEF Typed
<1>3. IsFiniteSet(DOMAIN fcbs)
  BY <1>2, IntervalFinite
<1> QED BY <1>1, <1>3, VfsAssumption

\* One where two nodes are the same.
LEMMA IsInt == \A m, n : Is(m, n) \in 0 .. 1 /\ (m = n => Is(m, n) = 1) /\ (m # n => Is(m, n) = 0)
BY DEF Is

\* A node is held at least once, and once more by every pointer to it.
LEMMA HeldBounds ==
    ASSUME FiniteSetFacts, Typed, NEW k
    PROVE  /\ Held(k) \in Nat /\ Held(k) >= 1
           /\ \A a \in Actor : Held(k) >= 1 + Is(frame[a].file, k) + Is(frame[a].new_file, k)
           /\ \A p \in Proc : Held(k) >= 1 + Is(cur_dir[p], k)
           /\ \A i \in DOMAIN fcbs : Held(k) >= 1 + Is(fcbs[i], k)
<1> DEFINE C1 == Count(DOMAIN fcbs, fcbs, k)  C2 == Count(Proc, cur_dir, k)
           C3 == Count(Actor, FileOf, k)  C4 == Count(Actor, NewOf, k)
<1>1. C1 \in Nat /\ C2 \in Nat /\ C3 \in Nat /\ C4 \in Nat
  BY Finite, CountNat
<1>2. \A i \in DOMAIN fcbs : C1 >= Is(fcbs[i], k)
  <2>1. \A i \in DOMAIN fcbs : fcbs[i] = k => C1 >= 1
    BY Finite, CountNat
  <2> QED BY <1>1, <2>1 DEF Is
<1>3. \A p \in Proc : C2 >= Is(cur_dir[p], k)
  <2>1. \A p \in Proc : cur_dir[p] = k => C2 >= 1
    BY Finite, CountNat
  <2> QED BY <1>1, <2>1 DEF Is
<1>4. \A a \in Actor : C3 >= Is(frame[a].file, k)
  <2>1. \A a \in Actor : FileOf[a] = k => C3 >= 1
    BY Finite, CountNat
  <2>2. \A a \in Actor : FileOf[a] = frame[a].file
    BY DEF FileOf
  <2> QED BY <1>1, <2>1, <2>2 DEF Is
<1>5. \A a \in Actor : C4 >= Is(frame[a].new_file, k)
  <2>1. \A a \in Actor : NewOf[a] = k => C4 >= 1
    BY Finite, CountNat
  <2>2. \A a \in Actor : NewOf[a] = frame[a].new_file
    BY DEF NewOf
  <2> QED BY <1>1, <2>1, <2>2 DEF Is
<1>6. Held(k) = 1 + Is(k, CAR) + C1 + C2 + C3 + C4
  BY DEF Held
<1>7. Is(k, CAR) \in Nat
  BY DEF Is
<1> HIDE DEF C1, C2, C3, C4
<1>8. \A m, n : Is(m, n) \in Nat
  BY DEF Is
<1>9. /\ \A a \in Actor : Is(frame[a].file, k) \in Nat /\ Is(frame[a].new_file, k) \in Nat
      /\ \A p \in Proc : Is(cur_dir[p], k) \in Nat
      /\ \A i \in DOMAIN fcbs : Is(fcbs[i], k) \in Nat
  BY <1>8
<1>10. Held(k) \in Nat /\ Held(k) >= 1
  BY <1>1, <1>6, <1>7
<1>11. \A a \in Actor : Held(k) >= 1 + Is(frame[a].file, k) + Is(frame[a].new_file, k)
  BY <1>1, <1>4, <1>5, <1>6, <1>7, <1>9
<1>12. \A p \in Proc : Held(k) >= 1 + Is(cur_dir[p], k)
  BY <1>1, <1>3, <1>6, <1>7, <1>9
<1>13. \A i \in DOMAIN fcbs : Held(k) >= 1 + Is(fcbs[i], k)
  BY <1>1, <1>2, <1>6, <1>7, <1>9
<1> QED BY <1>10, <1>11, <1>12, <1>13

\* How the pointers of the frames are counted after a step of one actor.
LEMMA FrameMoves ==
    ASSUME FiniteSetFacts, Typed, NEW a \in Actor, \A b \in Actor \ {a} : frame'[b] = frame[b], NEW k
    PROVE  /\ Count(Actor, FileOf', k)
                = Count(Actor, FileOf, k) - Is(frame[a].file, k) + Is(frame'[a].file, k)
           /\ Count(Actor, NewOf', k)
                = Count(Actor, NewOf, k) - Is(frame[a].new_file, k) + Is(frame'[a].new_file, k)
<1>0. IsFiniteSet(Actor)
  BY Finite
<1>1. \A b \in Actor : FileOf[b] = frame[b].file /\ NewOf[b] = frame[b].new_file
  BY DEF FileOf, NewOf
<1>2. \A b \in Actor : FileOf'[b] = frame'[b].file /\ NewOf'[b] = frame'[b].new_file
  BY DEF FileOf, NewOf
<1>3. \A b \in Actor \ {a} : FileOf'[b] = FileOf[b] /\ NewOf'[b] = NewOf[b]
  BY <1>1, <1>2
<1>4. Moved(Actor, FileOf, FileOf', a, k) /\ Moved(Actor, NewOf, NewOf', a, k)
  BY <1>0, <1>3, CountMoves
<1> QED BY <1>1, <1>2, <1>4 DEF Moved

\* A step that moves the pointers of one frame and counts them counts right.
LEMMA CountedMoves ==
    ASSUME FiniteSetFacts, Typed, Counted, NEW a \in Actor, \A b \in Actor \ {a} : frame'[b] = frame[b],
           UNCHANGED <<fcbs, cur_dir>>, fnodes \in Seq(NodeRec), DOMAIN fnodes' = DOMAIN fnodes,
           \A k \in Node : fnodes'[k].ref_count
                             = fnodes[k].ref_count - Is(frame[a].file, k) - Is(frame[a].new_file, k)
                               + Is(frame'[a].file, k) + Is(frame'[a].new_file, k)
    PROVE  Counted'
<1> SUFFICES ASSUME NEW k \in Node PROVE fnodes'[k].ref_count = Held(k)'
  BY DEF Counted, Node
<1> DEFINE C1 == Count(DOMAIN fcbs, fcbs, k)  C2 == Count(Proc, cur_dir, k)
           C3 == Count(Actor, FileOf, k)  C4 == Count(Actor, NewOf, k)
           o1 == Is(frame[a].file, k)  o2 == Is(frame[a].new_file, k)
           o3 == Is(frame'[a].file, k)  o4 == Is(frame'[a].new_file, k)  o5 == Is(k, CAR)
<1>1. C1 \in Nat /\ C2 \in Nat /\ C3 \in Nat /\ C4 \in Nat
  BY Finite, CountNat
<1>2. o1 \in Int /\ o2 \in Int /\ o3 \in Int /\ o4 \in Int /\ o5 \in Int
  BY SMTT(60) DEF Is
<1>3. Held(k)' = 1 + o5 + C1 + C2 + (C3 - o1 + o3) + (C4 - o2 + o4)
  <2>1. Count(Actor, FileOf', k) = C3 - o1 + o3 /\ Count(Actor, NewOf', k) = C4 - o2 + o4
    BY FrameMoves, Zenon
  <2> QED BY <2>1, Zenon DEF Held
<1>4. fnodes[k].ref_count = 1 + o5 + C1 + C2 + C3 + C4
  BY Zenon DEF Held, Counted
<1>5. fnodes'[k].ref_count = fnodes[k].ref_count - o1 - o2 + o3 + o4
  OBVIOUS
<1> HIDE DEF C1, C2, C3, C4, o1, o2, o3, o4, o5
<1> QED BY ONLY <1>1, <1>2, <1>3, <1>4, <1>5, SMTT(60)

-----------------------------------------------------------------------------
(* What the invariant means.                                               *)

\* Nodes are numbered from one.
LEMMA NodeNumbers ==
    ASSUME Typed
    PROVE  /\ Len(fnodes) \in Nat /\ Node = 1 .. Len(fnodes)
           /\ \A n : n \in Node <=> n \in Int /\ 1 <= n /\ n <= Len(fnodes)
<1>1. Len(fnodes) \in Nat /\ Node = 1 .. Len(fnodes)
  BY DEF Typed, Node
<1> QED BY <1>1

\* A node is a record.
LEMMA NodeTyped ==
    ASSUME Typed, NEW n \in Node
    PROVE  /\ fnodes[n] \in NodeRec /\ fnodes[n].ref_count \in Int /\ fnodes[n].type \in {"dir", "file"}
           /\ fnodes[n].subnodes \in Subnodes /\ fnodes[n].exdata \in Seq(Nat) /\ n # NULL
<1>1. fnodes[n] \in NodeRec
  BY DEF Typed, Node
<1>2. n # NULL
  BY NodeNumbers, SMTT(60) DEF NULL
<1> QED BY <1>1, <1>2 DEF NodeRec

\* The tree is a matter of the nodes, the archive and how far the kernel is.
LEMMA TreeSame ==
    ASSUME Tree, UNCHANGED <<archive, p_cur, fnodes>>, pc'[KERNEL] = pc[KERNEL]
    PROVE  Tree'
<1>1. Node' = Node /\ Files' = Files /\ Mounted' = Mounted /\ Entry' = Entry
  BY DEF Node, Files, Mounted, Entry
<1>2. \A n : Name(n)' = Name(n) /\ Size(n)' = Size(n)
  BY DEF Name, Size
<1>3. \A n \in Files : FileNode(n)'
  BY <1>2 DEF Tree, FileNode
<1>4. \A m, n \in Files : Laid(m, n)'
  BY <1>2 DEF Tree, Laid
<1>5. {Name(n) : n \in Files}' = {Name(n) : n \in Files}
  BY <1>1, <1>2
<1> QED BY <1>1, <1>3, <1>4, <1>5 DEF Tree

\* The tree does not change where only counts do.
LEMMA TreeStays ==
    ASSUME Typed, Tree, SameShape(fnodes, fnodes'), UNCHANGED <<archive, p_cur>>,
           pc[KERNEL] \notin {"ki_fs_init", "kh_initcar_init"},
           pc'[KERNEL] \notin {"ki_fs_init", "kh_initcar_init"},
           Mounted' => Entry.name = "END" /\ p_cur + HEADER <= archive.size
    PROVE  Tree'
<1>1. Node' = Node /\ Files' = Files /\ Len(fnodes') = Len(fnodes)
  BY DEF SameShape, Node, Files
<1>2. pc'[KERNEL] \notin {"ki_fs_init", "kh_initcar_init"} /\ Len(fnodes) \notin {0, 1}
  BY DEF Tree
<1>3. Entry' = Entry
  BY <1>1 DEF Entry
<1>4. \A n \in Files : n \in Node /\ n # ROOT /\ n # CAR
  BY DEF Files
<1>5. CAR \in Node /\ ROOT \in Node
  <2>1. Len(fnodes) \in Nat /\ Len(fnodes) # 0 /\ Len(fnodes) # 1
    BY <1>2, NodeNumbers
  <2>2. Len(fnodes) >= 2
    <3>1. \A l \in Nat : l # 0 /\ l # 1 => l >= 2
      BY SMTT(60)
    <3> QED BY <2>1, <3>1, Zenon
  <2> QED BY <2>1, <2>2, NodeNumbers DEF CAR, ROOT
<1>6. \A n \in Files : FileNode(n)'
  <2>1. \A n \in Files : FileNode(n)
    BY DEF Tree
  <2> QED BY <1>4, <1>5, <2>1, SMTT(60) DEF FileNode, SameShape, Node, Name, Size
<1>7. \A m, n \in Files : Laid(m, n)'
  <2>1. \A m, n \in Files : Laid(m, n)
    BY DEF Tree
  <2> QED BY <1>4, <2>1, Zenon DEF Laid, SameShape, Node, Size
<1>8. {Name(n) : n \in Files}' = {Name(n) : n \in Files}
  BY <1>1 DEF Name
<1>9. /\ fnodes'[ROOT].type = fnodes[ROOT].type /\ fnodes'[ROOT].subnodes = fnodes[ROOT].subnodes
      /\ fnodes'[CAR].type = fnodes[CAR].type /\ fnodes'[CAR].subnodes = fnodes[CAR].subnodes
  BY <1>5, ZenonT(60) DEF SameShape, Node
<1> QED BY <1>1, <1>2, <1>3, <1>5, <1>6, <1>7, <1>8, <1>9, Zenon DEF Tree

\* The same once the archive is mounted.
LEMMA TreeKept ==
    ASSUME Typed, Tree, SameShape(fnodes, fnodes'), UNCHANGED <<archive, p_cur>>, Mounted, Mounted'
    PROVE  Tree'
BY TreeStays, Zenon DEF Tree, Mounted

-----------------------------------------------------------------------------
(* The steps.                                                              *)

\* The frame of an actor that is in no call.
LEMMA IdleTyped == /\ Idle \in FrameRec /\ Idle.base = NULL /\ Idle.file = NULL /\ Idle.new_file = NULL
                   /\ << >> \in Seq(STRING)
BY DEF Idle, FrameRec, NULL

\* A stopped kernel leaves everything as it is.
LEMMA StopInv == ASSUME Inv, NEW why \in {"panic", "fault"}, Stop(why) PROVE Inv'
<1>1. UNCHANGED <<archive, p_cur, fnodes, fcbs, pc, frame, cur_dir, ufcb_set, last_fd, used>> /\ stop' = why
  BY DEF Stop, proc
<1>2. Node' = Node /\ Files' = Files /\ Ptr' = Ptr
  BY <1>1, Zenon DEF Node, Files, Ptr
<1>3. Typed'
  BY <1>1, <1>2 DEF Inv, Typed
<1>4. Tree'
  BY <1>1, TreeSame, Zenon DEF Inv
<1>5. Alone' /\ NoneDestroyed'
  BY <1>1, <1>2 DEF Inv, Alone, NoneDestroyed
<1>6. Counted'
  BY <1>1, <1>2, Zenon DEF Inv, Counted, Held, FileOf, NewOf
<1>7. \A a \in Actor : Frame(a)'
  BY <1>1, Zenon DEF Inv, Frame
<1>8. \A p \in Proc : Descriptors(p)'
  BY <1>1 DEF Inv, Descriptors
<1> QED BY <1>3, <1>4, <1>5, <1>6, <1>7, <1>8 DEF Inv

\* An actor in a call has the archive mounted; a process, the kernel started.
LEMMA Booted ==
    ASSUME Inv, NEW a \in Actor, pc[a] \notin Booting \cup {"none"}
    PROVE  Mounted /\ (a \in Proc => pc[KERNEL] = "sched") /\ (a # KERNEL => a \in Proc)
BY Zenon DEF Inv, Alone, Mounted, Booting, Actor

\* What a frame holds stays so while others step.
LEMMA FrameKept ==
    ASSUME Typed, NEW b \in Actor, Frame(b), frame'[b] = frame[b], pc'[b] = pc[b],
           stop' = "none" => stop = "none", SameShape(fnodes, fnodes'),
           \A i \in DOMAIN fcbs : i \in DOMAIN fcbs' /\ fcbs'[i] = fcbs[i]
    PROVE  Frame(b)'
<1>1. frame[b].file # NULL => fnodes'[frame[b].file].type = fnodes[frame[b].file].type
  BY Zenon DEF Typed, Ptr, Node, SameShape
<1> QED BY <1>1, Zenon DEF Frame

\* Descriptors stay as they are while other processes step.
LEMMA DescriptorsKept ==
    ASSUME NEW p \in Proc, Descriptors(p), ufcb_set'[p] = ufcb_set[p], last_fd'[p] = last_fd[p],
           used'[p] = used[p], frame'[p] = frame[p], pc'[p] = pc[p],
           \A i \in DOMAIN fcbs : i \in DOMAIN fcbs' /\ fcbs'[i] = fcbs[i]
    PROVE  Descriptors(p)'
BY Zenon DEF Descriptors

\* A step of a call that moves counted pointers of its frame keeps the
\* invariant if its own frame and descriptors are in order after it.
LEMMA CallStep ==
    ASSUME FiniteSetFacts, Inv, NEW a \in Actor, pc[a] \notin Booting \cup {"none", "sched"},
           UNCHANGED <<archive, p_cur, fcbs, cur_dir>>,
           fnodes' \in Seq(NodeRec), SameShape(fnodes, fnodes'),
           \A k \in Node : /\ ~fnodes'[k].destroyed
                           /\ fnodes'[k].ref_count
                                = fnodes[k].ref_count - Is(frame[a].file, k) - Is(frame[a].new_file, k)
                                  + Is(frame'[a].file, k) + Is(frame'[a].new_file, k),
           frame' \in [Actor -> FrameRec], \A b \in Actor \ {a} : frame'[b] = frame[b],
           frame'[a].base \in Ptr, frame'[a].file \in Ptr, frame'[a].new_file \in Ptr,
           pc' \in [Actor -> KernelLabel \cup ProcLabel], \A b \in Actor \ {a} : pc'[b] = pc[b],
           a = KERNEL => pc'[a] \in {"resolve", "open"}, a # KERNEL => pc'[a] \in ProcLabel,
           stop' \in {"none", "panic", "fault"}, stop' = "none" => stop = "none",
           ufcb_set' \in [Proc -> Table], last_fd' \in [Proc -> Nat], used' \in [Proc -> SUBSET Nat],
           \A p \in Proc \ {a} : ufcb_set'[p] = ufcb_set[p] /\ last_fd'[p] = last_fd[p] /\ used'[p] = used[p],
           Frame(a)', a \in Proc => Descriptors(a)'
    PROVE  Inv'
<1>1. Node' = Node /\ Ptr' = Ptr
  BY Zenon DEF SameShape, Node, Ptr
<1>2. KERNEL \in Actor /\ Proc \subseteq Actor /\ KERNEL \notin Proc
  BY VfsAssumption, Zenon DEF Actor
<1>3. Mounted /\ (a \in Proc => pc[KERNEL] = "sched") /\ (a # KERNEL => a \in Proc)
  BY Booted, Zenon
<1>4. pc'[KERNEL] = pc[KERNEL] \/ (a = KERNEL /\ pc'[KERNEL] \in {"resolve", "open"})
  <2>1. CASE a = KERNEL
    BY <2>1
  <2>2. CASE a # KERNEL
    <3>1. KERNEL \in Actor \ {a}
      BY <1>2, <2>2
    <3>2. pc'[KERNEL] = pc[KERNEL]
      BY <3>1, Zenon
    <3> QED BY <3>2, ZenonT(60)
  <2> QED BY <2>1, <2>2, Zenon
<1>5. Typed'
  <2>1. pc'[KERNEL] \in KernelLabel /\ \A p \in Proc : pc'[p] \in ProcLabel
    <3>1. pc[KERNEL] \in KernelLabel /\ \A p \in Proc : pc[p] \in ProcLabel
      BY Zenon DEF Inv, Typed
    <3>2. pc'[KERNEL] \in KernelLabel
      BY <1>4, <3>1, ZenonT(60) DEF KernelLabel
    <3>3. ASSUME NEW p \in Proc PROVE pc'[p] \in ProcLabel
      BY <1>2, <3>1, SMTT(60)
    <3> QED BY <3>2, <3>3, Zenon
  <2>2. \A b \in Actor : frame'[b].base \in Ptr' /\ frame'[b].file \in Ptr' /\ frame'[b].new_file \in Ptr'
    BY <1>1, Zenon DEF Inv, Typed
  <2> QED BY <1>1, <2>1, <2>2, ZenonT(60) DEF Inv, Typed
<1>6. Tree'
  <2>1. Mounted'
    BY <1>3, <1>4, Zenon DEF Mounted
  <2> QED BY <1>3, <2>1, TreeKept, Zenon DEF Inv
<1>7. Alone'
  <2>1. pc'[KERNEL] \notin Booting
    BY <1>3, <1>4, Zenon DEF Mounted, Booting
  <2>2. ASSUME pc'[KERNEL] # "sched" PROVE a = KERNEL /\ pc[KERNEL] # "sched"
    BY <1>2, <1>3, <1>4, <2>2, Zenon
  <2>3. ASSUME a = KERNEL, pc[KERNEL] # "sched", NEW p \in Proc
        PROVE  pc'[p] = "none" /\ cur_dir'[p] = NULL /\ ufcb_set'[p] = << >>
    BY <1>2, <2>3, ZenonT(60) DEF Inv, Alone
  <2> QED BY <2>1, <2>2, <2>3, Zenon DEF Alone
<1>8. Counted'
  <2>1. Typed /\ Counted /\ fnodes \in Seq(NodeRec) /\ DOMAIN fnodes' = DOMAIN fnodes
    BY Zenon DEF Inv, Typed, SameShape
  <2> QED BY <2>1, CountedMoves, Zenon
<1>9. NoneDestroyed'
  BY <1>1, Zenon DEF NoneDestroyed
<1>10. \A b \in Actor : Frame(b)'
  <2>1. ASSUME NEW b \in Actor, b # a PROVE Frame(b)'
    BY <2>1, FrameKept, ZenonT(60) DEF Inv
  <2> QED BY <2>1, Zenon
<1>11. \A p \in Proc : Descriptors(p)'
  <2>1. ASSUME NEW p \in Proc, p # a PROVE Descriptors(p)'
    BY <1>2, <2>1, DescriptorsKept, Zenon DEF Inv
  <2> QED BY <2>1
<1> QED BY <1>5, <1>6, <1>7, <1>8, <1>9, <1>10, <1>11, Zenon DEF Inv

\* A call that fails gives up what its frame holds.
LEMMA FailsInv ==
    ASSUME FiniteSetFacts, Inv, Running, NEW a \in Actor, pc[a] \in {"resolve", "open"}, NEW N, Fails(a, N),
           N \in Seq(NodeRec), SameShape(fnodes, N),
           \A k \in Node : /\ ~N[k].destroyed
                           /\ N[k].ref_count = fnodes[k].ref_count
                                               - Is(frame[a].file, k) - Is(frame[a].new_file, k)
    PROVE  Inv'
<1>1. /\ fnodes' = N /\ frame' = [frame EXCEPT ![a] = Idle]
      /\ UNCHANGED <<archive, p_cur, fcbs, cur_dir, ufcb_set, last_fd, used>>
      /\ a = KERNEL => stop' = "panic" /\ pc' = pc
      /\ a # KERNEL => stop' = stop /\ pc' = [pc EXCEPT ![a] = "idle"]
  BY DEF Fails, Goto, proc
<1>2. /\ frame \in [Actor -> FrameRec] /\ pc \in [Actor -> KernelLabel \cup ProcLabel]
      /\ stop \in {"none", "panic", "fault"}
      /\ ufcb_set \in [Proc -> Table] /\ last_fd \in [Proc -> Nat] /\ used \in [Proc -> SUBSET Nat]
  BY ZenonT(60) DEF Inv, Typed
<1>3. /\ frame' \in [Actor -> FrameRec] /\ frame'[a] = Idle /\ \A b \in Actor \ {a} : frame'[b] = frame[b]
  BY <1>1, <1>2, IdleTyped, Zenon
<1>4. /\ frame'[a].base \in Ptr /\ frame'[a].file \in Ptr /\ frame'[a].new_file \in Ptr
      /\ frame'[a].file = NULL /\ frame'[a].new_file = NULL
  BY <1>3, IdleTyped, Zenon DEF Ptr
<1>5. /\ pc' \in [Actor -> KernelLabel \cup ProcLabel] /\ \A b \in Actor \ {a} : pc'[b] = pc[b]
      /\ a = KERNEL => pc'[a] \in {"resolve", "open"} /\ stop' = "panic"
      /\ a # KERNEL => pc'[a] = "idle" /\ stop' = stop
  <2>1. "idle" \in ProcLabel
    BY Zenon DEF ProcLabel
  <2> QED BY <1>1, <1>2, <2>1, Zenon
<1>6. \A k \in Node : /\ ~fnodes'[k].destroyed
                      /\ fnodes'[k].ref_count
                            = fnodes[k].ref_count - Is(frame[a].file, k) - Is(frame[a].new_file, k)
                              + Is(frame'[a].file, k) + Is(frame'[a].new_file, k)
  <2> SUFFICES ASSUME NEW k \in Node
               PROVE  /\ ~N[k].destroyed
                      /\ N[k].ref_count
                            = fnodes[k].ref_count - Is(frame[a].file, k) - Is(frame[a].new_file, k)
                              + Is(frame'[a].file, k) + Is(frame'[a].new_file, k)
    BY <1>1, Zenon
  <2>1. Is(frame'[a].file, k) = 0 /\ Is(frame'[a].new_file, k) = 0
    <3>1. k # NULL
      BY NodeNumbers DEF Inv, NULL
    <3> QED BY <1>4, <3>1, Zenon DEF Is
  <2>2. Is(frame[a].file, k) \in Int /\ Is(frame[a].new_file, k) \in Int
    BY SMTT(60) DEF Is
  <2>3. fnodes[k].ref_count \in Int
    BY NodeTyped, Zenon DEF Inv
  <2> QED BY <2>1, <2>2, <2>3, SMTT(60)
<1>7. Frame(a)'
  BY <1>3, <1>5, Zenon DEF Frame, Booting
<1>8. a \in Proc => Descriptors(a)'
  <2>1. a \in Proc => a # KERNEL
    BY VfsAssumption
  <2> QED BY <1>1, <1>5, <2>1, Zenon DEF Inv, Descriptors
<1>9. pc[a] \notin Booting \cup {"none", "sched"}
  BY Zenon DEF Booting
<1>10. /\ stop' \in {"none", "panic", "fault"} /\ (stop' = "none" => stop = "none")
       /\ a = KERNEL => pc'[a] \in {"resolve", "open"}
       /\ a # KERNEL => pc'[a] \in ProcLabel
  BY <1>2, <1>5, Zenon DEF ProcLabel
<1>11. /\ UNCHANGED <<archive, p_cur, fcbs, cur_dir>>
       /\ fnodes' \in Seq(NodeRec) /\ SameShape(fnodes, fnodes')
       /\ ufcb_set' \in [Proc -> Table] /\ last_fd' \in [Proc -> Nat] /\ used' \in [Proc -> SUBSET Nat]
       /\ \A p \in Proc \ {a} : ufcb_set'[p] = ufcb_set[p] /\ last_fd'[p] = last_fd[p] /\ used'[p] = used[p]
  BY <1>1, <1>2, Zenon
<1> QED BY <1>3, <1>4, <1>5, <1>6, <1>7, <1>8, <1>9, <1>10, <1>11, CallStep, ZenonT(60)

\* Two changes of counts are one.
LEMMA ShapeTrans == \A N, M, P : SameShape(N, M) /\ SameShape(M, P) => SameShape(N, P)
BY SMTT(60) DEF SameShape

\* A pointer of a frame is counted on top of what the tree holds.
LEMMA FrameHolds ==
    ASSUME FiniteSetFacts, Inv, NEW a \in Actor, NEW k \in Node
    PROVE  /\ fnodes[k].ref_count \in Int
           /\ fnodes[k].ref_count >= 1 + Is(frame[a].file, k) + Is(frame[a].new_file, k)
BY HeldBounds, NodeTyped DEF Inv, Counted

\* The loop of fs_resolve_path goes on: new_file has been moved to n already,
\* file follows.
LEMMA DescendInv ==
    ASSUME FiniteSetFacts, Inv, Running, NEW a \in Actor, pc[a] = "resolve", NEW N, NEW n \in Node,
           Descend(a, N, frame[a], n), frame[a].i # Len(frame[a].path),
           N \in Seq(NodeRec), SameShape(fnodes, N),
           \A k \in Node : /\ ~N[k].destroyed
                           /\ N[k].ref_count = fnodes[k].ref_count - Is(frame[a].new_file, k) + Is(n, k)
    PROVE  Inv'
<1> DEFINE f == frame[a]  M == Unref(N, f.file)  g == [f EXCEPT !.new_file = n, !.file = n, !.i = @ + 1]
<1>1. /\ fnodes' = Ref(M, n) /\ frame' = [frame EXCEPT ![a] = g]
      /\ UNCHANGED <<archive, p_cur, fcbs, pc, cur_dir, ufcb_set, last_fd, used, stop>>
  BY ZenonT(60) DEF Descend, proc
<1>2. /\ frame \in [Actor -> FrameRec] /\ pc \in [Actor -> KernelLabel \cup ProcLabel]
      /\ stop \in {"none", "panic", "fault"} /\ f.file \in Ptr /\ f.base \in Ptr
      /\ ufcb_set \in [Proc -> Table] /\ last_fd \in [Proc -> Nat] /\ used \in [Proc -> SUBSET Nat]
  BY Zenon DEF Inv, Typed
<1>3. f \in FrameRec /\ n \in Nat /\ n # NULL /\ n \in Ptr
  BY <1>2, NodeNumbers DEF Inv, NULL, Ptr
<1>4. /\ g \in FrameRec /\ g.path = f.path /\ g.i = f.i + 1 /\ g.base = f.base /\ g.file = n /\ g.new_file = n
      /\ g.fd = f.fd /\ f.i \in Nat /\ Len(f.path) \in Nat
  <2>1. f.i \in Nat /\ f.path \in Seq(STRING) /\ f.i + 1 \in Nat
    BY ONLY <1>3, SMTT(60) DEF FrameRec
  <2>2. Len(f.path) \in Nat
    BY <2>1
  <2> QED BY <1>3, <2>1, <2>2, Zenon DEF FrameRec
<1>5. frame' \in [Actor -> FrameRec] /\ frame'[a] = g /\ \A b \in Actor \ {a} : frame'[b] = frame[b]
  BY <1>1, <1>2, <1>4, Zenon
<1>6. DOMAIN N = Node /\ f.file \in DOMAIN N \cup {NULL} /\ n \in DOMAIN N
  BY <1>2, Zenon DEF SameShape, Node, Ptr
<1>7. /\ M \in Seq(NodeRec) /\ SameShape(N, M)
      /\ \A k \in Node : /\ M[k].ref_count = N[k].ref_count - Is(f.file, k)
                         /\ k # f.file \/ N[k].ref_count # 1 => M[k].destroyed = N[k].destroyed
  BY <1>6, UnrefFacts, Zenon
<1>8. DOMAIN M = Node
  BY <1>6, <1>7, Zenon DEF SameShape
<1> HIDE DEF M, g, f
<1>9. /\ fnodes' \in Seq(NodeRec) /\ SameShape(M, fnodes')
      /\ \A k \in Node : fnodes'[k].ref_count = M[k].ref_count + Is(n, k) /\ fnodes'[k].destroyed = M[k].destroyed
  BY <1>1, <1>7, <1>8, RefFacts, Zenon
<1>10. SameShape(fnodes, fnodes')
  BY <1>7, <1>9, ShapeTrans, Zenon
<1>11. \A k \in Node : /\ ~fnodes'[k].destroyed
                       /\ fnodes'[k].ref_count
                            = fnodes[k].ref_count - Is(frame[a].file, k) - Is(frame[a].new_file, k)
                              + Is(frame'[a].file, k) + Is(frame'[a].new_file, k)
  <2> SUFFICES ASSUME NEW k \in Node
               PROVE  /\ ~fnodes'[k].destroyed
                      /\ fnodes'[k].ref_count
                            = fnodes[k].ref_count - Is(frame[a].file, k) - Is(frame[a].new_file, k)
                              + Is(frame'[a].file, k) + Is(frame'[a].new_file, k)
    BY Zenon
  <2> DEFINE r == fnodes[k].ref_count  o == Is(frame[a].file, k)  w == Is(frame[a].new_file, k)
             m == Is(n, k)
  <2>1. r \in Int /\ r >= 1 + o + w /\ o \in 0 .. 1 /\ w \in 0 .. 1 /\ m \in 0 .. 1
    BY FrameHolds, IsInt, Zenon
  <2>2. N[k].ref_count = r - w + m /\ Is(f.file, k) = o /\ Is(n, k) = m
    BY Zenon DEF Is, f
  <2>3. Is(frame'[a].file, k) = m /\ Is(frame'[a].new_file, k) = m
    BY <1>4, <1>5, Zenon
  <2>4. k = f.file => o = 1
    BY Zenon DEF Is, f
  <2> HIDE DEF r, o, w, m
  <2>5. k = f.file => N[k].ref_count # 1
    BY ONLY <2>1, <2>2, <2>4, SMTT(60)
  <2>6. ~fnodes'[k].destroyed
    BY <1>7, <1>9, <2>5, Zenon
  <2>7. fnodes'[k].ref_count = r - w + m - o + m
    <3>1. fnodes'[k].ref_count = M[k].ref_count + Is(n, k)
      BY <1>9, Zenon
    <3>2. M[k].ref_count = N[k].ref_count - Is(f.file, k)
      BY <1>7, ZenonT(60)
    <3>3. M[k].ref_count = r - w + m - o
      BY ONLY <2>1, <2>2, <3>2, SMTT(60)
    <3> QED BY <2>2, <3>1, <3>3
  <2>8. fnodes'[k].ref_count = r - o - w + m + m
    BY <2>1, <2>7
  <2> QED BY <2>3, <2>6, <2>8, Zenon DEF r, o, w
<1>12. Frame(a)'
  <2>1. f.i \in 1 .. Len(f.path) /\ f.i # Len(f.path)
    BY Zenon DEF Inv, Frame, Running, f
  <2>2. g.i \in 1 .. Len(g.path) /\ g.i # 1
    BY ONLY <1>4, <2>1, SMTT(60)
  <2>3. pc'[a] = "resolve"
    BY <1>1
  <2> QED BY <1>3, <1>4, <1>5, <2>2, <2>3, Zenon DEF Frame, Booting
<1>13. a \in Proc => Descriptors(a)'
  BY <1>1, <1>4, <1>5, ZenonT(60) DEF Inv, Descriptors, f
<1>14. /\ pc[a] \notin Booting \cup {"none", "sched"}
       /\ frame'[a].base \in Ptr /\ frame'[a].file \in Ptr /\ frame'[a].new_file \in Ptr
  BY <1>2, <1>3, <1>4, <1>5, Zenon DEF Booting
<1>15. /\ stop' \in {"none", "panic", "fault"} /\ (stop' = "none" => stop = "none")
       /\ a = KERNEL => pc'[a] \in {"resolve", "open"}
       /\ a # KERNEL => pc'[a] \in ProcLabel
       /\ pc' \in [Actor -> KernelLabel \cup ProcLabel] /\ \A b \in Actor \ {a} : pc'[b] = pc[b]
  BY <1>1, <1>2, ZenonT(60) DEF ProcLabel
<1>16. /\ UNCHANGED <<archive, p_cur, fcbs, cur_dir>>
       /\ ufcb_set' \in [Proc -> Table] /\ last_fd' \in [Proc -> Nat] /\ used' \in [Proc -> SUBSET Nat]
       /\ \A p \in Proc \ {a} : ufcb_set'[p] = ufcb_set[p] /\ last_fd'[p] = last_fd[p] /\ used'[p] = used[p]
  BY <1>1, <1>2
<1> QED BY <1>5, <1>9, <1>10, <1>11, <1>12, <1>13, <1>14, <1>15, <1>16, CallStep, Zenon

\* The loop of fs_resolve_path ends: new_file has been moved to n already, file
\* goes.
LEMMA ResolvedInv ==
    ASSUME FiniteSetFacts, Inv, Running, NEW a \in Actor, pc[a] = "resolve", NEW N, NEW n \in Ptr,
           Resolved(a, N, frame[a], n),
           N \in Seq(NodeRec), SameShape(fnodes, N),
           \A k \in Node : /\ ~N[k].destroyed
                           /\ N[k].ref_count = fnodes[k].ref_count - Is(frame[a].new_file, k) + Is(n, k)
    PROVE  Inv'
<1> DEFINE f == frame[a]  M == Unref(N, f.file)  g == [f EXCEPT !.new_file = n, !.file = NULL]
<1>1. /\ fnodes' = M /\ frame' = [frame EXCEPT ![a] = g] /\ pc' = [pc EXCEPT ![a] = "open"]
      /\ UNCHANGED <<archive, p_cur, fcbs, cur_dir, ufcb_set, last_fd, used, stop>>
  BY Zenon DEF Resolved, Goto, proc
<1>2. /\ frame \in [Actor -> FrameRec] /\ pc \in [Actor -> KernelLabel \cup ProcLabel]
      /\ stop \in {"none", "panic", "fault"} /\ f.file \in Ptr /\ f.base \in Ptr
      /\ ufcb_set \in [Proc -> Table] /\ last_fd \in [Proc -> Nat] /\ used \in [Proc -> SUBSET Nat]
  BY Zenon DEF Inv, Typed
<1>3. f \in FrameRec /\ n \in Nat /\ NULL \in Nat
  BY <1>2, NodeNumbers DEF Inv, NULL, Ptr
<1>4. /\ g \in FrameRec /\ g.base = f.base /\ g.file = NULL /\ g.new_file = n /\ g.fd = f.fd
  BY <1>3, Zenon DEF FrameRec
<1>5. frame' \in [Actor -> FrameRec] /\ frame'[a] = g /\ \A b \in Actor \ {a} : frame'[b] = frame[b]
  BY <1>1, <1>2, <1>4, Zenon
<1>6. DOMAIN N = Node /\ f.file \in DOMAIN N \cup {NULL}
  BY <1>2, ZenonT(60) DEF SameShape, Node, Ptr
<1>7. /\ M \in Seq(NodeRec) /\ SameShape(N, M)
      /\ \A k \in Node : /\ M[k].ref_count = N[k].ref_count - Is(f.file, k)
                         /\ k # f.file \/ N[k].ref_count # 1 => M[k].destroyed = N[k].destroyed
  BY <1>6, UnrefFacts, Zenon
<1> HIDE DEF M, g, f
<1>10. fnodes' \in Seq(NodeRec) /\ SameShape(fnodes, fnodes')
  BY <1>1, <1>7, ShapeTrans, Zenon
<1>11. \A k \in Node : /\ ~fnodes'[k].destroyed
                       /\ fnodes'[k].ref_count
                            = fnodes[k].ref_count - Is(frame[a].file, k) - Is(frame[a].new_file, k)
                              + Is(frame'[a].file, k) + Is(frame'[a].new_file, k)
  <2> SUFFICES ASSUME NEW k \in Node
               PROVE  /\ ~fnodes'[k].destroyed
                      /\ fnodes'[k].ref_count
                            = fnodes[k].ref_count - Is(frame[a].file, k) - Is(frame[a].new_file, k)
                              + Is(frame'[a].file, k) + Is(frame'[a].new_file, k)
    BY Zenon
  <2> DEFINE r == fnodes[k].ref_count  o == Is(frame[a].file, k)  w == Is(frame[a].new_file, k)
             m == Is(n, k)
  <2>1. r \in Int /\ r >= 1 + o + w /\ o \in 0 .. 1 /\ w \in 0 .. 1 /\ m \in 0 .. 1
    BY FrameHolds, IsInt, Zenon
  <2>2. N[k].ref_count = r - w + m /\ Is(f.file, k) = o
    BY Zenon DEF Is, f
  <2>3. Is(frame'[a].file, k) = 0 /\ Is(frame'[a].new_file, k) = m
    <3>1. k # NULL
      BY NodeTyped, Zenon DEF Inv
    <3> QED BY <1>4, <1>5, <3>1, Zenon DEF Is
  <2>4. k = f.file => o = 1
    BY ZenonT(60) DEF Is, f
  <2> HIDE DEF r, o, w, m
  <2>5. k = f.file => N[k].ref_count # 1
    BY ONLY <2>1, <2>2, <2>4, SMTT(60)
  <2>6. ~fnodes'[k].destroyed
    BY <1>1, <1>7, <2>5, Zenon
  <2>7. fnodes'[k].ref_count = r - o - w + 0 + m
    <3>1. fnodes'[k].ref_count = N[k].ref_count - Is(f.file, k)
      BY <1>1, <1>7, Zenon
    <3> QED BY ONLY <2>1, <2>2, <3>1, SMTT(60)
  <2> QED BY <2>3, <2>6, <2>7, ZenonT(60) DEF r, o, w
<1>12. Frame(a)'
  <2>1. pc'[a] = "open"
    BY <1>1, <1>2, ZenonT(60)
  <2> QED BY <1>4, <1>5, <2>1, ZenonT(60) DEF Frame, Booting
<1>13. a \in Proc => Descriptors(a)'
  <2>1. pc'[a] = "open" /\ frame'[a].fd = frame[a].fd
    BY <1>1, <1>2, <1>4, <1>5, ZenonT(60) DEF f
  <2> QED BY <1>1, <2>1, Zenon DEF Inv, Descriptors
<1>14. /\ pc[a] \notin Booting \cup {"none", "sched"}
       /\ frame'[a].base \in Ptr /\ frame'[a].file \in Ptr /\ frame'[a].new_file \in Ptr
  BY <1>2, <1>4, <1>5, Zenon DEF Booting, Ptr
<1>15. /\ stop' \in {"none", "panic", "fault"} /\ (stop' = "none" => stop = "none")
       /\ a = KERNEL => pc'[a] \in {"resolve", "open"}
       /\ a # KERNEL => pc'[a] \in ProcLabel
       /\ pc' \in [Actor -> KernelLabel \cup ProcLabel] /\ \A b \in Actor \ {a} : pc'[b] = pc[b]
  <2>1. "open" \in ProcLabel
    BY DEF ProcLabel
  <2> QED BY <1>1, <1>2, <2>1, Zenon
<1>16. /\ UNCHANGED <<archive, p_cur, fcbs, cur_dir>>
       /\ ufcb_set' \in [Proc -> Table] /\ last_fd' \in [Proc -> Nat] /\ used' \in [Proc -> SUBSET Nat]
       /\ \A p \in Proc \ {a} : ufcb_set'[p] = ufcb_set[p] /\ last_fd'[p] = last_fd[p] /\ used'[p] = used[p]
  BY <1>1, <1>2, Zenon
<1> QED BY <1>5, <1>10, <1>11, <1>12, <1>13, <1>14, <1>15, <1>16, CallStep, Zenon

\* The child of a node is a node.
LEMMA ChildNode == ASSUME Typed, Tree, NEW n \in Ptr, NEW x PROVE Child(n, x) \in Ptr
<1>1. CASE ~(n # NULL /\ IsDir(n) /\ x \in DOMAIN fnodes[n].subnodes)
  BY <1>1 DEF Child, Ptr
<1>2. CASE n # NULL /\ IsDir(n) /\ x \in DOMAIN fnodes[n].subnodes
  <2>1. n \in Node /\ Child(n, x) = fnodes[n].subnodes[x] /\ fnodes[n].type = "dir"
    BY <1>2, Zenon DEF Child, IsDir, Ptr
  <2>2. n \notin Files
    BY <2>1 DEF Tree, FileNode
  <2>3. n = ROOT \/ n = CAR
    BY <2>1, <2>2, Zenon DEF Files
  <2>4. Len(fnodes) # 1
    <3>1. DOMAIN << >> = {}
      OBVIOUS
    <3>2. Len(fnodes) = 1 => n = ROOT
      BY <2>1, NodeNumbers DEF ROOT
    <3> QED BY <1>2, <3>1, <3>2 DEF Tree
  <2>5. CAR \in Node
    <3>1. \A l \in Nat : 1 <= l /\ l # 1 => 2 <= l
      OBVIOUS
    <3>2. Len(fnodes) \in Nat /\ 1 <= Len(fnodes)
      BY <2>1, <2>3, NodeNumbers DEF ROOT, CAR
    <3>3. 2 <= Len(fnodes)
      BY <2>4, <3>1, <3>2, Zenon
    <3> QED BY <3>3, NodeNumbers DEF CAR
  <2>6. CASE n = ROOT
    <3>1. fnodes[n].subnodes = [y \in {"initcar"} |-> CAR]
      BY <2>5, <2>6 DEF Tree
    <3>2. fnodes[n].subnodes[x] = CAR
      BY <1>2, <3>1
    <3> QED BY <2>1, <2>5, <3>2, Zenon DEF Ptr
  <2>7. CASE n = CAR
    <3>1. PICK m \in Files : x = Name(m)
      BY <1>2, <2>5, <2>7, Zenon DEF Tree
    <3>2. fnodes[CAR].subnodes[Name(m)] = m /\ m \in Node
      BY DEF Tree, FileNode, Files
    <3> QED BY <2>1, <2>7, <3>1, <3>2, Zenon DEF Ptr
  <2> QED BY <2>3, <2>6, <2>7
<1> QED BY <1>1, <1>2

\* fs_child_of moves new_file to the child and counts both ends.
LEMMA ChildFacts ==
    ASSUME FiniteSetFacts, Inv, NEW a \in Actor, NEW c \in Node
    PROVE  LET N == fs_child_of(fnodes, frame[a].new_file, c) IN
           /\ N \in Seq(NodeRec) /\ SameShape(fnodes, N)
           /\ \A k \in Node : /\ ~N[k].destroyed
                              /\ N[k].ref_count = fnodes[k].ref_count - Is(frame[a].new_file, k) + Is(c, k)
<1> DEFINE o == frame[a].new_file  M == Unref(fnodes, o)  N == fs_child_of(fnodes, o, c)
<1>1. fnodes \in Seq(NodeRec) /\ o \in DOMAIN fnodes \cup {NULL} /\ Node = DOMAIN fnodes
  BY Zenon DEF Inv, Typed, Ptr, Node
<1>2. /\ M \in Seq(NodeRec) /\ SameShape(fnodes, M)
      /\ \A k \in Node : /\ M[k].ref_count = fnodes[k].ref_count - Is(o, k)
                         /\ k # o \/ fnodes[k].ref_count # 1 => M[k].destroyed = fnodes[k].destroyed
  BY <1>1, UnrefFacts, Zenon
<1>3. N = Ref(M, c)
  BY Zenon DEF fs_child_of
<1>4. DOMAIN M = Node
  BY <1>1, <1>2, Zenon DEF SameShape
<1> HIDE DEF o, M, N
<1>5. /\ N \in Seq(NodeRec) /\ SameShape(M, N)
      /\ \A k \in Node : N[k].ref_count = M[k].ref_count + Is(c, k) /\ N[k].destroyed = M[k].destroyed
  BY <1>2, <1>3, <1>4, RefFacts, Zenon
<1>6. SameShape(fnodes, N)
  BY <1>2, <1>5, ShapeTrans
<1>7. ASSUME NEW k \in Node
      PROVE  ~N[k].destroyed /\ N[k].ref_count = fnodes[k].ref_count - Is(o, k) + Is(c, k)
  <2>1. /\ fnodes[k].ref_count \in Int
        /\ fnodes[k].ref_count >= 1 + Is(frame[a].file, k) + Is(o, k)
        /\ Is(frame[a].file, k) \in 0 .. 1 /\ Is(o, k) \in 0 .. 1 /\ (k = o => Is(o, k) = 1)
    BY FrameHolds, IsInt DEF o
  <2>2. k = o => fnodes[k].ref_count # 1
    BY ONLY <2>1, SMTT(60)
  <2>3. ~N[k].destroyed
    BY <1>2, <1>5, <2>2, Zenon DEF Inv, NoneDestroyed
  <2>4. N[k].ref_count = fnodes[k].ref_count - Is(o, k) + Is(c, k)
    BY <1>2, <1>5
  <2> QED BY <2>3, <2>4, Zenon
<1> QED BY <1>5, <1>6, <1>7, Zenon DEF N, o

\* A name that is not there: both pointers of the frame go.
LEMMA BothDropped ==
    ASSUME FiniteSetFacts, Inv, NEW a \in Actor
    PROVE  LET N == Unref(Unref(fnodes, frame[a].new_file), frame[a].file) IN
           /\ N \in Seq(NodeRec) /\ SameShape(fnodes, N)
           /\ \A k \in Node : /\ ~N[k].destroyed
                              /\ N[k].ref_count = fnodes[k].ref_count
                                                  - Is(frame[a].file, k) - Is(frame[a].new_file, k)
<1> DEFINE o == frame[a].new_file  f == frame[a].file  M == Unref(fnodes, o)  N == Unref(M, f)
<1>1. /\ fnodes \in Seq(NodeRec) /\ Node = DOMAIN fnodes
      /\ o \in DOMAIN fnodes \cup {NULL} /\ f \in DOMAIN fnodes \cup {NULL}
  BY Zenon DEF Inv, Typed, Ptr, Node
<1>2. /\ M \in Seq(NodeRec) /\ SameShape(fnodes, M)
      /\ \A k \in Node : /\ M[k].ref_count = fnodes[k].ref_count - Is(o, k)
                         /\ k # o \/ fnodes[k].ref_count # 1 => M[k].destroyed = fnodes[k].destroyed
  BY <1>1, UnrefFacts, Zenon
<1>4. DOMAIN M = Node /\ f \in DOMAIN M \cup {NULL}
  BY <1>1, <1>2, Zenon DEF SameShape
<1> HIDE DEF o, f, M
<1>5. /\ N \in Seq(NodeRec) /\ SameShape(M, N)
      /\ \A k \in Node : /\ N[k].ref_count = M[k].ref_count - Is(f, k)
                         /\ k # f \/ M[k].ref_count # 1 => N[k].destroyed = M[k].destroyed
  BY <1>2, <1>4, UnrefFacts, Zenon
<1> HIDE DEF N
<1>6. SameShape(fnodes, N)
  BY <1>2, <1>5, ShapeTrans, Zenon
<1>7. ASSUME NEW k \in Node
      PROVE  ~N[k].destroyed /\ N[k].ref_count = fnodes[k].ref_count - Is(f, k) - Is(o, k)
  <2>1. /\ fnodes[k].ref_count \in Int
        /\ fnodes[k].ref_count >= 1 + Is(f, k) + Is(o, k)
        /\ Is(f, k) \in 0 .. 1 /\ Is(o, k) \in 0 .. 1 /\ (k = o => Is(o, k) = 1) /\ (k = f => Is(f, k) = 1)
    BY FrameHolds, IsInt, Zenon DEF o, f
  <2>2. M[k].ref_count = fnodes[k].ref_count - Is(o, k) /\ N[k].ref_count = M[k].ref_count - Is(f, k)
    BY <1>2, <1>5, Zenon
  <2>3. (k = o => fnodes[k].ref_count # 1) /\ (k = f => M[k].ref_count # 1)
    BY ONLY <2>1, <2>2, SMTT(60)
  <2>4. ~N[k].destroyed
    BY <1>2, <1>5, <2>3 DEF Inv, NoneDestroyed
  <2> QED BY ONLY <2>1, <2>2, <2>4, SMTT(60)
<1> QED BY <1>5, <1>6, <1>7, Zenon DEF N, M, o, f

\* One component of a path.
LEMMA ResolveInv == ASSUME FiniteSetFacts, Inv, NEW a \in Actor, fs_resolve_path(a) PROVE Inv'
<1> DEFINE f == frame[a]  last == f.i = Len(f.path)  c == Child(f.file, f.path[f.i])
<1>1. /\ Running /\ pc[a] = "resolve"
      /\ IF f.path[f.i] = "" THEN EmptyComponent(a, f, last) ELSE NamedComponent(a, f, last, c)
  BY Zenon DEF fs_resolve_path, At
<1>2. /\ f.i = 1 => f.new_file = NULL
      /\ f.i # 1 => f.new_file # NULL
      /\ f.file \in Ptr /\ f.new_file \in Ptr
  BY <1>1, Zenon DEF Inv, Frame, Running, Typed
<1>3. /\ fnodes \in Seq(NodeRec) /\ SameShape(fnodes, fnodes) /\ Node = DOMAIN fnodes
      /\ \A k \in Node : fnodes[k].ref_count \in Int /\ ~fnodes[k].destroyed /\ k # NULL
  BY NodeTyped, Zenon DEF Inv, Typed, SameShape, NoneDestroyed, Node
<1>4. ROOT \in Node
  <2>1. Len(fnodes) # 0
    BY <1>1, Booted, Zenon DEF Inv, Tree, Mounted, Booting
  <2>2. \A l \in Nat : l # 0 => 1 <= l
    OBVIOUS
  <2>3. Len(fnodes) \in Nat /\ 1 <= Len(fnodes)
    BY <2>1, <2>2, NodeNumbers, Zenon DEF Inv
  <2> QED BY <2>3, NodeNumbers DEF Inv, ROOT
<1>5. CASE f.path[f.i] = "" /\ last
  <2>1. Resolved(a, fnodes, f, f.new_file)
    BY <1>1, <1>5, Zenon DEF EmptyComponent
  <2>2. \A k \in Node : /\ ~fnodes[k].destroyed
                        /\ fnodes[k].ref_count = fnodes[k].ref_count - Is(f.new_file, k) + Is(f.new_file, k)
    BY <1>3, IsInt, SMTT(20)
  <2> DEFINE N == fnodes  n == f.new_file
  <2>3. /\ N \in Seq(NodeRec) /\ SameShape(fnodes, N) /\ n \in Ptr /\ Resolved(a, N, f, n)
        /\ \A k \in Node : ~N[k].destroyed /\ N[k].ref_count = fnodes[k].ref_count - Is(f.new_file, k) + Is(n, k)
    BY <1>2, <1>3, <2>1, <2>2, Zenon
  <2> HIDE DEF N, n
  <2> QED BY <1>1, <2>3, ResolvedInv, Zenon
<1>6. CASE f.path[f.i] = "" /\ ~last /\ f.i = 1
  <2>1. Descend(a, Ref(fnodes, ROOT), f, ROOT)
    BY <1>1, <1>6, Zenon DEF EmptyComponent
  <2>2. /\ Ref(fnodes, ROOT) \in Seq(NodeRec) /\ SameShape(fnodes, Ref(fnodes, ROOT))
        /\ \A k \in Node : /\ Ref(fnodes, ROOT)[k].ref_count = fnodes[k].ref_count + Is(ROOT, k)
                           /\ Ref(fnodes, ROOT)[k].destroyed = fnodes[k].destroyed
    BY <1>3, <1>4, RefFacts, Zenon
  <2>3. \A k \in Node : /\ ~Ref(fnodes, ROOT)[k].destroyed
                        /\ Ref(fnodes, ROOT)[k].ref_count
                              = fnodes[k].ref_count - Is(f.new_file, k) + Is(ROOT, k)
    <3> SUFFICES ASSUME NEW k \in Node
                 PROVE  /\ ~Ref(fnodes, ROOT)[k].destroyed
                        /\ Ref(fnodes, ROOT)[k].ref_count
                              = fnodes[k].ref_count - Is(f.new_file, k) + Is(ROOT, k)
      OBVIOUS
    <3>1. Is(f.new_file, k) = 0
      <4>1. f.new_file # k
        BY <1>2, <1>3, <1>6, Zenon
      <4> QED BY <4>1 DEF Is
    <3>2. ~Ref(fnodes, ROOT)[k].destroyed /\ Ref(fnodes, ROOT)[k].ref_count = fnodes[k].ref_count + Is(ROOT, k)
      BY <1>3, <2>2, Zenon
    <3>3. fnodes[k].ref_count \in Int /\ Is(ROOT, k) \in 0 .. 1
      BY <1>3, IsInt, SMTT(20)
    <3> QED BY ONLY <3>1, <3>2, <3>3, SMTT(60)
  <2> QED BY <1>1, <1>4, <1>6, <2>1, <2>2, <2>3, DescendInv, ZenonT(60)
<1>7. CASE f.path[f.i] = "" /\ ~last /\ f.i # 1
  <2>1. Descend(a, fnodes, f, f.new_file) /\ f.new_file \in Node
    BY <1>1, <1>2, <1>7, Zenon DEF EmptyComponent, Ptr
  <2>2. \A k \in Node : /\ ~fnodes[k].destroyed
                        /\ fnodes[k].ref_count = fnodes[k].ref_count - Is(f.new_file, k) + Is(f.new_file, k)
    BY <1>3, IsInt, SMTT(20)
  <2> DEFINE N == fnodes  n == f.new_file
  <2>3. /\ N \in Seq(NodeRec) /\ SameShape(fnodes, N) /\ n \in Node /\ Descend(a, N, f, n)
        /\ \A k \in Node : ~N[k].destroyed /\ N[k].ref_count = fnodes[k].ref_count - Is(f.new_file, k) + Is(n, k)
    BY <1>3, <2>1, <2>2, Zenon
  <2> HIDE DEF N, n
  <2> QED BY <1>1, <1>7, <2>3, DescendInv, Zenon
<1>8. CASE f.path[f.i] # "" /\ c = NULL
  <2>1. Fails(a, Unref(Unref(fnodes, f.new_file), f.file))
    BY <1>1, <1>8, Zenon DEF NamedComponent
  <2>2. pc[a] \in {"resolve", "open"}
    BY <1>1, Zenon
  <2> QED BY <1>1, <2>1, <2>2, BothDropped, FailsInv, Zenon
<1>9. CASE f.path[f.i] # "" /\ c # NULL
  <2>1. c \in Node /\ c \in Ptr
    BY <1>2, <1>9, ChildNode, Zenon DEF Inv, Ptr
  <2> DEFINE N == fs_child_of(fnodes, f.new_file, c)
  <2>2. /\ N \in Seq(NodeRec) /\ SameShape(fnodes, N)
        /\ \A k \in Node : /\ ~N[k].destroyed
                           /\ N[k].ref_count = fnodes[k].ref_count - Is(f.new_file, k) + Is(c, k)
    BY <2>1, ChildFacts, Zenon
  <2>3. (last => Resolved(a, N, f, c)) /\ (~last => Descend(a, N, f, c))
    BY <1>1, <1>9, Zenon DEF NamedComponent
  <2> HIDE DEF N, c
  <2>4. CASE last
    BY <1>1, <2>1, <2>2, <2>3, <2>4, ResolvedInv, Zenon
  <2>5. CASE ~last
    BY <1>1, <2>1, <2>2, <2>3, <2>5, DescendInv, Zenon
  <2> QED BY <2>4, <2>5
<1> QED BY <1>5, <1>6, <1>7, <1>8, <1>9, Zenon

\* The FCB takes over the pointer of the frame.
LEMMA OpenedInv ==
    ASSUME FiniteSetFacts, Inv, NEW a \in Actor, At(a, "open"), frame[a].new_file # NULL,
           fcbs' = Append(fcbs, frame[a].new_file),
           frame' = [frame EXCEPT ![a] = [Idle EXCEPT !.fd = frame[a].fd, !.fcb = Len(fcbs) + 1]],
           Goto(a, IF a = KERNEL THEN "exec" ELSE "ufcb"),
           UNCHANGED <<archive, p_cur, fnodes, proc, stop>>
    PROVE  Inv'
<1> DEFINE n == frame[a].new_file  g == [Idle EXCEPT !.fd = frame[a].fd, !.fcb = Len(fcbs) + 1]
           l == IF a = KERNEL THEN "exec" ELSE "ufcb"
<1>0. UNCHANGED <<archive, p_cur, fnodes, cur_dir, ufcb_set, last_fd, used, stop>> /\ pc' = [pc EXCEPT ![a] = l]
  BY DEF proc, Goto
<1>1. Node' = Node /\ Ptr' = Ptr /\ Files' = Files
  BY <1>0 DEF Node, Ptr, Files
<1>2. KERNEL \in Actor /\ Proc \subseteq Actor /\ KERNEL \notin Proc /\ pc[a] = "open" /\ stop = "none"
  BY VfsAssumption DEF Actor, At, Running
<1>3. Mounted /\ (a \in Proc => pc[KERNEL] = "sched") /\ (a # KERNEL => a \in Proc)
  BY <1>2, Booted, Zenon DEF Booting
<1>4. n \in Node /\ n \in Nat /\ frame[a].file = NULL /\ fcbs \in Seq(Nat) /\ Len(fcbs) \in Nat
      /\ frame[a] \in FrameRec
  BY <1>2, NodeNumbers, SMTT(60) DEF Inv, Typed, Frame, Ptr
<1>5. /\ g \in FrameRec /\ g.base = NULL /\ g.file = NULL /\ g.new_file = NULL /\ g.fd = frame[a].fd
      /\ g.fcb = Len(fcbs) + 1
  <2>1. frame[a].fd \in Nat /\ Len(fcbs) + 1 \in Nat
    BY ONLY <1>4, SMTT(60) DEF FrameRec
  <2> QED BY <2>1, IdleTyped, Zenon DEF FrameRec, Idle
<1>6. /\ frame' \in [Actor -> FrameRec] /\ frame'[a] = g /\ \A b \in Actor \ {a} : frame'[b] = frame[b]
  BY <1>5 DEF Inv, Typed
<1>7. /\ pc' \in [Actor -> KernelLabel \cup ProcLabel] /\ pc'[a] = l /\ \A b \in Actor \ {a} : pc'[b] = pc[b]
  <2>1. l \in KernelLabel \cup ProcLabel
    BY DEF KernelLabel, ProcLabel
  <2> QED BY <1>0, <2>1 DEF Inv, Typed
<1>8. /\ fcbs' \in Seq(Nat) /\ Len(fcbs) + 1 \in DOMAIN fcbs' /\ fcbs'[Len(fcbs) + 1] = n
      /\ \A i \in DOMAIN fcbs : i \in DOMAIN fcbs' /\ fcbs'[i] = fcbs[i]
      /\ \A i \in DOMAIN fcbs' : i \in DOMAIN fcbs \/ fcbs'[i] = n
  BY <1>4
<1> HIDE DEF n, g
<1>9. Typed'
  <2>1. pc'[KERNEL] \in KernelLabel /\ \A p \in Proc : pc'[p] \in ProcLabel
    <3>1. pc[KERNEL] \in KernelLabel /\ \A p \in Proc : pc[p] \in ProcLabel
      BY DEF Inv, Typed
    <3>2. "exec" \in KernelLabel /\ "ufcb" \in ProcLabel
      BY DEF KernelLabel, ProcLabel
    <3> QED BY <1>2, <1>7, <3>1, <3>2
  <2>2. \A b \in Actor : frame'[b].base \in Ptr' /\ frame'[b].file \in Ptr' /\ frame'[b].new_file \in Ptr'
    BY <1>1, <1>5, <1>6, Zenon DEF Inv, Typed, Ptr
  <2>3. \A i \in DOMAIN fcbs' : fcbs'[i] \in Ptr'
    BY <1>1, <1>4, <1>8, Zenon DEF Inv, Typed, Ptr
  <2> QED BY <1>0, <1>1, <1>6, <1>7, <1>8, <2>1, <2>2, <2>3, ZenonT(60) DEF Inv, Typed
<1>10. pc'[KERNEL] = pc[KERNEL] \/ (a = KERNEL /\ pc'[KERNEL] = "exec")
  BY <1>2, <1>7
<1>11. Tree'
  <2>1. Mounted'
    BY <1>3, <1>10 DEF Mounted
  <2>2. SameShape(fnodes, fnodes')
    BY <1>0 DEF SameShape
  <2> QED BY <1>0, <1>3, <2>1, <2>2, TreeKept, Zenon DEF Inv
<1>12. Alone'
  <2>1. pc'[KERNEL] \notin Booting
    BY <1>3, <1>10 DEF Mounted, Booting
  <2>2. ASSUME pc'[KERNEL] # "sched", NEW p \in Proc
        PROVE  pc'[p] = "none" /\ cur_dir'[p] = NULL /\ ufcb_set'[p] = << >>
    <3>1. a = KERNEL /\ pc[KERNEL] # "sched"
      BY <1>2, <1>3, <1>10, <2>2, Zenon
    <3> QED BY <1>0, <1>2, <1>7, <3>1 DEF Inv, Alone
  <2> QED BY <2>1, <2>2 DEF Alone
<1>13. Counted'
  <2> SUFFICES ASSUME NEW k \in Node PROVE fnodes[k].ref_count = Held(k)'
    BY <1>0, <1>1 DEF Counted
  <2> DEFINE C1 == Count(DOMAIN fcbs, fcbs, k)  C2 == Count(Proc, cur_dir, k)
             C3 == Count(Actor, FileOf, k)  C4 == Count(Actor, NewOf, k)  m == Is(n, k)  o == Is(k, CAR)
  <2>1. C1 \in Nat /\ C2 \in Nat /\ C3 \in Nat /\ C4 \in Nat /\ m \in 0 .. 1 /\ o \in 0 .. 1
    BY Finite, CountNat, IsInt, Zenon DEF Inv
  <2>2. Count(DOMAIN fcbs', fcbs', k) = C1 + m
    BY <1>4, CountAppends DEF n
  <2>3. k # NULL
    BY NodeTyped DEF Inv
  <2>4. Is(frame'[a].file, k) = 0 /\ Is(frame'[a].new_file, k) = 0 /\ Is(frame[a].file, k) = 0
    BY <1>4, <1>5, <1>6, <2>3, Zenon DEF Is
  <2>5. Count(Actor, FileOf', k) = C3 - 0 + 0 /\ Count(Actor, NewOf', k) = C4 - m + 0
    BY <1>6, <2>4, FrameMoves DEF Inv, n
  <2>6. Held(k)' = 1 + o + (C1 + m) + C2 + (C3 - 0 + 0) + (C4 - m + 0)
    BY <1>0, <2>2, <2>5 DEF Held
  <2>7. fnodes[k].ref_count = 1 + o + C1 + C2 + C3 + C4
    BY DEF Inv, Counted, Held
  <2> HIDE DEF C1, C2, C3, C4, m, o
  <2>8. 1 + o + (C1 + m) + C2 + (C3 - 0 + 0) + (C4 - m + 0) = 1 + o + C1 + C2 + C3 + C4
    BY ONLY <2>1
  <2> QED BY <2>6, <2>7, <2>8
<1>14. NoneDestroyed'
  BY <1>0, <1>1 DEF Inv, NoneDestroyed
<1>15. \A b \in Actor : Frame(b)'
  <2>1. ASSUME NEW b \in Actor, b # a PROVE Frame(b)'
    BY <1>0, <1>6, <1>7, <1>8, <2>1, FrameKept, Zenon DEF Inv, SameShape
  <2>2. Frame(a)'
    <3>1. n # NULL
      BY DEF n
    <3>2. pc'[a] \in {"exec", "ufcb"}
      BY <1>7
    <3> QED BY <1>5, <1>6, <1>8, <3>1, <3>2, Zenon DEF Frame, Booting
  <2> QED BY <2>1, <2>2, Zenon
<1>16. \A p \in Proc : Descriptors(p)'
  <2>1. ASSUME NEW p \in Proc, p # a PROVE Descriptors(p)'
    BY <1>0, <1>2, <1>6, <1>7, <1>8, <2>1, DescriptorsKept, Zenon DEF Inv
  <2>2. ASSUME a \in Proc PROVE Descriptors(a)'
    BY <1>0, <1>2, <1>5, <1>6, <1>8, <2>2, SMTT(60) DEF Inv, Descriptors
  <2> QED BY <2>1, <2>2
<1> QED BY <1>9, <1>11, <1>12, <1>13, <1>14, <1>15, <1>16, Zenon DEF Inv

\* A pointer of a frame goes, the other one being free.
LEMMA OneDropped ==
    ASSUME FiniteSetFacts, Inv, NEW a \in Actor, NEW n \in Node,
           \/ frame[a].file = NULL /\ frame[a].new_file = n
           \/ frame[a].file = n /\ frame[a].new_file = NULL
    PROVE  LET N == Unref(fnodes, n) IN
           /\ N \in Seq(NodeRec) /\ SameShape(fnodes, N)
           /\ \A k \in Node : /\ ~N[k].destroyed
                              /\ N[k].ref_count = fnodes[k].ref_count
                                                  - Is(frame[a].file, k) - Is(frame[a].new_file, k)
<1> DEFINE N == Unref(fnodes, n)
<1>1. fnodes \in Seq(NodeRec) /\ n \in DOMAIN fnodes \cup {NULL} /\ Node = DOMAIN fnodes
  BY Zenon DEF Inv, Typed, Node
<1>2. /\ N \in Seq(NodeRec) /\ SameShape(fnodes, N)
      /\ \A k \in Node : /\ N[k].ref_count = fnodes[k].ref_count - Is(n, k)
                         /\ k # n \/ fnodes[k].ref_count # 1 => N[k].destroyed = fnodes[k].destroyed
  BY <1>1, UnrefFacts, Zenon
<1> HIDE DEF N
<1>3. ASSUME NEW k \in Node
      PROVE  /\ ~N[k].destroyed
             /\ N[k].ref_count = fnodes[k].ref_count - Is(frame[a].file, k) - Is(frame[a].new_file, k)
  <2> DEFINE o == Is(frame[a].file, k)  w == Is(frame[a].new_file, k)  r == fnodes[k].ref_count
  <2>1. k # NULL
    BY NodeTyped, Zenon DEF Inv
  <2>2. (o = 0 /\ w = Is(n, k)) \/ (o = Is(n, k) /\ w = 0)
    BY <2>1, SMTT(60) DEF Is
  <2>3. Is(n, k) \in 0 .. 1 /\ (k = n => Is(n, k) = 1) /\ r \in Int /\ r >= 1 + o + w
    BY IsInt, FrameHolds, Zenon
  <2>4. N[k].ref_count = r - Is(n, k)
    BY <1>2, Zenon
  <2> HIDE DEF o, w, r
  <2>5. N[k].ref_count = r - o - w /\ (k = n => r # 1)
    BY ONLY <2>2, <2>3, <2>4, SMTT(60)
  <2>6. ~N[k].destroyed
    BY <1>2, <2>5 DEF Inv, NoneDestroyed, r
  <2> QED BY <2>5, <2>6, Zenon DEF r, o, w
<1> QED BY <1>2, <1>3, Zenon DEF N

\* The opening of a file that a path led to.
LEMMA OpenInv == ASSUME FiniteSetFacts, Inv, NEW a \in Actor, fs_open(a) PROVE Inv'
<1> DEFINE n == frame[a].new_file
<1>1. Running /\ pc[a] = "open" /\ At(a, "open")
  BY DEF fs_open, At
<1>2. CASE Stop("fault")
  BY <1>2, StopInv
<1>3. CASE n # NULL /\ Fails(a, Unref(fnodes, n))
  <2>1. n \in Node /\ frame[a].file = NULL
    BY <1>1, <1>3, Zenon DEF Inv, Typed, Ptr, Frame, Running
  <2>2. pc[a] \in {"resolve", "open"}
    BY <1>1
  <2>3. LET N == Unref(fnodes, n) IN
        /\ N \in Seq(NodeRec) /\ SameShape(fnodes, N)
        /\ \A k \in Node : /\ ~N[k].destroyed
                           /\ N[k].ref_count = fnodes[k].ref_count
                                               - Is(frame[a].file, k) - Is(frame[a].new_file, k)
    BY <2>1, OneDropped, Zenon
  <2> QED BY <1>1, <1>3, <2>2, <2>3, FailsInv, Zenon
<1>4. CASE /\ n # NULL /\ fcbs' = Append(fcbs, n)
           /\ frame' = [frame EXCEPT ![a] = [Idle EXCEPT !.fd = frame[a].fd, !.fcb = Len(fcbs) + 1]]
           /\ Goto(a, IF a = KERNEL THEN "exec" ELSE "ufcb")
           /\ UNCHANGED <<archive, p_cur, fnodes, proc, stop>>
  BY <1>1, <1>4, OpenedInv, Zenon
<1> QED BY <1>2, <1>3, <1>4 DEF fs_open
=============================================================================
