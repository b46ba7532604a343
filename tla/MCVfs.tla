------------------------------- MODULE MCVfs --------------------------------
(***************************************************************************)
(* The model of Vfs for TLC.  Archives: a good one, one without its last   *)
(* entry in its size, one with a name twice, one without the first program.*)
(***************************************************************************)
EXTENDS Vfs, SequencesExt

E(name, size) == [name |-> name, size |-> size]
MCArchives == {[chain |-> <<E("pbinit", 2), E("b", 1), E("END", 0)>>, size |-> 6],
               [chain |-> <<E("pbinit", 2), E("b", 4), E("END", 0)>>, size |-> 6],
               [chain |-> <<E("b", 1), E("b", 1), E("END", 0)>>, size |-> 7],
               [chain |-> <<E("b", 1), E("END", 0)>>, size |-> 3]}
MCInitPath == <<"", "initcar", "pbinit">>
MCPaths == {<<"">>, <<"", "">>, <<"b">>, <<"", "initcar", "">>, <<"", "initcar", "", "b">>}
ProcSymmetry == Permutations(Proc)

\* Resolving a path finds what the path means: its names followed one after the
\* other, from the root when it begins with a slash and from the current
\* directory otherwise, empty components without effect; and it fails exactly
\* when one of them is missing.  (Of the empty path nothing is said.)
Meaning(base, path) ==
    FoldLeft(Child, IF Len(path) > 1 /\ path[1] = "" THEN ROOT ELSE base,
             SelectSeq(path, LAMBDA s : s # ""))
ResolveAgrees ==
    [][\A a \in Actor : LET f == frame[a] IN
         pc[a] = "resolve" /\ frame'[a].i # f.i + 1 /\ f.path # <<"">> /\ frame'[a] # f
            => Meaning(f.base, f.path) = frame'[a].new_file]_vars
=============================================================================
