-------------------------------- MODULE MCPs --------------------------------
(***************************************************************************)
(* The process table, or the kernel modules and their symbols, for TLC.    *)
(***************************************************************************)
EXTENDS ProcTable, Sequences, TLC

CONSTANTS Mod, KERNEL, NULL, Name, Addr, MaxSym

VARIABLES part,  \* which of the two is at work
          ki_ps_kmod_list, prev, next, live, sections, views, symbols, syms,
          dangling, cut, reused, booted, status

modules == <<ki_ps_kmod_list, prev, next, live, sections, views, symbols, syms,
             dangling, cut, reused, booted, status>>

\* A file with a damaged header; a first program header that is refused at once,
\* after others or never; and none at all.
Files == [header : {FALSE}, segments : {<< >>}]
         \cup [header : {TRUE}, segments : {<< >>, <<"TRUNCATED">>, <<"OTHER", "LOAD">>,
                                            <<"DYNAMIC", "INTERP">>, <<"DYNAMIC", "OTHER">>}]

K == INSTANCE Kmod WITH File <- Files

\* Nothing tells modules apart, nor names.
ModuleSymmetry == Permutations(Mod) \cup Permutations(Name)

PsInit == Init /\ K!Init /\ part \in {"processes", "modules"}

PsNext == /\ UNCHANGED part
          /\ \/ part = "processes" /\ Next /\ UNCHANGED modules
             \/ part = "modules" /\ K!Next /\ UNCHANGED vars

PsSpec == PsInit /\ [][PsNext]_<<part, vars, modules>>

\* A lookup (kmod.cc:197-203) finds a symbol that exists and has the name asked
\* for, and no symbol outlives the module that registered it; a destroyed symbol
\* is found only while its unregistration is cut between its two halves
\* (kmod.cc:190-191), and later only if another call came between them.  The list
\* of modules holds those that exist (kmod.cc:38-84), linked both ways.
SymbolsLive == K!SymbolsLive /\ K!ListAgrees
=============================================================================
