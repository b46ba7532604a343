-------------------------------- MODULE Kmod --------------------------------
(***************************************************************************)
(* Kernel modules and the symbols they and the kernel offer (kernel/ps/    *)
(* kmod.cc, kernel/main.cc, the module loader of elf.cc).  The hash map of *)
(* the symbols is used as Dict describes it.  A module's set of names      *)
(* holds views of the names its symbols own; a view is the number of the   *)
(* symbol, and reads any name once that symbol is destroyed.  No lock      *)
(* guards the symbols: the timer interrupt may cut an unregistration in    *)
(* two, and other threads make whole calls in between.                     *)
(***************************************************************************)
EXTENDS Integers, Sequences, SequencesExt, FiniteSets, Functions

CONSTANTS Mod, KERNEL, NULL,
          Name, Addr,    \* of symbols and of sections
          File,          \* what ps_load_kmod is given
          MaxSym         \* bounds the registrations

VARIABLES ki_ps_kmod_list, prev, next,
          live,          \* the modules that exist
          sections,      \* module -> the addresses of its registered_sections
          views,         \* module -> its registered_symbols
          symbols,       \* ki_registered_kernel_symbols, name -> symbol
          syms,          \* the symbols ever made: name, who made it, whether it is destroyed
          dangling,      \* the symbols of further entries, with a destroyed name and symbol
          cut,           \* the symbol of an unregistration cut in two, or NULL
          reused,        \* history: those of such during which another thread made a call
          booted,        \* the kernel's own symbols are registered
          status         \* "runs", or why nothing runs any more

registry == <<symbols, syms>>
list == <<ki_ps_kmod_list, prev, next, live>>
window == <<dangling, cut, reused>>
vars == <<list, sections, views, registry, window, booted, status>>

Init == /\ ki_ps_kmod_list = NULL /\ live = {}
        /\ prev = [m \in Mod |-> NULL] /\ next = [m \in Mod |-> NULL]
        /\ sections = [m \in Mod |-> {}] /\ views = [m \in Mod |-> {}]
        /\ symbols = << >> /\ syms = << >>
        /\ dangling = {} /\ cut = NULL /\ reused = {}
        /\ booted = FALSE /\ status = "runs"

Stop(why) == /\ status' = why
             /\ UNCHANGED <<list, sections, views, registry, booted>>

-----------------------------------------------------------------------------
(* The registry of symbols, as a record r of symbols and syms.             *)

Registry == [symbols |-> symbols, syms |-> syms]

Without(m, n) == Restrict(m, DOMAIN m \ {n})

\* Mutant: the symbol is destroyed and its entry stays.
UnregisterKeepsEntry(r, n) ==
    IF n \in DOMAIN r.symbols THEN [r EXCEPT !.syms[r.symbols[n]].destroyed = TRUE] ELSE r

\* The symbol is destroyed, with the name that the key and perhaps the argument
\* point into, before the entry is looked up again; in a call that is not cut in
\* two nothing reuses the memory in between.
ps_unregister_kernel_symbol(r, n) ==
    IF n \in DOMAIN r.symbols
    THEN [symbols |-> Without(r.symbols, n),
          syms |-> [r.syms EXCEPT ![r.symbols[n]].destroyed = TRUE]]
    ELSE r

Added(r, n, maker) ==
    [symbols |-> IF n \in DOMAIN r.symbols THEN r.symbols
                 ELSE [x \in DOMAIN r.symbols \cup {n} |->
                          IF x = n THEN Len(r.syms) + 1 ELSE r.symbols[x]],
     syms |-> Append(r.syms, [name |-> n, maker |-> maker, destroyed |-> FALSE])]

\* What a registration may end with.  The search for an overlapping address
\* finds nothing, as nothing is put into its tree.  Without memory for the name
\* or the map nothing changes, except that registering a known name may cost the
\* map any entry; a known name keeps its symbol and the new symbol is leaked, and
\* an entry with a destroyed name may read as the name, too.
ki_do_register_kernel_symbol(r, n, maker) ==
    {[ok |-> TRUE, r |-> Added(r, n, maker)], [ok |-> FALSE, r |-> r]}
    \cup {[ok |-> FALSE, r |-> [r EXCEPT !.symbols = Without(@, x)]] :
             x \in {y \in DOMAIN r.symbols : n \in DOMAIN r.symbols}}
    \cup {[ok |-> TRUE, r |-> [r EXCEPT !.syms = Added(r, n, maker).syms]] : s \in dangling}

\* The names a view may read.
Reads(s, v) == IF s[v].destroyed THEN Name ELSE {s[v].name}

\* What inserting n into the set of views vs may answer; once a view reads
\* something else the search may miss a name or find it where it is not.
InsertAnswers(s, vs, n) ==
    IF \E v \in vs : s[v].destroyed THEN BOOLEAN
    ELSE {n \notin {s[v].name : v \in vs}}

Becomes(r) == symbols' = r.symbols /\ syms' = r.syms

\* Neither the allocation of the symbol nor that of the set's node is checked.
RegisterFaults(m) == m \in live /\ Stop("fault")

\* A name that the module's set has already is taken for a lack of memory, and
\* what is registered under it goes.
RegisterInModule(m, n, out) ==
    IF ~out.ok THEN Becomes(out.r) /\ UNCHANGED views
    ELSE \E inserted \in InsertAnswers(out.r.syms, views[m], n) :
            IF inserted
            THEN Becomes(out.r) /\ views' = [views EXCEPT ![m] = @ \cup {Len(out.r.syms)}]
            ELSE Becomes(ps_unregister_kernel_symbol(out.r, n)) /\ UNCHANGED views

ps_register_kernel_symbol(m, n) ==
    /\ m \in live /\ Len(syms) < MaxSym
    /\ \E out \in ki_do_register_kernel_symbol(Registry, n, m) : RegisterInModule(m, n, out)
    /\ UNCHANGED <<list, sections, booted, status>>

\* Where an entry with a destroyed name is found, its symbol is freed twice.
FreesTwice == dangling # {} /\ Stop("fault")

Unregister(n) == /\ booted
                 /\ \/ /\ Becomes(ps_unregister_kernel_symbol(Registry, n))
                       /\ UNCHANGED <<list, sections, views, booted, status>>
                    \/ FreesTwice

\* The interrupt comes when the symbol is destroyed and its entry is in the map.
UnregisterCut(n) ==
    /\ booted /\ cut = NULL /\ n \in DOMAIN symbols
    /\ Becomes(ps_unregister_kernel_symbol(Registry, n))
    /\ dangling' = dangling \cup {symbols[n]} /\ cut' = symbols[n]
    /\ UNCHANGED <<list, sections, views, reused, booted, status>>

\* The entry is removed by its name.  If the memory of the name was taken, it
\* may read otherwise: the entry stays, and a new one of the name goes instead.
UnregisterEnds ==
    /\ cut # NULL /\ cut' = NULL
    /\ \/ dangling' = dangling \ {cut} /\ UNCHANGED symbols
       \/ /\ cut \in reused
          /\ symbols' = Without(symbols, syms[cut].name) /\ UNCHANGED dangling
    /\ reused' = reused \cap dangling'
    /\ UNCHANGED <<list, sections, views, syms, booted, status>>

\* The loop over the image's symbols at boot.
ScanSymbol(n) ==
    /\ ~booted /\ Len(syms) < MaxSym
    /\ \E out \in ki_do_register_kernel_symbol(Registry, n, KERNEL) :
          IF out.ok THEN Becomes(out.r) /\ UNCHANGED <<list, sections, views, booted, status>>
          ELSE Stop("panic")

ScanEnds == /\ ~booted /\ booted' = TRUE
            /\ UNCHANGED <<list, sections, views, registry, status>>

-----------------------------------------------------------------------------
(* Modules and sections.                                                   *)

ps_create_kmod(m) ==
    /\ booted /\ m \notin live
    /\ live' = live \cup {m}
    /\ prev' = [x \in Mod |-> CASE x = ki_ps_kmod_list -> m [] x = m -> NULL [] OTHER -> prev[x]]
    /\ next' = [next EXCEPT ![m] = ki_ps_kmod_list]
    /\ ki_ps_kmod_list' = m
    /\ UNCHANGED <<sections, views, registry, booted, status>>

\* What the registry may be once the views vs of a module are worked off.
RECURSIVE Unregistered(_, _)
Unregistered(r, vs) ==
    IF vs = {} THEN {r}
    ELSE UNION {UNION {Unregistered(ps_unregister_kernel_symbol(r, n), vs \ {v}) : n \in Reads(r.syms, v)} :
                   v \in vs}

RemoveFaults(m) == m \in live /\ views[m] # {} /\ FreesTwice

ps_remove_kmod(m) ==
    /\ m \in live
    /\ ki_ps_kmod_list' = IF ki_ps_kmod_list = m THEN next[m] ELSE ki_ps_kmod_list
    /\ next' = IF prev[m] = NULL THEN next ELSE [next EXCEPT ![prev[m]] = next[m]]
    /\ prev' = IF next[m] = NULL THEN prev ELSE [prev EXCEPT ![next[m]] = prev[m]]
    /\ \E r \in Unregistered(Registry, views[m]) : Becomes(r)
    /\ views' = [views EXCEPT ![m] = {}]
    /\ sections' = [sections EXCEPT ![m] = {}]
    /\ live' = live \ {m}
    /\ UNCHANGED <<booted, status>>

\* An address the module has already is refused, and the new section released.
ps_add_section_to_kmod(m, a) ==
    /\ m \in live
    /\ sections' = [sections EXCEPT ![m] = @ \cup {a}]
    /\ UNCHANGED <<list, views, registry, booted, status>>

\* The section at a of module o.
ps_remove_section_from_kmod(m, o, a) ==
    /\ m \in live /\ o \in live /\ a \in sections[o]
    /\ IF m # o THEN Stop("panic")
       ELSE /\ sections' = [sections EXCEPT ![m] = @ \ {a}]
            /\ UNCHANGED <<list, views, registry, booted, status>>

-----------------------------------------------------------------------------
(* Loading.                                                                *)

\* What loading file f may answer.  The case of a loadable segment runs on into
\* the one that refuses an interpreter, and the loop over the segments passes no
\* other kind: "endless" is a call that does not return.
ki_elf_load_kmod(f) ==
    LET refused == SelectInSeq(f.segments, LAMBDA t : t \in {"LOAD", "TRUNCATED", "INTERP"})
    IN  {"IO"} \cup
        (IF ~f.header THEN {"MALFORMED"}
         ELSE {"NO_MEM"} \cup
              (IF refused # 0 THEN {IF f.segments[refused] = "TRUNCATED" THEN "MALFORMED" ELSE "INVALID_ARGS"}
               ELSE IF f.segments = << >> THEN {"MALFORMED"} ELSE {"endless"}))

\* One loader is registered, and it never says that it does not know the format.
ps_load_kmod(f) == /\ booted
                   /\ \E result \in ki_elf_load_kmod(f) :
                         IF result = "endless" THEN Stop("endless")
                         ELSE UNCHANGED <<list, sections, views, registry, booted, status>>

\* A call that is not cut in two.
Whole == \/ \E n \in Name : Unregister(n) \/ ScanSymbol(n)
         \/ ScanEnds
         \/ \E m \in Mod : \/ ps_create_kmod(m) \/ ps_remove_kmod(m) \/ RemoveFaults(m) \/ RegisterFaults(m)
                           \/ \E n \in Name : ps_register_kernel_symbol(m, n)
                           \/ \E a \in Addr : ps_add_section_to_kmod(m, a)
                           \/ \E o \in Mod, a \in Addr : ps_remove_section_from_kmod(m, o, a)
         \/ \E f \in File : ps_load_kmod(f)

Next == /\ status = "runs"
        /\ \/ Whole /\ reused' = reused \cup ({cut} \ {NULL}) /\ UNCHANGED <<dangling, cut>>
           \/ \E n \in Name : UnregisterCut(n)
           \/ UnregisterEnds

Spec == Init /\ [][Next]_vars

-----------------------------------------------------------------------------
(* Properties.                                                             *)

\* A lookup (kmod.cc:197-203) finds a symbol that exists and has the name asked
\* for, and no symbol outlives the module that registered it: it is the kernel's
\* or is in the set that the removal of its module works off.  A destroyed symbol
\* is found only while its unregistration is between its two halves
\* (kmod.cc:190-191), and later only if another call came between them.
SymbolsLive ==
    /\ dangling \subseteq {cut} \cup reused
    /\ \A n \in DOMAIN symbols :
          LET s == symbols[n]
          IN  /\ ~syms[s].destroyed /\ syms[s].name = n
              /\ syms[s].maker # KERNEL => syms[s].maker \in live /\ s \in views[syms[s].maker]

\* The list holds the modules that exist, linked both ways (kmod.cc:38-84).
ListAgrees ==
    /\ (ki_ps_kmod_list = NULL) = (live = {})
    /\ \A m \in live : /\ prev[m] = NULL <=> m = ki_ps_kmod_list
                       /\ next[m] # NULL => next[m] \in live /\ prev[next[m]] = m
                       /\ prev[m] # NULL => prev[m] \in live /\ next[prev[m]] = m
=============================================================================
