------------------------------- MODULE TmpMap -------------------------------
(***************************************************************************)
(* Temporary mappings of physical pages (hn_tmpmap_early, hn_tmpunmap_early*)
(* while memory is set up, hn_tmpmap_post and hn_tmpunmap_post afterwards, *)
(* vmmgr/vm.cc) in the slots of mm_kernel_init_tmpmap_area, as the walks   *)
(* of the page tables nest them: a table is given back after the ones      *)
(* reached through it.  Every caller maps one page.                        *)
(***************************************************************************)
EXTENDS Integers, Sequences

CONSTANTS Slots,   \* pages of the area, KINITTMPMAP_SIZE / PAGESIZE
          Nesting, \* tables a walk holds at once
          Tables,  \* physical pages that hold tables
          NULL

VARIABLES mask,    \* flags of a slot's PTE: a subset of {"P", "RW"}
          address, \* address field of a slot's PTE
          stage,   \* "early", "post", or "panic"
          held     \* mappings of the running walk, outermost first

tmp == <<mask, address, stage, held>>

Slot == 0..Slots - 1
First(S) == IF S = {} THEN NULL ELSE CHOOSE s \in S : \A r \in S : s <= r

Init == /\ mask = [s \in Slot |-> {}] /\ address = [s \in Slot |-> NULL]
        /\ stage = "early" /\ held = <<>>

Enter(s, p, m) == /\ mask' = [mask EXCEPT ![s] = m]
                  /\ address' = [address EXCEPT ![s] = p]
                  /\ held' = Append(held, [slot |-> s, page |-> p])

Panic == stage' = "panic" /\ UNCHANGED <<mask, address, held>>

\* The first slot whose entry is not present.
hn_tmpmap_early(p) ==
    LET s == First({r \in Slot : "P" \notin mask[r]})
    IN  /\ stage = "early" /\ Len(held) < Nesting
        /\ IF s = NULL THEN Panic ELSE Enter(s, p, {"P", "RW"}) /\ UNCHANGED stage

Innermost == held[Len(held)].slot

hn_tmpunmap_early ==
    /\ stage = "early" /\ held # <<>>
    /\ mask' = [mask EXCEPT ![Innermost] = @ \ {"P"}]
    /\ held' = SubSeq(held, 1, Len(held) - 1)
    /\ UNCHANGED <<address, stage>>

\* kh_mm_init hands the area over when no walk is running.
Handover == stage = "early" /\ held = <<>> /\ stage' = "post" /\ UNCHANGED <<mask, address, held>>

\* The first slot with no flag but P; the loop ends before it tries the last
\* slot and before it accepts the one in front of it.  The slot must not be
\* present, which one that was given back is, and one that kh_vmalloc holds,
\* which asks for P only.
hn_tmpmap_post(p, m) ==
    LET s == First({r \in 0..Slots - 3 : mask[r] \subseteq {"P"}})
    IN  /\ stage = "post" /\ Len(held) < Nesting
        /\ IF s = NULL \/ (s # NULL /\ "P" \in mask[s]) THEN Panic
           ELSE Enter(s, p, m) /\ UNCHANGED stage

hn_tmpunmap_post ==
    /\ stage = "post" /\ held # <<>>
    /\ IF "P" \notin mask[Innermost] THEN Panic
       ELSE /\ mask' = [mask EXCEPT ![Innermost] = {"P"}]
            /\ held' = SubSeq(held, 1, Len(held) - 1)
            /\ UNCHANGED <<address, stage>>

Next == \/ \E p \in Tables : \/ hn_tmpmap_early(p)
                             \/ hn_tmpmap_post(p, {"P"}) \/ hn_tmpmap_post(p, {"P", "RW"})
        \/ hn_tmpunmap_early \/ hn_tmpunmap_post \/ Handover

\* What a walk holds stays readable until it is given back: no mapping takes
\* the slot of one that is still held, so the entry of every held slot is
\* present and names the page the caller asked for.
HeldReadable ==
    stage # "panic" =>
        /\ \A i, j \in DOMAIN held : i # j => held[i].slot # held[j].slot
        /\ \A i \in DOMAIN held : /\ "P" \in mask[held[i].slot]
                                  /\ address[held[i].slot] = held[i].page
=============================================================================
