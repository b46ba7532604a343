---------------------------- MODULE MCPageAlloc -----------------------------
(* Two threads on one region.  They leave mm_refpg out: the kernel has no  *)
(* caller of it.                                                           *)
EXTENDS PageAlloc

TwoPage == {10, 11, 12}
TwoPmadOf == [p \in TwoPage |-> 10]
TwoTypeOf == [a \in {10} |-> "available"]
=============================================================================
