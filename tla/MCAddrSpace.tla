----------------------------- MODULE MCAddrSpace ----------------------------
(* AddrSpace for TLC: the processes are interchangeable.                   *)
EXTENDS AddrSpace

ProcSymmetry == Permutations(Proc)

=============================================================================
