----------------------------- MODULE MCPageList -----------------------------
(* Two regions of one type and one of another; page 10 is kept off the     *)
(* lists, as hn_mm_init_areas keeps the initial page tables and MAD pool.  *)
EXTENDS PageList

MCPage == {10, 11, 12, 13, 20, 21, 30}
MCPmad == {10, 20, 30}
MCPmadOf == [p \in MCPage |-> (p \div 10) * 10]
MCTypeOf == [a \in MCPmad |-> IF a = 20 THEN "hardware" ELSE "available"]
MCReserved == {10}
=============================================================================
