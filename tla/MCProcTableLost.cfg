CONSTANTS Pcb = {p1, p2}
          PS_PROC_ID_MAX = 3
SPECIFICATION Spec
INVARIANT LiveAreRegistered
CHECK_DEADLOCK FALSE
