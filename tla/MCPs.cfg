CONSTANTS Pcb = {p1, p2, p3, p4}
          PS_PROC_ID_MAX = 3
          Mod = {m1, m2}
          KERNEL = KERNEL
          NULL = NULL
          Name = {x, y}
          Addr = {a1}
          MaxSym = 3
SPECIFICATION PsSpec
SYMMETRY ModuleSymmetry
INVARIANTS OnlyPidZeroLost SymbolsLive
PROPERTY LowestPid
CHECK_DEADLOCK FALSE
