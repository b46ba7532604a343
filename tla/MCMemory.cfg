CONSTANTS Thread = {t1, t2}
          UserPages = 3
          NULL = NULL
          SegAccess <- MCSegAccess
          Ins <- MCIns
          Outs <- MCOuts
          page_size = 2
          ublk_slots_size = 2
          vpgdesc_slots_size = 2
          TopPage = 6
          MaxResizes = 2
SPECIFICATION MemorySpec
INVARIANTS Disjoint PanicCause BlocksSound
PROPERTIES ProbeDecides FailedAllocUndone
CHECK_DEADLOCK FALSE
SYMMETRY MCSymmetry
