CONSTANTS Thread = {t1, t2, t3, t4}
          Pair = {t1, t2}
          NULL = NULL
          SIZE_MOD = 4
          MaxDepth = 2
SPECIFICATION LocksSpec
INVARIANTS ReadersCounted OneWriter OverlapOnlyInWindow
           PanicsOnlyOnOverlap
CHECK_DEADLOCK FALSE
