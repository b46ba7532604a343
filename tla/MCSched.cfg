CONSTANTS Pcb = {p1, p2}
          PS_PROC_ID_MAX = 2
          MaxThreads = 3
          NULL = NULL
SPECIFICATION SchedSpec
INVARIANTS RunsLiveProcess
PROPERTIES CpuLostForGood EveryThreadRuns
CHECK_DEADLOCK FALSE
