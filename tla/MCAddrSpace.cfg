SPECIFICATION Spec
CONSTANTS
    Proc = {p1, p2}
    KERNEL = KERNEL
    PDPTX_N = 2
    PDX_N = 2
    PTX_N = 5
    MemSizes = {20, 37}
    StackPages = 2
    KStackPages = 2
    SegBase = {2, 19}
    SegPages = {2}
    HeapPages = {1}
    MaxSegs = 1
    MaxHeap = 1
    Words = {0, 2, 6, 38}
SYMMETRY ProcSymmetry
CHECK_DEADLOCK FALSE
INVARIANTS
    FramesExclusive
    InUseBacked
    StopsExplained
    KernelShared
PROPERTIES
    TranslationsStable
