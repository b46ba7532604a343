CONSTANTS
    Page <- TwoPage
    Pmad = {10}
    Type = {"available"}
    PmadOf <- TwoPmadOf
    TypeOf <- TwoTypeOf
    Reserved = {}
    MaxRef = 2
    NULL = NULL
    Thread = {t1, t2}
    Callers = {"alloc", "free"}
SPECIFICATION Spec
INVARIANT AssertionHolds
