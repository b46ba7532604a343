CONSTANTS
    Page <- MCPage
    Pmad <- MCPmad
    Type = {"available", "hardware"}
    PmadOf <- MCPmadOf
    TypeOf <- MCTypeOf
    Reserved <- MCReserved
    MaxRef = 2
    NULL = NULL
SPECIFICATION Spec
INVARIANT FailsOnlyWhenFull
