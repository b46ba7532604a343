CONSTANTS
    Page <- MCPage
    Pmad <- MCPmad
    Type = {"available", "hardware"}
    PmadOf <- MCPmadOf
    TypeOf <- MCTypeOf
    Reserved <- MCReserved
    MaxRef = 2
    NULL = NULL
    Thread = {t1}
SPECIFICATION PagesSpec
INVARIANTS ListedUnused WellLinked CountsHolders PagesServeOnce BootSound
PROPERTY ImplementsPageList
