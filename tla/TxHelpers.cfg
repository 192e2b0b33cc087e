SPECIFICATION Spec
CONSTANTS
    Calls = {c1, c2, c3}
    Airdrop = 1
    AirdropsApart = TRUE
    MaxBlock = 2
    NotYet = NotYet
    Initial <- MCInitial
    Requests <- MCRequests
INVARIANT TypeOK
PROPERTY ImplementsHelperEffects
SYMMETRY Symmetry
