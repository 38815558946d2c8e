SPECIFICATION Spec
CONSTANTS
    ImageSize = 5
    MaxFunctions = 4
    Tables <- MCTables
    Addresses <- MCAddresses
INVARIANTS
    TypeOK
    FindsTheFunction
    Excluded
PROPERTY Halves
\* The search returns.
CHECK_DEADLOCK FALSE
