SPECIFICATION Spec
CONSTANTS
    CodeSize = 4
    LastState = 1
    MaxRegions = 3
    Regions <- MCRegions
    Addresses <- MCAddresses
INVARIANTS
    TypeOK
    FindsTheState
    Passed
\* The lookup returns.
CHECK_DEADLOCK FALSE
