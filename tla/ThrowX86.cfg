SPECIFICATION FairSpec
CONSTANTS
    Fns = {"nested", "quiet", "classify", "retry", "again", "silent", "loud", "declared", "corrupt"}
    Types = {"A", "B"}
    Eh <- MCEh
    ThrowInfo <- MCThrowInfo
    NoInfo = NoInfo
    MaxDepth = 12
    Main = "nested"
    Calls <- MCCalls
    CopyCalls = {"silent"}
    CleanupCalls = {"silent", "loud"}
    DestructorCalls = {"silent"}
    Throws <- MCThrows
    Rethrows <- MCRethrows
    Specified = {"declared"}
    Corrupted = {"corrupt"}
INVARIANTS
    TypeOK
    ChainIsTheStack
    OneOwner
    CleanupsExact
    DestructionOrder
PROPERTIES
    HandlerIsInnermost
    StopIsJustified
    ImplementsLifetime
    DispatchEnds
