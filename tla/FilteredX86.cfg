SPECIFICATION Spec
CONSTANTS
    Fns = {"nested", "filter"}
    Types = {"A", "B"}
    Eh <- MCEh
    ThrowInfo <- MCThrowInfo
    NoInfo = NoInfo
    MaxDepth = 6
    Main = "nested"
    Calls <- MCCalls
    CopyCalls = {}
    CleanupCalls = {}
    DestructorCalls = {}
    Throws <- MCThrows
    Rethrows <- MCRethrows
    Specified = {}
    Corrupted = {}
INVARIANTS
    UsesLiveException
